-------------------------- MODULE SemanticsProofs --------------------------
(***************************************************************************)
(* What the semantic checks let through is what the IR writer assumes, and *)
(* the exit code tells what is wrong with what they do not let through,    *)
(* for any program whose expressions are post-orders.  The checks walk     *)
(* over an expression with a stack of types, the writer over its tree: the *)
(* lemmas of the first part say where in a post-order the operands of a    *)
(* node are, by induction over places, which the well-foundedness of the   *)
(* natural numbers gives.  The last parts show that the types found are    *)
(* those an expression has by its structure, defined by recursion over it. *)
(***************************************************************************)
EXTENDS Semantics, FiniteSetTheorems, SequenceTheorems, WellFoundedInduction, TLAPS

(* A set of numbers that is not empty has a least one.                     *)
LEMMA LeastNumber ==
  ASSUME NEW T, T \subseteq Nat, T # {}
  PROVE  \E x \in T : \A y \in T : x <= y
<1> DEFINE R == {pair \in Nat \X Nat : pair[1] < pair[2]}
<1>1. IsWellFoundedOn(R, Nat)
  BY NatLessThanWellFounded DEF OpToRel
<1>2. \A p, q \in Nat : p < q => <<p, q>> \in R
  OBVIOUS
<1> HIDE DEF R
<1>3. \E x \in T : \A y \in T : ~(<<y, x>> \in R)
  BY <1>1, WFMin
<1>4. PICK x \in T : \A y \in T : ~(<<y, x>> \in R)
  BY <1>3
<1>5. \A y \in T : ~(y < x)
  BY <1>2, <1>4
<1>6. \A y \in T : x <= y
  BY <1>5
<1> QED BY <1>6

-----------------------------------------------------------------------------
(* Where the operands of a node are.                                       *)

LEMMA OperandsOfNode ==
  ASSUME NEW node \in Node
  PROVE  \/ node.kind \in {"literal", "identifier"} /\ Operands(node) = 0
         \/ node.kind \in {"unary", "call"} /\ Operands(node) = 1
         \/ node.kind = "binary" /\ Operands(node) = 2
<1>1. node.kind \in {"literal", "identifier", "binary", "unary", "call"}
  <2>1. CASE node \in [kind : {"literal"}, is : IrType] \cup [kind : {"identifier"}, is : STRING]
    BY <2>1
  <2>2. CASE node \in [kind : {"binary"}, is : BinaryOp \cup LogicalOp] \cup [kind : {"unary"}, is : UnaryOp]
    BY <2>2
  <2>3. CASE node = [kind |-> "call", is |-> ""]
    BY <2>3
  <2> QED BY <2>1, <2>2, <2>3 DEF Node
<1> QED BY <1>1 DEF Operands, Leaf

LEMMA LiteralsAreTyped ==
  ASSUME NEW node \in Node, node.kind = "literal"
  PROVE  node.is \in IrType
<1>1. CASE node \in [kind : {"literal"}, is : IrType]
  BY <1>1
<1>2. CASE node \in [kind : {"identifier"}, is : STRING]
  BY <1>2
<1>3. CASE node \in [kind : {"binary"}, is : BinaryOp \cup LogicalOp] \cup [kind : {"unary"}, is : UnaryOp]
  BY <1>3
<1>4. CASE node = [kind |-> "call", is |-> ""]
  BY <1>4
<1> QED BY <1>1, <1>2, <1>3, <1>4 DEF Node

LEMMA UnaryIsNotLogical ==
  ASSUME NEW node \in Node, node.kind = "unary"
  PROVE  node.is \notin LogicalOp
<1>1. CASE node \in [kind : {"literal"}, is : IrType] \cup [kind : {"identifier"}, is : STRING]
  BY <1>1
<1>2. CASE node \in [kind : {"binary"}, is : BinaryOp \cup LogicalOp]
  BY <1>2
<1>3. CASE node \in [kind : {"unary"}, is : UnaryOp]
  BY <1>3 DEF UnaryOp, LogicalOp
<1>4. CASE node = [kind |-> "call", is |-> ""]
  BY <1>4
<1> QED BY <1>1, <1>2, <1>3, <1>4 DEF Node

(* What a node does to the number of operands that wait.                   *)
LEMMA DepthSteps ==
  ASSUME NEW e \in Seq(Node)
  PROVE  /\ Depth(e, 0) = 0
         /\ \A i \in 0 .. Len(e) : Depth(e, i) \in Int
         /\ \A i \in 1 .. Len(e) : Depth(e, i) = Depth(e, i - 1) - Operands(e[i]) + 1
<1> DEFINE L(i) == {j \in 1 .. i : e[j].kind \in Leaf}
           B(i) == {j \in 1 .. i : e[j].kind = "binary"}
<1>1. \A i \in Nat : /\ IsFiniteSet(L(i)) /\ Cardinality(L(i)) \in Nat
                     /\ IsFiniteSet(B(i)) /\ Cardinality(B(i)) \in Nat
  <2> TAKE i \in Nat
  <2>1. IsFiniteSet(1 .. i)
    BY FS_Interval
  <2> QED BY <2>1, FS_Subset, FS_CardinalityType
<1>2. L(0) = {} /\ B(0) = {}
  OBVIOUS
<1>3. ASSUME NEW i \in 1 .. Len(e)
      PROVE  Depth(e, i) = Depth(e, i - 1) - Operands(e[i]) + 1
  <2>1. i \in Nat /\ i - 1 \in Nat /\ e[i] \in Node /\ i \notin L(i - 1) /\ i \notin B(i - 1)
    OBVIOUS
  <2>2. 1 .. i = (1 .. (i - 1)) \cup {i}
    OBVIOUS
  <2>3. L(i) = IF e[i].kind \in Leaf THEN L(i - 1) \cup {i} ELSE L(i - 1)
    BY <2>2
  <2>4. B(i) = IF e[i].kind = "binary" THEN B(i - 1) \cup {i} ELSE B(i - 1)
    BY <2>2
  <2> HIDE DEF L, B
  <2>5. Cardinality(L(i)) = Cardinality(L(i - 1)) + (IF e[i].kind \in Leaf THEN 1 ELSE 0)
    <3>1. Cardinality(L(i - 1) \cup {i}) = Cardinality(L(i - 1)) + 1
      BY <1>1, <2>1, FS_AddElement
    <3>2. Cardinality(L(i - 1)) \in Nat
      BY <1>1, <2>1
    <3> QED BY <2>3, <3>1, <3>2
  <2>6. Cardinality(B(i)) = Cardinality(B(i - 1)) + (IF e[i].kind = "binary" THEN 1 ELSE 0)
    <3>1. Cardinality(B(i - 1) \cup {i}) = Cardinality(B(i - 1)) + 1
      BY <1>1, <2>1, FS_AddElement
    <3>2. Cardinality(B(i - 1)) \in Nat
      BY <1>1, <2>1
    <3> QED BY <2>4, <3>1, <3>2
  <2>7. /\ Depth(e, i) = Cardinality(L(i)) - Cardinality(B(i))
        /\ Depth(e, i - 1) = Cardinality(L(i - 1)) - Cardinality(B(i - 1))
    BY DEF Depth, L, B
  <2>8. /\ Cardinality(L(i)) \in Nat /\ Cardinality(B(i)) \in Nat
        /\ Cardinality(L(i - 1)) \in Nat /\ Cardinality(B(i - 1)) \in Nat
    BY <1>1, <2>1
  <2>9. \/ e[i].kind \in Leaf /\ e[i].kind # "binary" /\ Operands(e[i]) = 0
        \/ e[i].kind \notin Leaf /\ e[i].kind # "binary" /\ Operands(e[i]) = 1
        \/ e[i].kind \notin Leaf /\ e[i].kind = "binary" /\ Operands(e[i]) = 2
    BY <2>1, OperandsOfNode DEF Leaf
  <2>10. CASE e[i].kind \in Leaf /\ e[i].kind # "binary" /\ Operands(e[i]) = 0
    <3>1. Cardinality(L(i)) = Cardinality(L(i - 1)) + 1 /\ Cardinality(B(i)) = Cardinality(B(i - 1)) + 0
      BY <2>5, <2>6, <2>10
    <3> QED BY <2>7, <2>8, <2>10, <3>1
  <2>11. CASE e[i].kind \notin Leaf /\ e[i].kind # "binary" /\ Operands(e[i]) = 1
    <3>1. Cardinality(L(i)) = Cardinality(L(i - 1)) + 0 /\ Cardinality(B(i)) = Cardinality(B(i - 1)) + 0
      BY <2>5, <2>6, <2>11
    <3> QED BY <2>7, <2>8, <2>11, <3>1
  <2>12. CASE e[i].kind \notin Leaf /\ e[i].kind = "binary" /\ Operands(e[i]) = 2
    <3>1. Cardinality(L(i)) = Cardinality(L(i - 1)) + 0 /\ Cardinality(B(i)) = Cardinality(B(i - 1)) + 1
      BY <2>5, <2>6, <2>12
    <3> QED BY <2>7, <2>8, <2>12, <3>1
  <2> QED BY <2>9, <2>10, <2>11, <2>12
<1>4. \A i \in 0 .. Len(e) : Depth(e, i) = Cardinality(L(i)) - Cardinality(B(i))
  BY DEF Depth
<1> HIDE DEF L, B
<1>5. \A i \in 0 .. Len(e) : Depth(e, i) \in Int
  BY <1>1, <1>4
<1>6. Depth(e, 0) = 0
  <2>1. Depth(e, 0) = Cardinality(L(0)) - Cardinality(B(0))
    BY <1>4
  <2>2. Cardinality(L(0)) = 0 /\ Cardinality(B(0)) = 0
    BY <1>2, FS_EmptySet
  <2> QED BY <2>1, <2>2
<1> QED BY <1>3, <1>5, <1>6

(* A subexpression leaves one operand more than there was, and within it   *)
(* there are never fewer than at its end.                                  *)
LEMMA StartsFacts ==
  ASSUME NEW e \in Seq(Node), PostOrder(e), NEW i \in 1 .. Len(e)
  PROVE  /\ Starts(e)[i] \in 1 .. i
         /\ Depth(e, Starts(e)[i] - 1) = Depth(e, i) - 1
         /\ \A j \in Starts(e)[i] .. i : Depth(e, i) <= Depth(e, j)
<1> DEFINE T == {k \in 1 .. i : \A j \in k .. i : Depth(e, i) <= Depth(e, j)}
<1>1. i \in Nat /\ i \in DOMAIN e /\ i - 1 \in 0 .. Len(e) /\ e[i] \in Node
  OBVIOUS
<1>2. /\ Depth(e, 0) = 0 /\ \A j \in 0 .. Len(e) : Depth(e, j) \in Int
      /\ \A j \in 1 .. Len(e) : Depth(e, j) = Depth(e, j - 1) - Operands(e[j]) + 1
  BY DepthSteps
<1>3. i \in T /\ T \subseteq Nat
  BY <1>1, <1>2
<1>4. PICK s \in T : \A k \in T : s <= k
  BY <1>3, LeastNumber
<1>5. Starts(e)[i] = Min(T)
  BY <1>1 DEF Starts
<1> HIDE DEF T
<1>6. Min(T) \in T /\ \A k \in T : Min(T) <= k
  BY <1>4 DEF Min
<1>7. PICK m : m = Min(T)
  OBVIOUS
<1>8. /\ m \in 1 .. i /\ \A j \in m .. i : Depth(e, i) <= Depth(e, j)
      /\ m - 1 \in T => m <= m - 1
  BY <1>6, <1>7 DEF T
<1>9. m - 1 \in 0 .. Len(e) /\ m \in 1 .. Len(e) /\ ~(m <= m - 1)
  BY <1>1, <1>8
<1>10. Depth(e, i) >= 1
  <2>1. Operands(e[i]) <= Depth(e, i - 1)
    BY <1>1 DEF PostOrder
  <2>2. Operands(e[i]) \in {0, 1, 2}
    BY <1>1, OperandsOfNode
  <2>3. Depth(e, i) = Depth(e, i - 1) - Operands(e[i]) + 1 /\ Depth(e, i - 1) \in Int
    BY <1>1, <1>2
  <2> QED BY <2>1, <2>2, <2>3
<1>11. Depth(e, m) <= Depth(e, m - 1) + 1 /\ Depth(e, m - 1) \in Int /\ Depth(e, m) \in Int
  <2>1. Operands(e[m]) \in {0, 1, 2}
    BY <1>9, OperandsOfNode
  <2>2. /\ Depth(e, m) = Depth(e, m - 1) - Operands(e[m]) + 1
        /\ Depth(e, m - 1) \in Int /\ Depth(e, m) \in Int
    BY <1>9, <1>2
  <2> QED BY <2>1, <2>2
<1>12. Depth(e, i) <= Depth(e, m) /\ Depth(e, i) \in Int
  BY <1>1, <1>2, <1>8
<1>13. Depth(e, m - 1) < Depth(e, i)
  <2>1. CASE m = 1
    BY <1>2, <1>10, <1>12, <2>1
  <2>2. CASE m # 1
    <3>1. SUFFICES ASSUME Depth(e, i) <= Depth(e, m - 1) PROVE FALSE
      BY <1>11, <1>12
    <3>2. m - 1 \in 1 .. i /\ \A j \in m - 1 .. i : j = m - 1 \/ j \in m .. i
      BY <1>8, <2>2
    <3>3. m - 1 \in T
      BY <1>8, <3>1, <3>2 DEF T
    <3> QED BY <1>8, <1>9, <3>3
  <2> QED BY <2>1, <2>2
<1>14. Depth(e, m - 1) = Depth(e, i) - 1
  BY <1>11, <1>12, <1>13
<1> QED BY <1>5, <1>7, <1>8, <1>14

(* The operands of a node: the one before it, and for the left one of two, *)
(* the one before all of the right one.                                    *)
LEMMA OperandsBefore ==
  ASSUME NEW e \in Seq(Node), PostOrder(e), NEW i \in 1 .. Len(e), Operands(e[i]) # 0
  PROVE  /\ i - 1 \in 1 .. Len(e) /\ Depth(e, i - 1) > 0
         /\ Operands(e[i]) = 2 =>
              LET left == Starts(e)[i - 1] - 1 IN
              /\ left \in 1 .. i - 2 /\ Depth(e, left) = Depth(e, i - 1) - 1
              /\ Depth(e, i - 1) > 1
              /\ \A j \in left + 1 .. i - 1 : Depth(e, left) < Depth(e, j)
<1>1. i \in Nat /\ i >= 1 /\ e[i] \in Node /\ i - 1 \in 0 .. Len(e) /\ i \in DOMAIN e
  OBVIOUS
<1>2. Operands(e[i]) \in {0, 1, 2}
  BY <1>1, OperandsOfNode
<1>3. Depth(e, 0) = 0 /\ \A j \in 0 .. Len(e) : Depth(e, j) \in Int
  BY DepthSteps
<1>4. Operands(e[i]) <= Depth(e, i - 1)
  BY <1>1 DEF PostOrder
<1>5. i - 1 \in 1 .. Len(e) /\ Depth(e, i - 1) > 0
  BY <1>1, <1>2, <1>3, <1>4
<1>6. ASSUME Operands(e[i]) = 2, NEW left, left = Starts(e)[i - 1] - 1
      PROVE  /\ left \in 1 .. i - 2 /\ Depth(e, left) = Depth(e, i - 1) - 1
             /\ Depth(e, i - 1) > 1
             /\ \A j \in left + 1 .. i - 1 : Depth(e, left) < Depth(e, j)
  <2>1. Depth(e, i - 1) > 1 /\ Depth(e, i - 1) \in Int
    BY <1>1, <1>3, <1>4, <1>6
  <2>2. PICK s : s = Starts(e)[i - 1]
    OBVIOUS
  <2>3. /\ s \in 1 .. i - 1 /\ Depth(e, s - 1) = Depth(e, i - 1) - 1
        /\ \A j \in s .. i - 1 : Depth(e, i - 1) <= Depth(e, j)
    BY <1>5, <2>2, StartsFacts
  <2>4. s - 1 # 0
    BY <1>3, <2>1, <2>3
  <2>5. left = s - 1 /\ left \in 1 .. i - 2 /\ left + 1 = s
    BY <1>1, <1>6, <2>2, <2>3, <2>4
  <2>6. \A j \in s .. i - 1 : j \in 0 .. Len(e)
    BY <1>1, <2>3
  <2> QED BY <1>3, <2>1, <2>3, <2>5, <2>6
<1> QED BY <1>5, <1>6

-----------------------------------------------------------------------------
(* The invariant.                                                          *)

(* The expressions that have been checked.                                 *)
Passed(f, s) ==
  /\ f \in DOMAIN program /\ s \in DOMAIN Exprs(f)
  /\ \/ pass = "emit"
     \/ pass = "check" /\ f < fn
     \/ pass = "check" /\ f = fn /\ s < stmt

(* The nodes before the one that is to be checked next.                    *)
Earlier(n) ==
  \/ n[1] < fn
  \/ n[1] = fn /\ n[2] < stmt
  \/ n[1] = fn /\ n[2] = stmt /\ n[3] < pos

(* The operands of a node have types that it accepts.                      *)
Accepted(f, s, i) ==
  LET e == Exprs(f)[s]
      left == Starts(e)[i - 1] - 1
      type(k) == TypeOf(<<f, s, k>>)
  IN /\ e[i].kind = "binary" =>
          BinaryAccepts(e[i].is, type(left), type(i - 1)) /\ type(i) = BinaryType(e[i].is, type(left))
     /\ e[i].kind = "unary" => UnaryAccepts(e[i].is, type(i - 1)) /\ type(i) = type(i - 1)

PlaceOK ==
  /\ program \in Programs
  /\ pass \in {"declare", "resolve"} => stmt = 1 /\ pos = 1 /\ types = <<>> /\ DOMAIN typed = {}
  /\ pass = "check" =>
       /\ stmt <= Len(Body) => pos \in 1 .. Len(Body[stmt]) + 1
       /\ stmt = Len(Body) + 1 => pos = 1 /\ types = <<>>

(* The stack of types has the type of every node whose value has not been  *)
(* used, in its place: those after which there were always more operands.  *)
StackOK ==
  pass = "check" /\ stmt <= Len(Body) =>
    /\ Len(types) = Depth(Body[stmt], pos - 1)
    /\ \A i \in 1 .. pos - 1 :
         (\A j \in i + 1 .. pos - 1 : Depth(Body[stmt], i) < Depth(Body[stmt], j)) =>
           types[Depth(Body[stmt], i)] = TypeOf(<<fn, stmt, i>>)

(* Nodes are typed in order, each has accepted its operands, and what was  *)
(* returned has the type of the function.                                  *)
TypedOK ==
  /\ \A n \in DOMAIN typed :
       /\ n[1] \in DOMAIN program /\ n[2] \in DOMAIN program[n[1]].body /\ n \in Nodes(n[1], n[2])
       /\ pass = "check" => Earlier(n)
       /\ Accepted(n[1], n[2], n[3])
  /\ pass = "check" /\ stmt <= Len(Body) =>
       \A i \in 1 .. pos - 1 : <<fn, stmt, i>> \in DOMAIN typed
  /\ \A f, s : Passed(f, s) =>
       /\ s <= Len(program[f].body) => Nodes(f, s) \subseteq DOMAIN typed
       /\ Exprs(f)[s] # <<>> => TypeOf(<<f, s, Len(Exprs(f)[s])>>) = program[f].returns

(* Identifiers are bound function by function, to names that are declared. *)
BoundOK ==
  /\ \A n \in bound : n[1] \in DOMAIN program /\ n \in Identifiers(n[1]) /\ Is(n) \in DOMAIN symbols
  /\ pass = "resolve" => \A f \in 1 .. fn - 1 : Identifiers(f) \subseteq bound
  /\ pass \in {"check", "emit"} => \A f \in DOMAIN program : Identifiers(f) \subseteq bound

Names(n) == {program[f].name : f \in 1 .. n}

NamesOK ==
  /\ pass = "declare" =>
       /\ DOMAIN symbols = Names(fn - 1)
       /\ \A f, g \in 1 .. fn - 1 : program[f].name = program[g].name => f = g
  /\ pass \in {"resolve", "check", "emit"} => DOMAIN symbols = Names(Len(program)) /\ Distinct

(* Missing and repeated names are reported before anything else is.        *)
NamesFirst ==
  /\ outcome = "NameError" => ~(Distinct /\ NamesDefined)
  /\ outcome \in {"Success", "TypeError", "Unimplemented"} => Distinct /\ NamesDefined

SemanticsInv ==
  /\ TypeOK /\ PlaceOK /\ StackOK /\ TypedOK /\ BoundOK /\ NamesOK /\ NamesFirst
  /\ pass # "over" => outcome = "none"

(* The expressions of a function, the last one included.                   *)
LEMMA ProgramFacts ==
  ASSUME program \in Programs, NEW f \in DOMAIN program
  PROVE  /\ program \in Seq(FunctionNode) /\ program[f].name \in STRING
         /\ program[f].returns \in Annotation
         /\ program[f].body \in Seq(Seq(Node)) /\ program[f].last \in Seq(Node)
         /\ DOMAIN Exprs(f) = 1 .. Len(program[f].body) + 1
         /\ \A s \in DOMAIN program[f].body : Exprs(f)[s] = program[f].body[s]
         /\ Exprs(f)[Len(program[f].body) + 1] = program[f].last
         /\ \A s \in DOMAIN Exprs(f) : Exprs(f)[s] \in Seq(Node) /\ PostOrder(Exprs(f)[s])
<1>1. program \in Seq(FunctionNode)
  BY ProgramsAssumption
<1>2. program[f] \in FunctionNode
  BY <1>1
<1>3. /\ program[f].name \in STRING /\ program[f].returns \in Annotation
      /\ program[f].body \in Seq(Seq(Node)) /\ program[f].last \in Seq(Node)
  BY <1>2 DEF FunctionNode
<1>4. PICK b, l : b = program[f].body /\ l = program[f].last
  OBVIOUS
<1>5. /\ DOMAIN Append(b, l) = 1 .. Len(b) + 1 /\ Append(b, l)[Len(b) + 1] = l
      /\ \A s \in DOMAIN b : Append(b, l)[s] = b[s] /\ b[s] \in Seq(Node)
      /\ DOMAIN b = 1 .. Len(b)
  BY <1>3, <1>4
<1>6. Exprs(f) = Append(b, l)
  BY <1>4 DEF Exprs
<1>7. PostOrder(l) /\ \A s \in DOMAIN b : PostOrder(b[s])
  BY <1>4, ProgramsAssumption
<1>8. ASSUME NEW s \in DOMAIN Exprs(f)
      PROVE  Exprs(f)[s] \in Seq(Node) /\ PostOrder(Exprs(f)[s])
  <2>1. s \in DOMAIN b \/ s = Len(b) + 1
    BY <1>3, <1>4, <1>5, <1>6
  <2> QED BY <1>3, <1>4, <1>5, <1>6, <1>7, <2>1
<1> QED BY <1>1, <1>3, <1>4, <1>5, <1>6, <1>8

(* Once symbols are resolved, every name is defined.                       *)
LEMMA NamesResolved ==
  ASSUME SemanticsInv, pass \in {"check", "emit"}
  PROVE  Distinct /\ NamesDefined
<1> USE DEF SemanticsInv
<1>1. program \in Programs /\ program \in Seq(FunctionNode)
  BY ProgramsAssumption DEF PlaceOK
<1>2. DOMAIN Globals = Names(Len(program))
  BY <1>1 DEF Globals, Names, Range
<1>3. ASSUME NEW f \in DOMAIN program, NEW s \in DOMAIN program[f].body,
             NEW i \in DOMAIN program[f].body[s], program[f].body[s][i].kind = "identifier"
      PROVE  program[f].body[s][i].is \in DOMAIN Globals
  <2>1. Exprs(f)[s] = program[f].body[s]
    BY <1>1, ProgramFacts
  <2>2. PICK n : n = <<f, s, i>>
    OBVIOUS
  <2>3. n \in Nodes(f, s) /\ Kind(n) = "identifier" /\ Is(n) = program[f].body[s][i].is
    BY <1>3, <2>1, <2>2 DEF Nodes, Kind, Is
  <2>4. n \in Identifiers(f)
    BY <2>3 DEF Identifiers
  <2>5. n \in bound
    BY <2>4 DEF BoundOK
  <2>6. Is(n) \in DOMAIN symbols
    BY <2>5 DEF BoundOK
  <2> QED BY <1>2, <2>3, <2>6 DEF NamesOK
<1>4. NamesDefined
  BY <1>3 DEF NamesDefined, Range
<1> QED BY <1>4 DEF NamesOK

(* An error leaves everything as it was.                                   *)
LEMMA FailKeeps ==
  ASSUME SemanticsInv, NEW error, Fail(error),
         error \in {"NameError", "TypeError", "Unimplemented", "InternalError"},
         error = "NameError" => ~(Distinct /\ NamesDefined),
         error \in {"TypeError", "Unimplemented"} => Distinct /\ NamesDefined
  PROVE  SemanticsInv'
<1> USE DEF SemanticsInv
<1>1. /\ pass' = "over" /\ outcome' = error
      /\ UNCHANGED <<program, fn, stmt, pos, symbols, bound, typed, types>>
  BY DEF Fail, walk
<1>2. TypeOK'
  BY <1>1 DEF TypeOK, Nodes, Exprs, Body, Function
<1>3. PlaceOK' /\ StackOK' /\ NamesOK'
  BY <1>1 DEF PlaceOK, StackOK, NamesOK
<1>4. \A f, s, i : Accepted(f, s, i)' = Accepted(f, s, i)
  BY <1>1 DEF Accepted, TypeOf, Exprs, Kind, Is
<1>5. (\A f, s : Nodes(f, s)' = Nodes(f, s)) /\ \A f : Identifiers(f)' = Identifiers(f)
  BY <1>1 DEF Nodes, Identifiers, Exprs, Kind
<1>6. TypedOK'
  BY <1>1, <1>4, <1>5 DEF TypedOK, Passed
<1>7. BoundOK'
  BY <1>1, <1>5 DEF BoundOK, Is, Exprs
<1>8. Distinct' = Distinct /\ NamesDefined' = NamesDefined
  BY <1>1 DEF Distinct, NamesDefined, Globals
<1>9. NamesFirst'
  BY <1>1, <1>8 DEF NamesFirst
<1> QED BY <1>1, <1>2, <1>3, <1>6, <1>7, <1>9

LEMMA SemanticsInit == Init => SemanticsInv
<1> SUFFICES ASSUME Init PROVE SemanticsInv
  OBVIOUS
<1> USE DEF Init
<1>1. program \in Programs /\ program \in Seq(FunctionNode) /\ program # <<>>
  BY ProgramsAssumption
<1>2. 1 \in DOMAIN program /\ Len(program) \in Nat
  BY <1>1
<1>3. program[1].body \in Seq(Seq(Node))
  BY <1>1, <1>2, ProgramFacts
<1>4. TypeOK
  <2>1. stmt \in 1 .. Len(Body) + 1
    BY <1>3 DEF Body, Function
  <2>2. types \in Seq(FrontendType)
    OBVIOUS
  <2> QED BY <1>2, <2>1, <2>2 DEF TypeOK, Range
<1>5. PlaceOK /\ StackOK
  BY <1>1 DEF PlaceOK, StackOK
<1>6. TypedOK
  BY DEF TypedOK, Passed
<1>7. BoundOK /\ NamesFirst
  BY DEF BoundOK, NamesFirst
<1>8. NamesOK
  <2>1. Names(0) = {}
    BY DEF Names
  <2> QED BY <2>1 DEF NamesOK
<1> QED BY <1>4, <1>5, <1>6, <1>7, <1>8 DEF SemanticsInv

LEMMA DeclareKeeps ==
  ASSUME SemanticsInv, Declare
  PROVE  SemanticsInv'
<1> USE DEF SemanticsInv
<1>1. /\ program \in Programs /\ program \in Seq(FunctionNode) /\ fn \in DOMAIN program
      /\ fn \in 1 .. Len(program) /\ Len(program) \in Nat
  BY ProgramsAssumption DEF PlaceOK, TypeOK
<1>2. /\ pass = "declare" /\ outcome = "none" /\ stmt = 1 /\ pos = 1 /\ types = <<>>
      /\ DOMAIN typed = {} /\ DOMAIN symbols = Names(fn - 1)
      /\ \A f, g \in 1 .. fn - 1 : program[f].name = program[g].name => f = g
  BY DEF Declare, PlaceOK, NamesOK
<1>3. CASE Function.name \in DOMAIN symbols
  <2>1. PICK f \in 1 .. fn - 1 : program[f].name = program[fn].name
    BY <1>2, <1>3 DEF Function, Names
  <2>2. f \in DOMAIN program /\ f # fn
    BY <1>1
  <2>3. ~Distinct
    BY <1>1, <2>1, <2>2 DEF Distinct
  <2>4. Fail("NameError")
    BY <1>3 DEF Declare
  <2> QED BY <2>3, <2>4, FailKeeps
<1>4. CASE Function.name \notin DOMAIN symbols
  <2>1. /\ symbols' = Extended(symbols, Function.name, function(Function.returns))
        /\ NextFunction("resolve") /\ UNCHANGED <<program, bound, typed, types>>
    BY <1>4 DEF Declare
  <2>2. /\ stmt' = 1 /\ pos' = 1 /\ outcome' = outcome
        /\ \/ fn < Len(program) /\ fn' = fn + 1 /\ pass' = pass
           \/ ~(fn < Len(program)) /\ fn' = 1 /\ pass' = "resolve"
    BY <2>1 DEF NextFunction
  <2>3. Function.name = program[fn].name /\ Function.returns \in Annotation
    BY <1>1, ProgramFacts DEF Function
  <2>4. /\ DOMAIN symbols' = DOMAIN symbols \cup {program[fn].name}
        /\ symbols'[program[fn].name] = function(Function.returns)
        /\ \A x \in DOMAIN symbols : symbols'[x] = symbols[x]
    BY <1>4, <2>1, <2>3 DEF Extended
  <2>5. DOMAIN symbols' = Names(fn)
    <3>1. 1 .. fn = (1 .. fn - 1) \cup {fn}
      BY <1>1
    <3> QED BY <1>2, <2>4, <3>1 DEF Names
  <2>6. \A f, g \in 1 .. fn : program[f].name = program[g].name => f = g
    <3>1. \A f \in 1 .. fn : f = fn \/ f \in 1 .. fn - 1
      BY <1>1
    <3>2. \A f \in 1 .. fn - 1 : program[f].name # program[fn].name
      BY <1>2, <1>4, <2>3 DEF Names
    <3> QED BY <1>2, <3>1, <3>2
  <2>7. fn' \in DOMAIN program
    BY <1>1, <2>2
  <2>8. TypeOK'
    <3>1. stmt' \in 1 .. Len(program[fn'].body) + 1 /\ pos' \in Nat
      BY <1>1, <2>2, <2>7, ProgramFacts
    <3>2. DOMAIN symbols' \subseteq {f.name : f \in Range(program)}
      BY <1>1, <2>5 DEF Names, Range
    <3>3. Range(symbols') \subseteq {function(t) : t \in Annotation}
      <4>1. \A x \in DOMAIN symbols : symbols[x] \in {function(t) : t \in Annotation}
        BY DEF TypeOK, Range
      <4>2. \A x \in DOMAIN symbols' : symbols'[x] \in {function(t) : t \in Annotation}
        BY <2>3, <2>4, <4>1
      <4> QED BY <4>2 DEF Range
    <3>4. \A f, z : Nodes(f, z)' = Nodes(f, z)
      BY <2>1 DEF Nodes, Exprs
    <3>5. /\ \A n \in bound \cup DOMAIN typed : n[1] \in DOMAIN program /\ n \in Nodes(n[1], n[2])
          /\ Range(typed) \subseteq FrontendType /\ types \in Seq(FrontendType)
          /\ outcome \in {"none", "Success", "NameError", "TypeError", "Unimplemented", "InternalError"}
      BY DEF TypeOK
    <3>6. pass' \in {"declare", "resolve", "check", "emit", "over"}
      BY <1>2, <2>2
    <3> QED BY <2>1, <2>2, <2>7, <3>1, <3>2, <3>3, <3>4, <3>5, <3>6 DEF TypeOK, Body, Function
  <2>9. PlaceOK' /\ StackOK'
    BY <1>2, <2>1, <2>2 DEF PlaceOK, StackOK
  <2>10. TypedOK'
    BY <1>2, <2>1, <2>2 DEF TypedOK, Passed
  <2>11. BoundOK'
    <3>1. \A f : Identifiers(f)' = Identifiers(f)
      BY <2>1 DEF Identifiers, Nodes, Exprs, Kind
    <3>2. \A n : Is(n)' = Is(n)
      BY <2>1 DEF Is, Exprs
    <3>3. pass' = "resolve" => fn' = 1
      BY <1>2, <2>2
    <3>4. pass' \notin {"check", "emit"}
      BY <1>2, <2>2
    <3>5. 1 .. 1 - 1 = {}
      OBVIOUS
    <3> QED BY <2>1, <2>4, <3>1, <3>2, <3>3, <3>4, <3>5 DEF BoundOK
  <2>12. NamesOK'
    <3>1. \A n : Names(n)' = Names(n)
      BY <2>1 DEF Names
    <3>2. CASE fn < Len(program)
      <4>1. fn' - 1 = fn /\ pass' = "declare"
        BY <1>1, <1>2, <2>2, <3>2
      <4> QED BY <2>1, <2>5, <2>6, <3>1, <4>1 DEF NamesOK
    <3>3. CASE ~(fn < Len(program))
      <4>1. fn = Len(program) /\ pass' = "resolve"
        BY <1>1, <2>2, <3>3
      <4>2. Distinct'
        BY <1>1, <2>1, <2>6, <4>1 DEF Distinct
      <4> QED BY <2>1, <2>5, <3>1, <4>1, <4>2 DEF NamesOK
    <3> QED BY <3>2, <3>3
  <2>13. NamesFirst'
    BY <1>2, <2>2 DEF NamesFirst
  <2> QED BY <1>2, <2>2, <2>8, <2>9, <2>10, <2>11, <2>12, <2>13
<1> QED BY <1>3, <1>4

LEMMA ResolveKeeps ==
  ASSUME SemanticsInv, ResolveSymbols
  PROVE  SemanticsInv'
<1> USE DEF SemanticsInv
<1>1. /\ program \in Programs /\ program \in Seq(FunctionNode) /\ fn \in DOMAIN program
      /\ fn \in 1 .. Len(program) /\ Len(program) \in Nat /\ DOMAIN program = 1 .. Len(program)
  BY ProgramsAssumption DEF PlaceOK, TypeOK
<1>2. /\ pass = "resolve" /\ outcome = "none" /\ stmt = 1 /\ pos = 1 /\ types = <<>>
      /\ DOMAIN typed = {} /\ DOMAIN symbols = Names(Len(program)) /\ Distinct
      /\ \A f \in 1 .. fn - 1 : Identifiers(f) \subseteq bound
  BY DEF ResolveSymbols, PlaceOK, NamesOK, BoundOK
<1>3. CASE \E n \in Identifiers(fn) : Is(n) \notin DOMAIN symbols
  <2>1. PICK n \in Identifiers(fn) : Is(n) \notin DOMAIN symbols
    BY <1>3
  <2>2. PICK z \in DOMAIN program[fn].body : n \in Nodes(fn, z) /\ Kind(n) = "identifier"
    BY DEF Identifiers
  <2>3. Exprs(fn)[z] = program[fn].body[z]
    BY <1>1, ProgramFacts
  <2>4. PICK i \in DOMAIN program[fn].body[z] : n = <<fn, z, i>>
    BY <2>2, <2>3 DEF Nodes
  <2>5. program[fn].body[z][i].kind = "identifier" /\ program[fn].body[z][i].is = Is(n)
    BY <2>2, <2>3, <2>4 DEF Kind, Is
  <2>6. DOMAIN Globals = DOMAIN symbols
    BY <1>1, <1>2 DEF Globals, Names, Range
  <2>7. ~NamesDefined
    <3>1. program[fn] \in Range(program) /\ program[fn].body[z] \in Range(program[fn].body)
      BY <1>1 DEF Range
    <3> QED BY <2>1, <2>5, <2>6, <3>1 DEF NamesDefined
  <2>8. Fail("NameError")
    BY <1>3 DEF ResolveSymbols
  <2> QED BY <2>7, <2>8, FailKeeps
<1>4. CASE ~\E n \in Identifiers(fn) : Is(n) \notin DOMAIN symbols
  <2>1. /\ bound' = bound \cup Identifiers(fn)
        /\ NextFunction("check") /\ UNCHANGED <<program, symbols, typed, types>>
    BY <1>4 DEF ResolveSymbols
  <2>2. /\ stmt' = 1 /\ pos' = 1 /\ outcome' = outcome
        /\ \/ fn < Len(program) /\ fn' = fn + 1 /\ pass' = pass
           \/ ~(fn < Len(program)) /\ fn' = 1 /\ pass' = "check"
    BY <2>1 DEF NextFunction
  <2>3. fn' \in DOMAIN program /\ program' = program
    BY <1>1, <2>1, <2>2
  <2>4. /\ program[fn'].body \in Seq(Seq(Node))
        /\ \A z \in DOMAIN program[fn'].body : program[fn'].body[z] \in Seq(Node)
    BY <1>1, <2>3, ProgramFacts
  <2>5. Body' = program[fn'].body
    BY <2>3 DEF Body, Function
  <2>6. \A n \in Identifiers(fn) : n[1] = fn /\ n \in Nodes(n[1], n[2])
    BY DEF Identifiers, Nodes
  <2>7. \A f, z : Nodes(f, z)' = Nodes(f, z)
    BY <2>1 DEF Nodes, Exprs
  <2>8. TypeOK'
    <3>1. stmt' \in 1 .. Len(Body') + 1 /\ pos' \in Nat
      BY <2>2, <2>4, <2>5
    <3>2. \A n \in bound' \cup DOMAIN typed : n[1] \in DOMAIN program /\ n \in Nodes(n[1], n[2])
      BY <1>1, <2>1, <2>6 DEF TypeOK
    <3>3. pass' \in {"declare", "resolve", "check", "emit", "over"}
      BY <1>2, <2>2
    <3> QED BY <2>1, <2>2, <2>3, <2>7, <3>1, <3>2, <3>3 DEF TypeOK
  <2>9. PlaceOK'
    <3>1. stmt' <= Len(Body') => pos' \in 1 .. Len(Body'[stmt']) + 1
      <4>1. SUFFICES ASSUME 1 <= Len(program[fn'].body)
                     PROVE  1 \in 1 .. Len(program[fn'].body[1]) + 1
        BY <2>2, <2>5
      <4>2. 1 \in DOMAIN program[fn'].body
        BY <2>4, <4>1
      <4>3. Len(program[fn'].body[1]) \in Nat
        BY <2>4, <4>2
      <4> QED BY <4>3
    <3> QED BY <1>1, <1>2, <2>1, <2>2, <3>1 DEF PlaceOK
  <2>10. StackOK'
    <3>1. SUFFICES ASSUME 1 <= Len(program[fn'].body)
                   PROVE  /\ Len(<<>>) = Depth(program[fn'].body[1], 1 - 1)
                          /\ 1 .. 1 - 1 = {}
      BY <1>2, <2>1, <2>2, <2>5 DEF StackOK
    <3>2. 1 \in DOMAIN program[fn'].body
      BY <2>4, <3>1
    <3>3. Depth(program[fn'].body[1], 0) = 0
      BY <2>4, <3>2, DepthSteps
    <3> QED BY <3>3
  <2>11. TypedOK'
    <3>1. 1 .. 1 - 1 = {} /\ DOMAIN typed' = {}
      BY <1>2, <2>1
    <3>2. \A f, z : ~Passed(f, z)'
      <4> SUFFICES ASSUME NEW f, NEW z, Passed(f, z)' PROVE FALSE
        OBVIOUS
      <4>1. pass' = "check" /\ fn' = 1 /\ stmt' = 1
        BY <1>2, <2>2 DEF Passed
      <4>2. f \in DOMAIN program /\ z \in DOMAIN Exprs(f) /\ (f < 1 \/ z < 1)
        BY <2>1, <4>1 DEF Passed, Exprs
      <4>3. DOMAIN Exprs(f) = 1 .. Len(program[f].body) + 1
        BY <1>1, <4>2, ProgramFacts
      <4> QED BY <1>1, <4>2, <4>3
    <3> QED BY <2>2, <3>1, <3>2 DEF TypedOK
  <2>12. BoundOK'
    <3>1. \A f : Identifiers(f)' = Identifiers(f)
      BY <2>1 DEF Identifiers, Nodes, Exprs, Kind
    <3>2. \A n : Is(n)' = Is(n)
      BY <2>1 DEF Is, Exprs
    <3>3. \A f \in 1 .. fn : Identifiers(f) \subseteq bound'
      <4>1. \A f \in 1 .. fn : f = fn \/ f \in 1 .. fn - 1
        BY <1>1
      <4> QED BY <1>2, <2>1, <4>1
    <3>4. \A n \in bound' : n[1] \in DOMAIN program /\ n \in Identifiers(n[1]) /\ Is(n) \in DOMAIN symbols
      BY <1>1, <1>4, <2>1, <2>6 DEF BoundOK
    <3>5. CASE fn < Len(program)
      <4>1. fn' - 1 = fn /\ pass' = "resolve"
        BY <1>1, <1>2, <2>2, <3>5
      <4> QED BY <2>1, <3>1, <3>2, <3>3, <3>4, <4>1 DEF BoundOK
    <3>6. CASE ~(fn < Len(program))
      <4>1. fn = Len(program) /\ pass' = "check"
        BY <1>1, <2>2, <3>6
      <4> QED BY <1>1, <2>1, <3>1, <3>2, <3>3, <3>4, <4>1 DEF BoundOK
    <3> QED BY <3>5, <3>6
  <2>13. NamesOK'
    <3>1. pass' # "declare" /\ Distinct' /\ \A n : Names(n)' = Names(n)
      BY <1>2, <2>1, <2>2 DEF Distinct, Names
    <3> QED BY <1>2, <2>1, <3>1 DEF NamesOK
  <2>14. NamesFirst'
    BY <1>2, <2>2 DEF NamesFirst
  <2> QED BY <1>2, <2>2, <2>8, <2>9, <2>10, <2>11, <2>12, <2>13, <2>14
<1> QED BY <1>3, <1>4

-----------------------------------------------------------------------------
(* The checks of an expression.                                            *)

(* The node that is next finds the types of its operands on the stack.     *)
LEMMA CheckedFacts ==
  ASSUME SemanticsInv, pass = "check", stmt <= Len(Body), pos <= Len(Body[stmt]),
         NEW e, e = Body[stmt]
  PROVE  /\ e \in Seq(Node) /\ PostOrder(e) /\ e = Exprs(fn)[stmt]
         /\ fn \in DOMAIN program /\ stmt \in DOMAIN program[fn].body
         /\ pos \in 1 .. Len(e) /\ e[pos] \in Node /\ CheckedNode \in Nodes(fn, stmt)
         /\ Kind(CheckedNode) = e[pos].kind /\ Is(CheckedNode) = e[pos].is
         /\ types \in Seq(FrontendType) /\ Len(types) = Depth(e, pos - 1)
         /\ Operands(e[pos]) <= Len(types)
         /\ Operands(e[pos]) # 0 =>
              pos - 1 \in 1 .. Len(e) /\ Len(types) > 0 /\ Top = TypeOf(<<fn, stmt, pos - 1>>)
         /\ Operands(e[pos]) = 2 =>
              LET left == Starts(e)[pos - 1] - 1 IN
              left \in 1 .. pos - 2 /\ Len(types) > 1 /\ Second = TypeOf(<<fn, stmt, left>>)
<1> USE DEF SemanticsInv
<1>1. program \in Programs /\ fn \in DOMAIN program /\ types \in Seq(FrontendType)
  BY DEF PlaceOK, TypeOK
<1>2. Body = program[fn].body /\ Body \in Seq(Seq(Node))
  BY <1>1, ProgramFacts DEF Body, Function
<1>3. stmt \in DOMAIN program[fn].body
  BY <1>2 DEF TypeOK
<1>4. e \in Seq(Node) /\ e = Exprs(fn)[stmt] /\ PostOrder(e)
  <2>1. e = Exprs(fn)[stmt]
    BY <1>1, <1>2, <1>3, ProgramFacts
  <2>2. stmt \in DOMAIN Exprs(fn)
    <3>1. DOMAIN Exprs(fn) = 1 .. Len(program[fn].body) + 1
      BY <1>1, ProgramFacts
    <3> QED BY <1>2, <1>3, <3>1
  <2> QED BY <1>1, <2>1, <2>2, ProgramFacts
<1>5. pos \in 1 .. Len(e) /\ e[pos] \in Node /\ pos \in DOMAIN e
  BY <1>4 DEF PlaceOK
<1>6. CheckedNode \in Nodes(fn, stmt) /\ Kind(CheckedNode) = e[pos].kind /\ Is(CheckedNode) = e[pos].is
  BY <1>4, <1>5 DEF CheckedNode, Nodes, Kind, Is
<1>7. /\ Len(types) = Depth(e, pos - 1)
      /\ \A i \in 1 .. pos - 1 :
           (\A j \in i + 1 .. pos - 1 : Depth(e, i) < Depth(e, j)) =>
             types[Depth(e, i)] = TypeOf(<<fn, stmt, i>>)
  BY DEF StackOK
<1>8. Operands(e[pos]) <= Len(types)
  BY <1>4, <1>5, <1>7 DEF PostOrder
<1>9. ASSUME Operands(e[pos]) # 0
      PROVE  pos - 1 \in 1 .. Len(e) /\ Len(types) > 0 /\ Top = TypeOf(<<fn, stmt, pos - 1>>)
  <2>1. pos - 1 \in 1 .. Len(e) /\ Depth(e, pos - 1) > 0
    BY <1>4, <1>5, <1>9, OperandsBefore
  <2>2. pos - 1 \in 1 .. pos - 1 /\ (pos - 1) + 1 .. pos - 1 = {}
    BY <1>5, <2>1
  <2>3. types[Depth(e, pos - 1)] = TypeOf(<<fn, stmt, pos - 1>>)
    BY <1>7, <2>2
  <2> QED BY <1>7, <2>1, <2>3 DEF Top
<1>10. ASSUME Operands(e[pos]) = 2, NEW left, left = Starts(e)[pos - 1] - 1
       PROVE  left \in 1 .. pos - 2 /\ Len(types) > 1 /\ Second = TypeOf(<<fn, stmt, left>>)
  <2>1. /\ left \in 1 .. pos - 2 /\ Depth(e, left) = Depth(e, pos - 1) - 1
        /\ Depth(e, pos - 1) > 1
        /\ \A j \in left + 1 .. pos - 1 : Depth(e, left) < Depth(e, j)
    BY <1>4, <1>5, <1>10, OperandsBefore
  <2>2. left \in 1 .. pos - 1
    BY <1>5, <2>1
  <2>3. types[Depth(e, left)] = TypeOf(<<fn, stmt, left>>)
    BY <1>7, <2>1, <2>2
  <2> QED BY <1>7, <2>1, <2>3 DEF Second
<1> QED BY <1>1, <1>3, <1>4, <1>5, <1>6, <1>7, <1>8, <1>9, <1>10

(* A node that accepts its operands is typed.                              *)
LEMMA TypedKeeps ==
  ASSUME SemanticsInv, pass = "check", stmt <= Len(Body), pos <= Len(Body[stmt]),
         NEW e, e = Body[stmt], NEW type \in FrontendType, Typed(type, Operands(e[pos])),
         e[pos].kind = "binary" =>
           BinaryAccepts(e[pos].is, Second, Top) /\ type = BinaryType(e[pos].is, Second),
         e[pos].kind = "unary" => UnaryAccepts(e[pos].is, Top) /\ type = Top
  PROVE  SemanticsInv'
<1> USE DEF SemanticsInv
<1>1. /\ e \in Seq(Node) /\ PostOrder(e) /\ e = Exprs(fn)[stmt]
      /\ fn \in DOMAIN program /\ stmt \in DOMAIN program[fn].body
      /\ pos \in 1 .. Len(e) /\ e[pos] \in Node /\ CheckedNode \in Nodes(fn, stmt)
      /\ types \in Seq(FrontendType) /\ Len(types) = Depth(e, pos - 1)
      /\ Operands(e[pos]) <= Len(types)
  BY CheckedFacts
<1>2. /\ typed' = Extended(typed, CheckedNode, type) /\ pos' = pos + 1
      /\ types' = Append(SubSeq(types, 1, Len(types) - Operands(e[pos])), type)
      /\ UNCHANGED <<program, pass, fn, stmt, symbols, bound, outcome>>
  BY DEF Typed
<1>3. /\ fn \in Nat /\ stmt \in Nat /\ pos \in Nat
      /\ CheckedNode = <<fn, stmt, pos>> /\ CheckedNode \notin DOMAIN typed
  <2>1. program \in Seq(FunctionNode)
    BY ProgramsAssumption DEF PlaceOK
  <2>2. fn \in Nat /\ stmt \in Nat /\ pos \in Nat
    BY <1>1, <2>1 DEF TypeOK
  <2>3. CheckedNode = <<fn, stmt, pos>>
    BY DEF CheckedNode
  <2>4. ~Earlier(CheckedNode)
    BY <2>2, <2>3 DEF Earlier
  <2>5. CheckedNode \notin DOMAIN typed
    BY <2>4 DEF TypedOK
  <2> QED BY <2>2, <2>3, <2>5
<1>4. /\ DOMAIN typed' = DOMAIN typed \cup {CheckedNode} /\ typed'[CheckedNode] = type
      /\ \A n \in DOMAIN typed : typed'[n] = typed[n]
  BY <1>2, <1>3 DEF Extended
<1>5. /\ \A f, z : Nodes(f, z)' = Nodes(f, z)
      /\ \A f : Exprs(f)' = Exprs(f) /\ Identifiers(f)' = Identifiers(f)
      /\ \A n : Kind(n)' = Kind(n) /\ Is(n)' = Is(n)
      /\ Body' = Body
  BY <1>2 DEF Nodes, Exprs, Identifiers, Kind, Is, Body, Function
<1>6. /\ \A n : n = CheckedNode => TypeOf(n)' = type
      /\ \A n : n # CheckedNode => TypeOf(n)' = TypeOf(n)
  <2>1. ASSUME NEW n, n = CheckedNode PROVE TypeOf(n)' = type
    <3>1. n \in DOMAIN typed' /\ typed'[n] = type
      BY <1>4, <2>1
    <3> QED BY <3>1 DEF TypeOf
  <2>2. ASSUME NEW n, n # CheckedNode PROVE TypeOf(n)' = TypeOf(n)
    BY <1>4, <1>5, <2>2 DEF TypeOf
  <2> QED BY <2>1, <2>2
<1>7. Operands(e[pos]) \in {0, 1, 2} /\ pos \in Nat /\ Len(types) \in Nat
  BY <1>1, OperandsOfNode
<1>8. TypeOK'
  <2>1. types' \in Seq(FrontendType)
    <3>1. SubSeq(types, 1, Len(types) - Operands(e[pos])) \in Seq(FrontendType)
      BY <1>1, <1>7
    <3> QED BY <1>2, <3>1
  <2>2. Range(typed') \subseteq FrontendType
    <3>1. \A n \in DOMAIN typed : typed[n] \in FrontendType
      BY DEF TypeOK, Range
    <3>2. \A n \in DOMAIN typed' : typed'[n] \in FrontendType
      BY <1>4, <3>1
    <3> QED BY <3>2 DEF Range
  <2>3. \A n \in bound \cup DOMAIN typed' : n[1] \in DOMAIN program /\ n \in Nodes(n[1], n[2])
    <3>1. CheckedNode[1] = fn /\ CheckedNode[2] = stmt
      BY <1>3
    <3>2. CheckedNode[1] \in DOMAIN program /\ CheckedNode \in Nodes(CheckedNode[1], CheckedNode[2])
      BY <1>1, <3>1
    <3>3. \A n \in bound \cup DOMAIN typed : n[1] \in DOMAIN program /\ n \in Nodes(n[1], n[2])
      BY DEF TypeOK
    <3> QED BY <1>4, <3>2, <3>3
  <2>4. pos' \in Nat
    BY <1>2, <1>7
  <2> QED BY <1>2, <1>5, <2>1, <2>2, <2>3, <2>4 DEF TypeOK
<1>9. PlaceOK'
  <2>1. stmt \in 1 .. Len(Body)
    BY <1>1 DEF Body, Function, TypeOK
  <2>2. pos + 1 \in 1 .. Len(Body[stmt]) + 1
    BY <1>1
  <2>3. program \in Programs
    BY DEF PlaceOK
  <2> QED BY <1>2, <1>5, <2>1, <2>2, <2>3 DEF PlaceOK
<1>10. StackOK'
  <2>1. /\ Depth(e, pos) = Depth(e, pos - 1) - Operands(e[pos]) + 1
        /\ \A i \in 0 .. Len(e) : Depth(e, i) \in Int
    BY <1>1, DepthSteps
  <2>2. Len(types') = Depth(e, pos) /\ Depth(e, pos) \in Nat /\ Depth(e, pos) > 0
    <3>1. Len(types') = Len(types) - Operands(e[pos]) + 1
      BY <1>1, <1>2, <1>7
    <3> QED BY <1>1, <1>7, <2>1, <3>1
  <2>3. /\ types'[Depth(e, pos)] = type
        /\ \A d \in 1 .. Depth(e, pos) - 1 : types'[d] = types[d]
    BY <1>1, <1>2, <1>7, <2>1, <2>2
  <2>4. ASSUME NEW i \in 1 .. pos, \A j \in i + 1 .. pos : Depth(e, i) < Depth(e, j)
        PROVE  types'[Depth(e, i)] = TypeOf(<<fn, stmt, i>>)'
    <3>1. CASE i = pos
      <4>1. TypeOf(<<fn, stmt, i>>)' = type
        <5>1. PICK n : n = <<fn, stmt, i>>
          OBVIOUS
        <5>2. TypeOf(n)' = type
          BY <1>3, <1>6, <3>1, <5>1
        <5> QED BY <1>2, <5>1, <5>2
      <4> QED BY <2>3, <3>1, <4>1
    <3>2. CASE i # pos
      <4>1. i \in 1 .. pos - 1 /\ pos \in i + 1 .. pos /\ i \in 0 .. Len(e)
        BY <1>1, <3>2
      <4>2. Depth(e, i) < Depth(e, pos) /\ Depth(e, i) \in Int
        BY <2>1, <2>4, <4>1
      <4>3. Depth(e, i) >= 1
        <5>1. Operands(e[i]) <= Depth(e, i - 1) /\ e[i] \in Node /\ i \in 1 .. Len(e)
          BY <1>1, <4>1 DEF PostOrder
        <5>2. Operands(e[i]) \in {0, 1, 2}
          BY <5>1, OperandsOfNode
        <5>3. Depth(e, i) = Depth(e, i - 1) - Operands(e[i]) + 1 /\ Depth(e, i - 1) \in Int
          <6>1. i - 1 \in 0 .. Len(e)
            BY <5>1
          <6> QED BY <1>1, <2>1, <5>1, <6>1, DepthSteps
        <5> QED BY <5>1, <5>2, <5>3
      <4>4. types'[Depth(e, i)] = types[Depth(e, i)]
        BY <2>2, <2>3, <4>2, <4>3
      <4>5. \A j \in i + 1 .. pos - 1 : Depth(e, i) < Depth(e, j)
        BY <1>7, <2>4
      <4>6. types[Depth(e, i)] = TypeOf(<<fn, stmt, i>>)
        BY <4>1, <4>5 DEF StackOK
      <4>7. TypeOf(<<fn, stmt, i>>)' = TypeOf(<<fn, stmt, i>>)
        <5>1. PICK n : n = <<fn, stmt, i>>
          OBVIOUS
        <5>2. n # CheckedNode
          BY <1>3, <3>2, <5>1
        <5> QED BY <1>2, <1>6, <5>1, <5>2
      <4> QED BY <4>4, <4>6, <4>7
    <3> QED BY <3>1, <3>2
  <2>5. pos' - 1 = pos
    BY <1>2, <1>7
  <2> QED BY <1>2, <1>5, <2>2, <2>4, <2>5 DEF StackOK
<1>11. ASSUME NEW n \in DOMAIN typed
       PROVE  /\ Accepted(n[1], n[2], n[3])'
              /\ Earlier(n)'
  <2>1. /\ n[1] \in DOMAIN program /\ n[2] \in DOMAIN program[n[1]].body /\ n \in Nodes(n[1], n[2])
        /\ Earlier(n) /\ Accepted(n[1], n[2], n[3])
    BY DEF TypedOK
  <2>2. PICK f, z, i : n = <<f, z, i>> /\ i \in DOMAIN Exprs(n[1])[n[2]]
    BY <2>1 DEF Nodes
  <2>3. /\ f \in DOMAIN program /\ z \in DOMAIN program[f].body /\ i \in DOMAIN Exprs(f)[z]
        /\ Earlier(<<f, z, i>>) /\ Accepted(f, z, i)
    BY <2>1, <2>2
  <2>4. PICK x : x = Exprs(f)[z]
    OBVIOUS
  <2>5. z \in DOMAIN Exprs(f) /\ program \in Programs
    <3>1. program \in Programs
      BY DEF PlaceOK
    <3>2. DOMAIN Exprs(f) = 1 .. Len(program[f].body) + 1 /\ program[f].body \in Seq(Seq(Node))
      BY <2>3, <3>1, ProgramFacts
    <3> QED BY <2>3, <3>1, <3>2
  <2>6. x \in Seq(Node) /\ PostOrder(x) /\ i \in 1 .. Len(x) /\ x[i] \in Node
    BY <2>3, <2>4, <2>5, ProgramFacts
  <2>7. f = fn /\ z = stmt => i < pos
    <3>1. PICK m : m = <<f, z, i>>
      OBVIOUS
    <3>2. m[1] = f /\ m[2] = z /\ m[3] = i /\ Earlier(m)
      BY <2>3, <3>1
    <3> QED BY <1>3, <3>2 DEF Earlier
  <2>8. Earlier(<<f, z, i>>)'
    <3>1. i \in Nat /\ (f = fn /\ z = stmt => i < pos + 1)
      BY <1>7, <2>6, <2>7
    <3> QED BY <1>2, <2>3, <3>1 DEF Earlier
  <2>9. ASSUME NEW k \in 1 .. i PROVE TypeOf(<<f, z, k>>)' = TypeOf(<<f, z, k>>)
    <3>1. PICK m : m = <<f, z, k>>
      OBVIOUS
    <3>2. m # CheckedNode
      BY <1>3, <1>7, <2>6, <2>7, <3>1
    <3> QED BY <1>6, <3>1, <3>2
  <2>10. Accepted(f, z, i)'
    <3>1. i \in 1 .. i
      BY <2>6
    <3>2. CASE x[i].kind = "binary"
      <4>1. Operands(x[i]) = 2
        BY <2>6, <3>2, OperandsOfNode
      <4>2. PICK left : left = Starts(x)[i - 1] - 1
        OBVIOUS
      <4>3. left \in 1 .. i - 2 /\ i - 1 \in 1 .. Len(x)
        BY <2>6, <4>1, <4>2, OperandsBefore
      <4>4. left \in 1 .. i /\ i - 1 \in 1 .. i
        BY <2>6, <4>3
      <4>5. /\ BinaryAccepts(x[i].is, TypeOf(<<f, z, left>>), TypeOf(<<f, z, i - 1>>))
            /\ TypeOf(<<f, z, i>>) = BinaryType(x[i].is, TypeOf(<<f, z, left>>))
        BY <2>3, <2>4, <3>2, <4>2 DEF Accepted
      <4>6. /\ TypeOf(<<f, z, left>>)' = TypeOf(<<f, z, left>>)
            /\ TypeOf(<<f, z, i - 1>>)' = TypeOf(<<f, z, i - 1>>)
            /\ TypeOf(<<f, z, i>>)' = TypeOf(<<f, z, i>>)
        BY <2>9, <3>1, <4>4
      <4> QED BY <1>5, <2>4, <3>2, <4>2, <4>5, <4>6 DEF Accepted
    <3>3. CASE x[i].kind = "unary"
      <4>1. Operands(x[i]) = 1
        BY <2>6, <3>3, OperandsOfNode
      <4>2. i - 1 \in 1 .. i
        BY <2>6, <4>1, OperandsBefore
      <4>3. /\ UnaryAccepts(x[i].is, TypeOf(<<f, z, i - 1>>))
            /\ TypeOf(<<f, z, i>>) = TypeOf(<<f, z, i - 1>>)
        BY <2>3, <2>4, <3>3 DEF Accepted
      <4>4. /\ TypeOf(<<f, z, i - 1>>)' = TypeOf(<<f, z, i - 1>>)
            /\ TypeOf(<<f, z, i>>)' = TypeOf(<<f, z, i>>)
        BY <2>9, <3>1, <4>2
      <4> QED BY <1>5, <2>4, <3>3, <4>3, <4>4 DEF Accepted
    <3>4. CASE x[i].kind \notin {"binary", "unary"}
      BY <1>5, <2>4, <3>4 DEF Accepted
    <3> QED BY <3>2, <3>3, <3>4
  <2> QED BY <2>2, <2>8, <2>10
<1>12. ASSUME NEW f, NEW z, NEW i, f = fn, z = stmt, i = pos
       PROVE  Accepted(f, z, i)'
  <2>1. e = Exprs(f)[z] /\ i \in 1 .. Len(e) /\ CheckedNode = <<f, z, i>>
    BY <1>1, <1>3, <1>12
  <2>2. TypeOf(<<f, z, i>>)' = type
    <3>1. PICK m : m = <<f, z, i>>
      OBVIOUS
    <3> QED BY <1>6, <2>1, <3>1
  <2>3. ASSUME NEW k \in 1 .. i - 1 PROVE TypeOf(<<f, z, k>>)' = TypeOf(<<f, z, k>>)
    <3>1. PICK m : m = <<f, z, k>>
      OBVIOUS
    <3>2. m # CheckedNode
      BY <2>1, <3>1
    <3> QED BY <1>6, <3>1, <3>2
  <2>4. CASE e[i].kind = "binary"
    <3>1. Operands(e[i]) = 2
      BY <1>1, <1>12, <2>4, OperandsOfNode
    <3>2. PICK left : left = Starts(e)[i - 1] - 1
      OBVIOUS
    <3>3. /\ left \in 1 .. i - 2 /\ i - 1 \in 1 .. Len(e)
          /\ Top = TypeOf(<<f, z, i - 1>>) /\ Second = TypeOf(<<f, z, left>>)
      <4>1. Operands(e[pos]) = 2
        BY <1>12, <3>1
      <4>2. pos - 1 \in 1 .. Len(e) /\ Top = TypeOf(<<fn, stmt, pos - 1>>)
        <5>1. Operands(e[pos]) # 0
          BY <4>1
        <5> QED BY <5>1, CheckedFacts
      <4>3. /\ Starts(e)[pos - 1] - 1 \in 1 .. pos - 2
            /\ Second = TypeOf(<<fn, stmt, Starts(e)[pos - 1] - 1>>)
        BY <4>1, CheckedFacts
      <4> QED BY <1>12, <3>2, <4>2, <4>3
    <3>4. left \in 1 .. i - 1 /\ i - 1 \in 1 .. i - 1
      BY <2>1, <3>3
    <3>5. /\ TypeOf(<<f, z, left>>)' = Second
          /\ TypeOf(<<f, z, i - 1>>)' = Top
      BY <2>3, <3>3, <3>4
    <3> QED BY <1>5, <1>12, <2>1, <2>2, <2>4, <3>2, <3>5 DEF Accepted
  <2>5. CASE e[i].kind = "unary"
    <3>1. Operands(e[i]) = 1
      BY <1>1, <1>12, <2>5, OperandsOfNode
    <3>2. i - 1 \in 1 .. Len(e) /\ Top = TypeOf(<<f, z, i - 1>>)
      <4>1. Operands(e[pos]) # 0
        BY <1>12, <3>1
      <4>2. pos - 1 \in 1 .. Len(e) /\ Top = TypeOf(<<fn, stmt, pos - 1>>)
        BY <4>1, CheckedFacts
      <4> QED BY <1>12, <4>2
    <3>3. i - 1 \in 1 .. i - 1
      BY <2>1, <3>2
    <3>4. TypeOf(<<f, z, i - 1>>)' = Top
      BY <2>3, <3>2, <3>3
    <3> QED BY <1>5, <1>12, <2>1, <2>2, <2>5, <3>4 DEF Accepted
  <2>6. CASE e[i].kind \notin {"binary", "unary"}
    BY <1>5, <2>1, <2>6 DEF Accepted
  <2> QED BY <2>4, <2>5, <2>6
<1>13. ASSUME NEW n, n = CheckedNode
       PROVE  /\ n[1] \in DOMAIN program' /\ n[2] \in DOMAIN program'[n[1]].body
              /\ n \in Nodes(n[1], n[2])' /\ Earlier(n)' /\ Accepted(n[1], n[2], n[3])'
  <2>1. n[1] = fn /\ n[2] = stmt /\ n[3] = pos
    BY <1>3, <1>13
  <2>2. Earlier(n)'
    BY <1>2, <1>7, <2>1 DEF Earlier
  <2>3. Accepted(n[1], n[2], n[3])'
    BY <1>12, <2>1
  <2> QED BY <1>1, <1>2, <1>5, <1>13, <2>1, <2>2, <2>3
<1>14. TypedOK'
  <2>1. ASSUME NEW n \in DOMAIN typed'
        PROVE  /\ n[1] \in DOMAIN program' /\ n[2] \in DOMAIN program'[n[1]].body
               /\ n \in Nodes(n[1], n[2])' /\ Earlier(n)' /\ Accepted(n[1], n[2], n[3])'
    <3>1. CASE n \in DOMAIN typed
      <4>1. /\ n[1] \in DOMAIN program /\ n[2] \in DOMAIN program[n[1]].body
            /\ n \in Nodes(n[1], n[2])
        BY <3>1 DEF TypedOK
      <4> QED BY <1>2, <1>5, <1>11, <3>1, <4>1
    <3>2. CASE n = CheckedNode
      BY <1>13, <3>2
    <3> QED BY <1>4, <2>1, <3>1, <3>2
  <2>2. \A i \in 1 .. pos : <<fn, stmt, i>> \in DOMAIN typed'
    <3>1. \A i \in 1 .. pos - 1 : <<fn, stmt, i>> \in DOMAIN typed
      BY DEF TypedOK
    <3>2. \A i \in 1 .. pos : i = pos \/ i \in 1 .. pos - 1
      BY <1>7
    <3> QED BY <1>3, <1>4, <3>1, <3>2
  <2>3. pos' - 1 = pos
    BY <1>2, <1>7
  <2>4. ASSUME NEW f, NEW z, Passed(f, z)'
        PROVE  /\ z <= Len(program[f].body) => Nodes(f, z) \subseteq DOMAIN typed'
               /\ Exprs(f)[z] # <<>> =>
                    TypeOf(<<f, z, Len(Exprs(f)[z])>>)' = program[f].returns
    <3>1. Passed(f, z)
      BY <1>2, <1>5, <2>4 DEF Passed
    <3>2. /\ z <= Len(program[f].body) => Nodes(f, z) \subseteq DOMAIN typed
          /\ Exprs(f)[z] # <<>> => TypeOf(<<f, z, Len(Exprs(f)[z])>>) = program[f].returns
      BY <3>1 DEF TypedOK
    <3>3. f # fn \/ z # stmt
      BY <1>3, <3>1 DEF Passed
    <3>4. PICK m : m = <<f, z, Len(Exprs(f)[z])>>
      OBVIOUS
    <3>5. m # CheckedNode
      BY <1>3, <3>3, <3>4
    <3>6. TypeOf(<<f, z, Len(Exprs(f)[z])>>)' = TypeOf(<<f, z, Len(Exprs(f)[z])>>)
      BY <1>5, <1>6, <3>4, <3>5
    <3> QED BY <1>4, <3>2, <3>6
  <2> QED BY <1>2, <1>5, <2>1, <2>2, <2>3, <2>4 DEF TypedOK
<1>15. BoundOK' /\ NamesOK'
  <2>1. \A n : Names(n)' = Names(n)
    BY <1>2 DEF Names
  <2>2. Distinct' = Distinct
    BY <1>2 DEF Distinct
  <2> QED BY <1>2, <1>5, <2>1, <2>2 DEF BoundOK, NamesOK
<1>16. NamesFirst'
  BY <1>2 DEF NamesFirst
<1> QED BY <1>2, <1>8, <1>9, <1>10, <1>14, <1>15, <1>16

(* An error that is found while types are checked comes after all names.   *)
LEMMA CheckFails ==
  ASSUME SemanticsInv, pass \in {"check", "emit"},
         NEW error \in {"TypeError", "Unimplemented", "InternalError"}, Fail(error)
  PROVE  SemanticsInv'
<1>1. Distinct /\ NamesDefined
  BY NamesResolved
<1>2. error # "NameError"
  OBVIOUS
<1> QED BY <1>1, <1>2, FailKeeps

LEMMA TypeErrorKeeps ==
  ASSUME SemanticsInv, pass \in {"check", "emit"}, NEW mentioned, TypeErrorOn(mentioned)
  PROVE  SemanticsInv'
<1>1. CASE mentioned \subseteq Printable
  BY <1>1, CheckFails DEF TypeErrorOn
<1>2. CASE ~(mentioned \subseteq Printable)
  BY <1>2, CheckFails DEF TypeErrorOn
<1> QED BY <1>1, <1>2

LEMMA CheckLeafKeeps ==
  ASSUME SemanticsInv, CheckLiteral \/ CheckIdentifier
  PROVE  SemanticsInv'
<1> USE DEF SemanticsInv
<1>1. pass = "check" /\ stmt <= Len(Body) /\ pos <= Len(Body[stmt])
  BY DEF CheckLiteral, CheckIdentifier, Checking
<1>2. PICK e : e = Body[stmt]
  OBVIOUS
<1>3. /\ e[pos] \in Node /\ CheckedNode \in Nodes(fn, stmt) /\ stmt \in DOMAIN program[fn].body
      /\ fn \in DOMAIN program /\ Kind(CheckedNode) = e[pos].kind /\ Is(CheckedNode) = e[pos].is
  BY <1>1, <1>2, CheckedFacts
<1>4. IrType \subseteq FrontendType /\ {function(t) : t \in Annotation} \subseteq FrontendType
  BY DEF FrontendType, Annotation
<1>5. CASE CheckLiteral
  <2>1. e[pos].kind = "literal" /\ Typed(TypeOf(CheckedNode), 0)
    BY <1>3, <1>5 DEF CheckLiteral, Checking
  <2>2. Operands(e[pos]) = 0
    BY <1>3, <2>1, OperandsOfNode
  <2>3. TypeOf(CheckedNode) \in FrontendType
    <3>1. e[pos].is \in IrType
      BY <1>3, <2>1, LiteralsAreTyped
    <3>2. CASE CheckedNode \in DOMAIN typed
      BY <3>2 DEF TypeOf, TypeOK, Range
    <3>3. CASE CheckedNode \notin DOMAIN typed
      BY <1>3, <1>4, <2>1, <3>1, <3>3 DEF TypeOf
    <3> QED BY <3>2, <3>3
  <2> QED BY <1>1, <1>2, <2>1, <2>2, <2>3, TypedKeeps
<1>6. CASE CheckIdentifier
  <2>1. e[pos].kind = "identifier" /\ Typed(symbols[Is(CheckedNode)], 0)
    BY <1>3, <1>6 DEF CheckIdentifier, Checking
  <2>2. Operands(e[pos]) = 0
    BY <1>3, <2>1, OperandsOfNode
  <2>3. CheckedNode \in Identifiers(fn)
    BY <1>3, <2>1 DEF Identifiers
  <2>4. Is(CheckedNode) \in DOMAIN symbols
    BY <1>1, <1>3, <2>3 DEF BoundOK
  <2>5. symbols[Is(CheckedNode)] \in FrontendType
    BY <1>4, <2>4 DEF TypeOK, Range
  <2> QED BY <1>1, <1>2, <2>1, <2>2, <2>5, TypedKeeps
<1> QED BY <1>5, <1>6

LEMMA CheckOperatorKeeps ==
  ASSUME SemanticsInv, CheckBinary \/ CheckUnary \/ CheckCall
  PROVE  SemanticsInv'
<1> USE DEF SemanticsInv
<1>1. pass = "check" /\ stmt <= Len(Body) /\ pos <= Len(Body[stmt])
  BY DEF CheckBinary, CheckUnary, CheckCall, Checking
<1>2. PICK e : e = Body[stmt]
  OBVIOUS
<1>3. /\ e[pos] \in Node /\ Kind(CheckedNode) = e[pos].kind /\ Is(CheckedNode) = e[pos].is
      /\ types \in Seq(FrontendType) /\ Operands(e[pos]) <= Len(types) /\ Len(types) \in Nat
  <2>1. /\ e[pos] \in Node /\ Kind(CheckedNode) = e[pos].kind /\ Is(CheckedNode) = e[pos].is
        /\ types \in Seq(FrontendType) /\ Operands(e[pos]) <= Len(types)
    BY <1>1, <1>2, CheckedFacts
  <2> QED BY <2>1
<1>4. Annotation \subseteq FrontendType /\ "bool" \in FrontendType
  BY DEF FrontendType, Annotation, IrType
<1>5. CASE CheckBinary
  <2>1. e[pos].kind = "binary"
    BY <1>3, <1>5 DEF CheckBinary, Checking
  <2>2. Operands(e[pos]) = 2
    BY <1>3, <2>1, OperandsOfNode
  <2>3. Top \in FrontendType /\ Second \in FrontendType
    BY <1>3, <2>2 DEF Top, Second
  <2>4. CASE Fail("Unimplemented")
    BY <1>1, <2>4, CheckFails
  <2>5. CASE TypeErrorOn(BinaryMentions(Is(CheckedNode), Second, Top))
    BY <1>1, <2>5, TypeErrorKeeps
  <2>6. CASE /\ BinaryAccepts(Is(CheckedNode), Second, Top)
             /\ Typed(BinaryType(Is(CheckedNode), Second), 2)
    <3>1. BinaryType(e[pos].is, Second) \in FrontendType
      BY <1>4, <2>3 DEF BinaryType
    <3>2. PICK type : type = BinaryType(e[pos].is, Second)
      OBVIOUS
    <3>3. Typed(type, Operands(e[pos])) /\ BinaryAccepts(e[pos].is, Second, Top)
      BY <1>3, <2>2, <2>6, <3>2
    <3> QED BY <1>1, <1>2, <2>1, <3>1, <3>2, <3>3, TypedKeeps
  <2> QED BY <1>5, <2>4, <2>5, <2>6 DEF CheckBinary
<1>6. CASE CheckUnary
  <2>1. e[pos].kind = "unary"
    BY <1>3, <1>6 DEF CheckUnary, Checking
  <2>2. Operands(e[pos]) = 1
    BY <1>3, <2>1, OperandsOfNode
  <2>3. Top \in FrontendType
    BY <1>3, <2>2 DEF Top
  <2>4. CASE TypeErrorOn({Top})
    BY <1>1, <2>4, TypeErrorKeeps
  <2>5. CASE UnaryAccepts(Is(CheckedNode), Top) /\ Typed(Top, 1)
    BY <1>1, <1>2, <1>3, <2>1, <2>2, <2>3, <2>5, TypedKeeps
  <2> QED BY <1>6, <2>4, <2>5 DEF CheckUnary
<1>7. CASE CheckCall
  <2>1. e[pos].kind = "call"
    BY <1>3, <1>7 DEF CheckCall, Checking
  <2>2. Operands(e[pos]) = 1
    BY <1>3, <2>1, OperandsOfNode
  <2>3. CASE TypeErrorOn({Top})
    BY <1>1, <2>3, TypeErrorKeeps
  <2>4. CASE is_function(Top) /\ Typed(return_type(Top), 1)
    <3>1. \E t \in Annotation : function(t) = Top
      BY <2>4 DEF is_function
    <3>2. return_type(Top) \in Annotation
      BY <3>1 DEF return_type
    <3> QED BY <1>1, <1>2, <1>4, <2>1, <2>2, <2>4, <3>2, TypedKeeps
  <2> QED BY <1>7, <2>3, <2>4 DEF CheckCall
<1> QED BY <1>5, <1>6, <1>7

-----------------------------------------------------------------------------
(* From one statement or function to the next.                             *)

(* What depends on the program and on what was found out about it.         *)
LEMMA MovesChangeNothing ==
  ASSUME UNCHANGED <<program, symbols, bound, typed>>
  PROVE  /\ \A f, z : Nodes(f, z)' = Nodes(f, z)
         /\ \A f : Exprs(f)' = Exprs(f) /\ Identifiers(f)' = Identifiers(f)
         /\ \A n : Kind(n)' = Kind(n) /\ Is(n)' = Is(n) /\ TypeOf(n)' = TypeOf(n)
         /\ \A f, z, i : Accepted(f, z, i)' = Accepted(f, z, i)
         /\ \A n : Names(n)' = Names(n)
         /\ Distinct' = Distinct /\ NamesDefined' = NamesDefined
<1>1. /\ \A f, z : Nodes(f, z)' = Nodes(f, z)
      /\ \A f : Exprs(f)' = Exprs(f) /\ Identifiers(f)' = Identifiers(f)
      /\ \A n : Kind(n)' = Kind(n) /\ Is(n)' = Is(n)
  BY DEF Nodes, Exprs, Identifiers, Kind, Is
<1>2. \A n : TypeOf(n)' = TypeOf(n)
  BY <1>1 DEF TypeOf
<1>3. \A f, z, i : Accepted(f, z, i)' = Accepted(f, z, i)
  BY <1>1, <1>2 DEF Accepted
<1>4. /\ \A n : Names(n)' = Names(n)
      /\ Distinct' = Distinct /\ NamesDefined' = NamesDefined
  BY DEF Names, Distinct, NamesDefined, Globals
<1> QED BY <1>1, <1>2, <1>3, <1>4

(* The start of a statement, of a function, or of the next pass.           *)
LEMMA MoveKeeps ==
  ASSUME SemanticsInv, pass \in {"check", "emit"},
         UNCHANGED <<program, symbols, bound, typed>>,
         pass' \in {"check", "emit", "over"}, pass = "emit" => pass' # "check",
         fn' \in DOMAIN program, stmt' \in 1 .. Len(program[fn'].body) + 1, pos' \in Nat,
         types' \in Seq(FrontendType),
         pass' = "check" => pos' = 1 /\ types' = <<>> /\ \A n \in DOMAIN typed : Earlier(n)',
         outcome' = IF pass' = "over" THEN "Success" ELSE "none",
         \A f, z : Passed(f, z)' =>
           /\ z <= Len(program[f].body) => Nodes(f, z) \subseteq DOMAIN typed
           /\ Exprs(f)[z] # <<>> => TypeOf(<<f, z, Len(Exprs(f)[z])>>) = program[f].returns
  PROVE  SemanticsInv'
<1> USE DEF SemanticsInv
<1>1. Distinct /\ NamesDefined
  BY NamesResolved
<1>2. program \in Programs /\ Body' = program[fn'].body
  BY DEF PlaceOK, Body, Function
<1>3. /\ program[fn'].body \in Seq(Seq(Node))
      /\ \A z \in DOMAIN program[fn'].body : program[fn'].body[z] \in Seq(Node)
  BY <1>2, ProgramFacts
<1>4. TypeOK'
  BY <1>2, MovesChangeNothing DEF TypeOK
<1>5. stmt' <= Len(Body') => Body'[stmt'] \in Seq(Node)
  BY <1>2, <1>3
<1>6. PlaceOK'
  <2>1. stmt' <= Len(Body') => 1 \in 1 .. Len(Body'[stmt']) + 1
    BY <1>5
  <2> QED BY <1>2, <2>1 DEF PlaceOK
<1>7. StackOK'
  <2>1. SUFFICES ASSUME pass' = "check", stmt' <= Len(Body')
                 PROVE  Len(<<>>) = Depth(Body'[stmt'], 1 - 1) /\ 1 .. 1 - 1 = {}
    BY DEF StackOK
  <2>2. Depth(Body'[stmt'], 0) = 0
    BY <1>5, <2>1, DepthSteps
  <2> QED BY <2>2
<1>8. TypedOK'
  <2>1. ASSUME NEW n \in DOMAIN typed'
        PROVE  /\ n[1] \in DOMAIN program' /\ n[2] \in DOMAIN program'[n[1]].body
               /\ n \in Nodes(n[1], n[2])' /\ (pass' = "check" => Earlier(n)')
               /\ Accepted(n[1], n[2], n[3])'
    <3>1. /\ n[1] \in DOMAIN program /\ n[2] \in DOMAIN program[n[1]].body /\ n \in Nodes(n[1], n[2])
          /\ Accepted(n[1], n[2], n[3])
      BY <2>1 DEF TypedOK
    <3> QED BY <2>1, <3>1, MovesChangeNothing
  <2>2. pass' = "check" => 1 .. pos' - 1 = {}
    OBVIOUS
  <2>3. ASSUME NEW f, NEW z, Passed(f, z)'
        PROVE  /\ z <= Len(program[f].body) => Nodes(f, z)' \subseteq DOMAIN typed
               /\ Exprs(f)'[z] # <<>> =>
                    TypeOf(<<f, z, Len(Exprs(f)[z])>>)' = program[f].returns
    <3>1. PICK m : m = <<f, z, Len(Exprs(f)[z])>>
      OBVIOUS
    <3>2. TypeOf(m)' = TypeOf(m) /\ Exprs(f)' = Exprs(f) /\ Nodes(f, z)' = Nodes(f, z)
      BY MovesChangeNothing
    <3>3. TypeOf(<<f, z, Len(Exprs(f)[z])>>)' = TypeOf(<<f, z, Len(Exprs(f)[z])>>)
      BY <3>1, <3>2
    <3> QED BY <2>3, <3>2, <3>3
  <2> QED BY <2>1, <2>2, <2>3 DEF TypedOK
<1>9. BoundOK' /\ NamesOK' /\ NamesFirst'
  BY <1>1, MovesChangeNothing DEF BoundOK, NamesOK, NamesFirst
<1> QED BY <1>4, <1>6, <1>7, <1>8, <1>9

(* The places of typed nodes are numbers.                                  *)
LEMMA TypedPlaces ==
  ASSUME SemanticsInv, NEW n \in DOMAIN typed
  PROVE  n[1] \in Nat /\ n[2] \in Nat /\ n[3] \in Nat
<1>1. /\ program \in Programs /\ n[1] \in DOMAIN program
      /\ n[2] \in DOMAIN program[n[1]].body /\ n \in Nodes(n[1], n[2])
  BY DEF SemanticsInv, PlaceOK, TypedOK
<1>2. program \in Seq(FunctionNode) /\ program[n[1]].body \in Seq(Seq(Node))
  BY <1>1, ProgramFacts
<1>3. n[1] \in Nat /\ n[2] \in Nat /\ n[2] \in DOMAIN Exprs(n[1])
  BY <1>1, <1>2, ProgramFacts
<1>4. Exprs(n[1])[n[2]] \in Seq(Node)
  BY <1>1, <1>3, ProgramFacts
<1>5. PICK i \in DOMAIN Exprs(n[1])[n[2]] : n = <<n[1], n[2], i>>
  BY <1>1 DEF Nodes
<1>6. n[3] = i
  BY <1>5
<1> QED BY <1>3, <1>4, <1>5, <1>6

(* A statement has been walked over when the type of its root is compared. *)
LEMMA CheckReturnKeeps ==
  ASSUME SemanticsInv, CheckReturn
  PROVE  SemanticsInv'
<1> USE DEF SemanticsInv
<1>1. PICK e : e = Body[stmt]
  OBVIOUS
<1>2. /\ pass = "check" /\ outcome = "none" /\ stmt <= Len(Body) /\ pos = Len(e) + 1
      /\ program \in Programs /\ fn \in DOMAIN program /\ Body = program[fn].body
      /\ stmt \in 1 .. Len(Body) + 1
  BY <1>1 DEF CheckReturn, PlaceOK, TypeOK, Body, Function
<1>3. /\ Body \in Seq(Seq(Node)) /\ stmt \in 1 .. Len(Body) /\ fn \in Nat /\ stmt \in Nat
      /\ DOMAIN Exprs(fn) = 1 .. Len(Body) + 1 /\ e = Exprs(fn)[stmt]
      /\ e \in Seq(Node) /\ PostOrder(e)
  <2>1. Body \in Seq(Seq(Node)) /\ DOMAIN Exprs(fn) = 1 .. Len(Body) + 1 /\ program \in Seq(FunctionNode)
    BY <1>2, ProgramFacts
  <2>2. stmt \in 1 .. Len(Body) /\ stmt \in DOMAIN Body /\ stmt \in DOMAIN Exprs(fn)
    BY <1>2, <2>1
  <2>3. e = Exprs(fn)[stmt] /\ e \in Seq(Node) /\ PostOrder(e)
    BY <1>1, <1>2, <2>2, ProgramFacts
  <2> QED BY <1>2, <2>1, <2>2, <2>3
<1>4. CASE (IF types = <<>> THEN "void" ELSE Top) # Function.returns
  <2>1. TypeErrorOn({Function.returns, IF types = <<>> THEN "void" ELSE Top})
    BY <1>4 DEF CheckReturn
  <2> QED BY <1>2, <2>1, TypeErrorKeeps
<1>5. CASE (IF types = <<>> THEN "void" ELSE Top) = Function.returns
  <2>1. /\ stmt' = stmt + 1 /\ pos' = 1 /\ types' = <<>>
        /\ UNCHANGED <<program, pass, fn, symbols, bound, typed, outcome>>
    BY <1>5 DEF CheckReturn
  <2>2. e # <<>> => TypeOf(<<fn, stmt, Len(e)>>) = program[fn].returns
    <3>1. SUFFICES ASSUME e # <<>> PROVE TypeOf(<<fn, stmt, Len(e)>>) = program[fn].returns
      OBVIOUS
    <3>2. /\ Depth(e, Len(e)) = 1 /\ Len(e) \in 1 .. pos - 1 /\ Len(e) + 1 .. pos - 1 = {}
          /\ pos - 1 = Len(e)
      BY <1>2, <1>3, <3>1 DEF PostOrder
    <3>3. Len(types) = 1 /\ types[1] = TypeOf(<<fn, stmt, Len(e)>>)
      BY <1>1, <1>2, <3>2 DEF StackOK
    <3>4. types # <<>> /\ Top = types[1]
      BY <3>3 DEF Top
    <3> QED BY <1>5, <3>3, <3>4 DEF Function
  <2>3. Nodes(fn, stmt) \subseteq DOMAIN typed
    <3>1. \A i \in 1 .. Len(e) : <<fn, stmt, i>> \in DOMAIN typed
      BY <1>2, <1>3 DEF TypedOK
    <3> QED BY <1>3, <3>1 DEF Nodes
  <2>4. ASSUME NEW f, NEW z, Passed(f, z)'
        PROVE  /\ z <= Len(program[f].body) => Nodes(f, z) \subseteq DOMAIN typed
               /\ Exprs(f)[z] # <<>> => TypeOf(<<f, z, Len(Exprs(f)[z])>>) = program[f].returns
    <3>1. Exprs(f)' = Exprs(f)
      BY <2>1 DEF Exprs
    <3>2. CASE f = fn /\ z = stmt
      BY <1>3, <2>2, <2>3, <3>2
    <3>3. CASE ~(f = fn /\ z = stmt)
      <4>1. Passed(f, z)
        <5>1. /\ f \in DOMAIN program /\ z \in DOMAIN Exprs(f)
              /\ f < fn \/ (f = fn /\ z < stmt + 1)
          BY <1>2, <2>1, <2>4, <3>1 DEF Passed
        <5>2. f = fn => z < stmt
          BY <1>3, <3>3, <5>1
        <5> QED BY <1>2, <5>1, <5>2 DEF Passed
      <4> QED BY <4>1 DEF TypedOK
    <3> QED BY <3>2, <3>3
  <2>5. ASSUME NEW n \in DOMAIN typed PROVE Earlier(n)'
    <3>1. Earlier(n)
      BY <1>2 DEF TypedOK
    <3>2. n[1] \in Nat /\ n[2] \in Nat /\ n[3] \in Nat
      BY TypedPlaces
    <3>3. (n[1] < fn) \/ (n[1] = fn /\ n[2] < stmt + 1)
      BY <1>3, <3>1, <3>2 DEF Earlier
    <3> QED BY <2>1, <3>3 DEF Earlier
  <2>6. stmt' \in 1 .. Len(program[fn'].body) + 1
    BY <1>2, <1>3, <2>1
  <2>7. types' \in Seq(FrontendType)
    BY <2>1
  <2> QED BY <1>2, <2>1, <2>4, <2>5, <2>6, <2>7, MoveKeeps
<1> QED BY <1>4, <1>5

(* A function is done when the expression that ends its body is.           *)
LEMMA CheckLastKeeps ==
  ASSUME SemanticsInv, CheckLast
  PROVE  SemanticsInv'
<1> USE DEF SemanticsInv
<1>1. /\ pass = "check" /\ outcome = "none" /\ stmt = Len(Body) + 1 /\ types = <<>>
      /\ program \in Programs /\ fn \in DOMAIN program /\ Body = program[fn].body
  BY DEF CheckLast, PlaceOK, TypeOK, Body, Function
<1>2. /\ program \in Seq(FunctionNode) /\ fn \in 1 .. Len(program) /\ Len(program) \in Nat
      /\ Body \in Seq(Seq(Node)) /\ DOMAIN program = 1 .. Len(program)
      /\ DOMAIN Exprs(fn) = 1 .. stmt /\ Exprs(fn)[stmt] = Function.last
  <2>1. program \in Seq(FunctionNode)
    BY <1>1, ProgramsAssumption
  <2> QED BY <1>1, <2>1, ProgramFacts DEF Function
<1>3. CASE Function.last # <<>> /\ TypeOf(<<fn, stmt, Len(Function.last)>>) # Function.returns
  <2>1. TypeErrorOn({Function.returns, TypeOf(<<fn, stmt, Len(Function.last)>>)})
    BY <1>3 DEF CheckLast
  <2> QED BY <1>1, <2>1, TypeErrorKeeps
<1>4. CASE ~(Function.last # <<>> /\ TypeOf(<<fn, stmt, Len(Function.last)>>) # Function.returns)
  <2>1. NextFunction("emit") /\ UNCHANGED <<program, symbols, bound, typed, types>>
    BY <1>4 DEF CheckLast
  <2>2. /\ stmt' = 1 /\ pos' = 1 /\ outcome' = "none"
        /\ \/ fn < Len(program) /\ fn' = fn + 1 /\ pass' = "check"
           \/ ~(fn < Len(program)) /\ fn' = 1 /\ pass' = "emit"
    BY <1>1, <2>1 DEF NextFunction
  <2>3. fn' \in DOMAIN program
    BY <1>2, <2>2
  <2>4. stmt' \in 1 .. Len(program[fn'].body) + 1
    <3>1. program[fn'].body \in Seq(Seq(Node))
      BY <1>1, <2>3, ProgramFacts
    <3> QED BY <2>2, <3>1
  <2>5. ASSUME NEW f, NEW z, Passed(f, z)'
        PROVE  /\ z <= Len(program[f].body) => Nodes(f, z) \subseteq DOMAIN typed
               /\ Exprs(f)[z] # <<>> => TypeOf(<<f, z, Len(Exprs(f)[z])>>) = program[f].returns
    <3>1. f \in DOMAIN program /\ z \in DOMAIN Exprs(f)
      BY <2>1, <2>5 DEF Passed, Exprs
    <3>2. z \in Nat /\ z >= 1
      <4>1. program[f].body \in Seq(Seq(Node)) /\ DOMAIN Exprs(f) = 1 .. Len(program[f].body) + 1
        BY <1>1, <3>1, ProgramFacts
      <4>2. Len(program[f].body) \in Nat
        BY <4>1
      <4> QED BY <3>1, <4>1, <4>2
    <3>3. f <= fn
      <4>1. CASE fn < Len(program)
        <5>1. f < fn + 1 \/ (f = fn + 1 /\ z < 1)
          BY <1>2, <2>2, <2>5, <4>1 DEF Passed
        <5> QED BY <1>2, <3>1, <3>2, <5>1
      <4>2. CASE ~(fn < Len(program))
        BY <1>2, <3>1, <4>2
      <4> QED BY <4>1, <4>2
    <3>4. CASE f = fn /\ z = stmt
      <4>1. ~(z <= Len(program[f].body))
        BY <1>1, <1>2, <3>4
      <4> QED BY <1>2, <1>4, <3>4, <4>1 DEF Function
    <3>5. CASE ~(f = fn /\ z = stmt)
      <4>1. f < fn \/ (f = fn /\ z < stmt)
        <5>1. f = fn => z \in 1 .. stmt /\ z # stmt
          BY <1>2, <3>1, <3>5
        <5>2. f \in Nat /\ fn \in Nat
          BY <1>2, <3>1
        <5>3. stmt \in Nat
          BY <1>1, <1>2
        <5> QED BY <3>2, <3>3, <5>1, <5>2, <5>3
      <4>2. Passed(f, z)
        BY <1>1, <3>1, <4>1 DEF Passed
      <4> QED BY <4>2 DEF TypedOK
    <3> QED BY <3>4, <3>5
  <2>6. ASSUME pass' = "check", NEW n \in DOMAIN typed PROVE Earlier(n)'
    <3>1. Earlier(n) /\ fn' = fn + 1
      BY <1>1, <2>2, <2>6 DEF TypedOK
    <3>2. n[1] \in Nat /\ fn \in Nat
      BY <1>2, TypedPlaces
    <3>3. n[1] < fn + 1
      BY <3>1, <3>2 DEF Earlier
    <3> QED BY <3>1, <3>3 DEF Earlier
  <2>7. types' \in Seq(FrontendType) /\ types' = <<>>
    BY <1>1, <2>1
  <2> QED BY <1>1, <2>1, <2>2, <2>3, <2>4, <2>5, <2>6, <2>7, MoveKeeps
<1> QED BY <1>3, <1>4

(* emit_ir throws what one of its nodes throws.                            *)
LEMMA EmitKeeps ==
  ASSUME SemanticsInv, Emit
  PROVE  SemanticsInv'
<1> USE DEF SemanticsInv
<1>1. /\ pass = "emit" /\ outcome = "none" /\ program \in Programs /\ fn \in DOMAIN program
      /\ stmt \in 1 .. Len(Body) + 1 /\ Body = program[fn].body
      /\ types \in Seq(FrontendType) /\ pos \in Nat
  BY DEF Emit, PlaceOK, TypeOK, Body, Function
<1>2. program \in Seq(FunctionNode) /\ Body \in Seq(Seq(Node))
  BY <1>1, ProgramFacts, ProgramsAssumption
<1>3. CASE FirstError(fn, stmt) # "none"
  <2>1. \A n : EmitError(n) \in {"Unimplemented", "InternalError", "none"}
    BY DEF EmitError
  <2>2. \E n : FirstError(fn, stmt) = "none" \/ FirstError(fn, stmt) = EmitError(n)
    BY DEF FirstError
  <2>3. FirstError(fn, stmt) \in {"TypeError", "Unimplemented", "InternalError"}
    BY <1>3, <2>1, <2>2
  <2>4. Fail(FirstError(fn, stmt))
    BY <1>3 DEF Emit
  <2> QED BY <1>1, <2>3, <2>4, CheckFails
<1>4. CASE FirstError(fn, stmt) = "none"
  <2>1. /\ \/ stmt <= Len(Body) /\ stmt' = stmt + 1 /\ UNCHANGED <<pass, fn, pos, outcome>>
           \/ ~(stmt <= Len(Body)) /\ NextFunction("over")
        /\ UNCHANGED <<program, symbols, bound, typed, types>>
    BY <1>4 DEF Emit
  <2>2. /\ pass' \in {"emit", "over"} /\ fn' \in DOMAIN program
        /\ stmt' \in 1 .. Len(program[fn'].body) + 1 /\ pos' \in Nat
        /\ outcome' = IF pass' = "over" THEN "Success" ELSE "none"
    <3>1. CASE stmt <= Len(Body) /\ stmt' = stmt + 1 /\ UNCHANGED <<pass, fn, pos, outcome>>
      BY <1>1, <1>2, <3>1
    <3>2. CASE NextFunction("over")
      <4>1. /\ stmt' = 1 /\ pos' = 1
            /\ \/ fn < Len(program) /\ fn' = fn + 1 /\ pass' = "emit" /\ outcome' = "none"
               \/ fn' = 1 /\ pass' = "over" /\ outcome' = "Success"
        BY <1>1, <3>2 DEF NextFunction
      <4>2. fn' \in DOMAIN program
        BY <1>1, <1>2, <4>1
      <4>3. program[fn'].body \in Seq(Seq(Node))
        BY <1>1, <4>2, ProgramFacts
      <4> QED BY <4>1, <4>2, <4>3
    <3> QED BY <2>1, <3>1, <3>2
  <2>3. ASSUME NEW f, NEW z, Passed(f, z)'
        PROVE  /\ z <= Len(program[f].body) => Nodes(f, z) \subseteq DOMAIN typed
               /\ Exprs(f)[z] # <<>> => TypeOf(<<f, z, Len(Exprs(f)[z])>>) = program[f].returns
    <3>1. Passed(f, z)
      BY <1>1, <2>1, <2>3 DEF Passed, Exprs
    <3> QED BY <3>1 DEF TypedOK
  <2>4. pass' # "check" /\ types' \in Seq(FrontendType)
    BY <1>1, <2>1, <2>2
  <2> QED BY <1>1, <2>1, <2>2, <2>3, <2>4, MoveKeeps
<1> QED BY <1>3, <1>4

LEMMA StutterKeeps ==
  ASSUME SemanticsInv, UNCHANGED vars
  PROVE  SemanticsInv'
<1> USE DEF SemanticsInv, vars
<1>1. TypeOK' /\ PlaceOK'
  BY DEF TypeOK, PlaceOK, Nodes, Exprs, Body, Function
<1>2. \A n : TypeOf(n)' = TypeOf(n)
  BY MovesChangeNothing
<1>3. StackOK'
  BY DEF StackOK, Body, Function, TypeOf, Kind, Is, Exprs
<1>4. \A n : Earlier(n)' = Earlier(n)
  BY DEF Earlier
<1>5. \A f, z : Passed(f, z)' = Passed(f, z)
  BY DEF Passed, Exprs
<1>6. TypedOK'
  <2>1. ASSUME NEW n \in DOMAIN typed'
        PROVE  /\ n[1] \in DOMAIN program' /\ n[2] \in DOMAIN program'[n[1]].body
               /\ n \in Nodes(n[1], n[2])' /\ (pass' = "check" => Earlier(n)')
               /\ Accepted(n[1], n[2], n[3])'
    <3>1. /\ n[1] \in DOMAIN program /\ n[2] \in DOMAIN program[n[1]].body /\ n \in Nodes(n[1], n[2])
          /\ Accepted(n[1], n[2], n[3]) /\ (pass = "check" => Earlier(n))
      BY <2>1 DEF TypedOK
    <3> QED BY <1>4, <2>1, <3>1, MovesChangeNothing
  <2>2. pass' = "check" /\ stmt' <= Len(Body') =>
          \A i \in 1 .. pos' - 1 : <<fn', stmt', i>> \in DOMAIN typed'
    BY DEF TypedOK, Body, Function
  <2>3. ASSUME NEW f, NEW z, Passed(f, z)'
        PROVE  /\ z <= Len(program'[f].body) => Nodes(f, z)' \subseteq DOMAIN typed'
               /\ Exprs(f)'[z] # <<>> =>
                    TypeOf(<<f, z, Len(Exprs(f)[z])>>)' = program'[f].returns
    <3>1. PICK m : m = <<f, z, Len(Exprs(f)[z])>>
      OBVIOUS
    <3>2. TypeOf(m)' = TypeOf(m) /\ Exprs(f)' = Exprs(f) /\ Nodes(f, z)' = Nodes(f, z)
      BY MovesChangeNothing
    <3>3. TypeOf(<<f, z, Len(Exprs(f)[z])>>)' = TypeOf(<<f, z, Len(Exprs(f)[z])>>)
      BY <3>1, <3>2
    <3>4. Passed(f, z)
      BY <1>5, <2>3
    <3> QED BY <3>2, <3>3, <3>4 DEF TypedOK
  <2> QED BY <2>1, <2>2, <2>3 DEF TypedOK
<1>7. BoundOK' /\ NamesOK' /\ NamesFirst'
  BY MovesChangeNothing DEF BoundOK, NamesOK, NamesFirst
<1> QED BY <1>1, <1>3, <1>6, <1>7

LEMMA SemanticsStep ==
  ASSUME SemanticsInv, [Next]_vars
  PROVE  SemanticsInv'
<1>1. CASE Declare
  BY <1>1, DeclareKeeps
<1>2. CASE ResolveSymbols
  BY <1>2, ResolveKeeps
<1>3. CASE Check
  BY <1>3, CheckLeafKeeps, CheckOperatorKeeps, CheckReturnKeeps, CheckLastKeeps DEF Check
<1>4. CASE Emit
  BY <1>4, EmitKeeps
<1>5. CASE Over \/ UNCHANGED vars
  BY <1>5, StutterKeeps DEF Over
<1> QED BY <1>1, <1>2, <1>3, <1>4, <1>5 DEF Next

(* The types of nodes and the bindings of names are what the passes that   *)
(* follow take them for, in every state the checks reach.                  *)
THEOREM SemanticsInvariance == Spec => []SemanticsInv
BY SemanticsInit, SemanticsStep, PTL DEF Spec

(* Type correctness.                                                       *)
THEOREM SemanticsTypeCorrect == Spec => []TypeOK
<1>1. SemanticsInv => TypeOK
  BY DEF SemanticsInv
<1> QED BY <1>1, SemanticsInvariance, PTL

(* A name that is missing or declared twice is reported before any type is *)
(* looked at, though it may be in a later function.                        *)
THEOREM NamesReportedFirst == Spec => []NamesFirst
<1>1. SemanticsInv => NamesFirst
  BY DEF SemanticsInv
<1> QED BY <1>1, SemanticsInvariance, PTL

(* resolve_type never follows the null pointer of an identifier that has   *)
(* not been bound.                                                         *)
THEOREM SymbolsAlwaysBound == Spec => []SymbolsBound
<1>1. ASSUME SemanticsInv PROVE SymbolsBound
  <2> USE <1>1 DEF SemanticsInv
  <2>1. SUFFICES ASSUME pass = "check",
                        NEW n \in DOMAIN typed \cup (IF Checking("identifier") THEN {CheckedNode} ELSE {}),
                        Kind(n) = "identifier"
                 PROVE  n \in bound
    BY DEF SymbolsBound
  <2>2. \E f \in DOMAIN program : \E z \in DOMAIN program[f].body : n \in Nodes(f, z)
    <3>1. CASE n \in DOMAIN typed
      BY <3>1 DEF TypedOK
    <3>2. CASE Checking("identifier") /\ n = CheckedNode
      <4>1. /\ program \in Programs /\ fn \in DOMAIN program /\ stmt \in 1 .. Len(Body) + 1
            /\ stmt <= Len(Body) /\ pos <= Len(Body[stmt]) /\ pos \in 1 .. Len(Body[stmt]) + 1
            /\ Body = program[fn].body /\ n = <<fn, stmt, pos>>
        BY <2>1, <3>2 DEF Checking, PlaceOK, TypeOK, Body, Function, CheckedNode
      <4>2. Body \in Seq(Seq(Node))
        BY <4>1, ProgramFacts
      <4>3. stmt \in DOMAIN Body /\ Body[stmt] \in Seq(Node)
        BY <4>1, <4>2
      <4>4. Exprs(fn)[stmt] = Body[stmt] /\ pos \in DOMAIN Body[stmt]
        BY <4>1, <4>3, ProgramFacts
      <4> QED BY <4>1, <4>3, <4>4 DEF Nodes
    <3> QED BY <2>1, <3>1, <3>2
  <2>3. \E f \in DOMAIN program : n \in Identifiers(f)
    BY <2>1, <2>2 DEF Identifiers
  <2> QED BY <2>1, <2>3 DEF BoundOK
<1> QED BY <1>1, SemanticsInvariance, PTL

(* emit_ir throws what one of the nodes throws, if any does: among those   *)
(* that have an error, one comes first.                                    *)
LEMMA FirstErrorFacts ==
  ASSUME program \in Programs, NEW f \in DOMAIN program, NEW z \in DOMAIN Exprs(f)
  PROVE  \/ FirstError(f, z) = "none" /\ \A n \in Nodes(f, z) : EmitError(n) = "none"
         \/ \E n \in Nodes(f, z) : EmitError(n) # "none" /\ FirstError(f, z) = EmitError(n)
<1>1. PICK e : e = Exprs(f)[z]
  OBVIOUS
<1>2. e \in Seq(Node) /\ PostOrder(e)
  BY <1>1, ProgramFacts
<1>3. PICK wrong : wrong = {m \in Nodes(f, z) : EmitError(m) # "none"}
  OBVIOUS
<1>4. PICK start : start = Starts(e)
  OBVIOUS
<1>5. \A m \in wrong : m[3] \in 1 .. Len(e) /\ start[m[3]] \in 1 .. m[3]
  <2> TAKE m \in wrong
  <2>1. PICK i \in DOMAIN e : m = <<f, z, i>>
    BY <1>1, <1>3 DEF Nodes
  <2>2. m[3] \in 1 .. Len(e)
    BY <1>2, <2>1
  <2> QED BY <1>2, <1>4, <2>2, StartsFacts
<1>6. SUFFICES ASSUME wrong # {}
               PROVE  \E n \in Nodes(f, z) : EmitError(n) # "none" /\ FirstError(f, z) = EmitError(n)
  BY <1>1, <1>3 DEF FirstError
<1>7. PICK a \in wrong : \A m \in wrong : start[a[3]] <= start[m[3]]
  <2>1. {start[m[3]] : m \in wrong} \subseteq Nat /\ {start[m[3]] : m \in wrong} # {}
    BY <1>5, <1>6
  <2>2. PICK x \in {start[m[3]] : m \in wrong} : \A y \in {start[m[3]] : m \in wrong} : x <= y
    BY <2>1, LeastNumber
  <2> QED BY <2>2
<1>8. PICK last \in wrong :
        /\ start[last[3]] = start[a[3]]
        /\ \A m \in wrong : start[m[3]] = start[a[3]] => Len(e) - last[3] <= Len(e) - m[3]
  <2>1. PICK D : D = {Len(e) - m[3] : m \in {k \in wrong : start[k[3]] = start[a[3]]}}
    OBVIOUS
  <2>2. D \subseteq Nat /\ D # {}
    BY <1>2, <1>5, <2>1
  <2>3. PICK x \in D : \A y \in D : x <= y
    BY <2>2, LeastNumber
  <2> QED BY <2>1, <2>3
<1>9. \A m \in wrong : \/ start[last[3]] < start[m[3]]
                       \/ start[last[3]] = start[m[3]] /\ last[3] >= m[3]
  <2> TAKE m \in wrong
  <2>1. /\ Len(e) \in Nat /\ last[3] \in Nat /\ m[3] \in Nat
        /\ start[last[3]] \in Nat /\ start[m[3]] \in Nat
    BY <1>2, <1>5
  <2> QED BY <1>7, <1>8, <2>1
<1>10. PICK first : first = CHOOSE k \in wrong : \A m \in wrong :
                              \/ start[k[3]] < start[m[3]]
                              \/ start[k[3]] = start[m[3]] /\ k[3] >= m[3]
  OBVIOUS
<1>11. first \in wrong
  BY <1>9, <1>10
<1>12. FirstError(f, z) = EmitError(first)
  BY <1>1, <1>3, <1>4, <1>6, <1>10 DEF FirstError
<1> QED BY <1>3, <1>11, <1>12


(* The checks let nothing through that the IR writer cannot emit: whatever *)
(* expression is emitted, its operators accept the types of their operands,*)
(* and it has the type its function returns.                               *)
THEOREM WriterAssumptionsAlwaysHold == Spec => []WriterAssumptionsHold
<1>1. ASSUME SemanticsInv PROVE WriterAssumptionsHold
  <2> USE <1>1 DEF SemanticsInv
  <2>1. SUFFICES ASSUME pass = "emit", FirstError(fn, stmt) = "none", NEW e,
                        e = Exprs(fn)[stmt], e # <<>>
                 PROVE  /\ \A i \in DOMAIN e : Accepted(fn, stmt, i)
                        /\ TypeOf(<<fn, stmt, Len(e)>>) = Function.returns
    BY DEF WriterAssumptionsHold, Accepted
  <2>2. /\ program \in Programs /\ fn \in DOMAIN program /\ Body = program[fn].body
        /\ stmt \in 1 .. Len(Body) + 1
    BY DEF PlaceOK, TypeOK, Body, Function
  <2>3. Body \in Seq(Seq(Node)) /\ DOMAIN Exprs(fn) = 1 .. Len(Body) + 1
    BY <2>2, ProgramFacts
  <2>4. e \in Seq(Node)
    BY <2>1, <2>2, <2>3, ProgramFacts
  <2>5. Passed(fn, stmt)
    BY <2>1, <2>2, <2>3 DEF Passed
  <2>6. /\ stmt <= Len(Body) => Nodes(fn, stmt) \subseteq DOMAIN typed
        /\ TypeOf(<<fn, stmt, Len(e)>>) = Function.returns
    BY <2>1, <2>2, <2>5 DEF TypedOK, Function
  <2>7. ASSUME NEW i \in DOMAIN e PROVE Accepted(fn, stmt, i)
    <3>1. PICK n : n = <<fn, stmt, i>>
      OBVIOUS
    <3>2. n \in Nodes(fn, stmt) /\ Kind(n) = e[i].kind /\ Is(n) = e[i].is
      BY <2>1, <2>7, <3>1 DEF Nodes, Kind, Is
    <3>3. CASE stmt <= Len(Body)
      BY <2>6, <3>1, <3>2, <3>3 DEF TypedOK
    <3>4. CASE ~(stmt <= Len(Body))
      <4>1. n \notin DOMAIN typed
        <5>1. stmt \notin DOMAIN Body
          BY <2>2, <2>3, <3>4
        <5> QED BY <2>2, <3>1, <5>1 DEF TypedOK
      <4>2. SUFFICES ASSUME e[i].kind \in {"binary", "unary"} PROVE FALSE
        BY <2>1 DEF Accepted
      <4>3. TypeOf(n) = "unresolved"
        BY <3>2, <4>1, <4>2 DEF TypeOf
      <4>4. TypeOf(n) \notin Resolvable
        BY <4>3 DEF Resolvable, IrType
      <4>5. EmitError(n) # "none"
        <5>1. Is(n) \notin LogicalOp \/ Kind(n) = "binary"
          BY <2>4, <2>7, <3>2, <4>2, UnaryIsNotLogical
        <5>2. Kind(n) \notin {"identifier", "call"} /\ Kind(n) \in {"literal", "unary", "binary"}
          BY <3>2, <4>2
        <5>3. CASE Is(n) \in LogicalOp
          BY <5>1, <5>2, <5>3 DEF EmitError
        <5>4. CASE Is(n) \notin LogicalOp
          BY <4>4, <5>2, <5>4 DEF EmitError
        <5> QED BY <5>3, <5>4
      <4>6. EmitError(n) = "none"
        BY <2>1, <2>2, <2>3, <3>2, FirstErrorFacts
      <4> QED BY <4>5, <4>6
    <3> QED BY <3>3, <3>4
  <2> QED BY <2>6, <2>7
<1> QED BY <1>1, SemanticsInvariance, PTL


-----------------------------------------------------------------------------
(* The types of expressions.                                               *)

(* The types of functions differ from each other, from the types that      *)
(* functions return, and from what is no type.                             *)
LEMMA FunctionFacts ==
  /\ \A s, t \in Annotation : function(s) = function(t) => s = t
  /\ \A t \in Annotation : /\ function(t) \notin Annotation \cup {"none", "unresolved"}
                           /\ is_function(function(t)) /\ return_type(function(t)) = t
  /\ "none" \notin Annotation /\ "unresolved" \notin Annotation
<1>1. Annotation = {"bool", "u8", "u16", "u32", "i8", "i16", "i32", "void", "unknown"}
  BY DEF Annotation, IrType
<1>2. /\ function("bool") = "fn bool" /\ function("u8") = "fn u8" /\ function("u16") = "fn u16"
      /\ function("u32") = "fn u32" /\ function("i8") = "fn i8" /\ function("i16") = "fn i16"
      /\ function("i32") = "fn i32" /\ function("void") = "fn void"
      /\ function("unknown") = "fn unknown"
  BY DEF function
<1>3. ASSUME NEW s \in Annotation, NEW t \in Annotation, function(s) = function(t)
      PROVE  s = t
  <2>1. CASE s \in {"bool", "u8", "u16"}
    BY <1>1, <1>2, <1>3, <2>1
  <2>2. CASE s \in {"u32", "i8", "i16"}
    BY <1>1, <1>2, <1>3, <2>2
  <2>3. CASE s \in {"i32", "void", "unknown"}
    BY <1>1, <1>2, <1>3, <2>3
  <2> QED BY <1>1, <2>1, <2>2, <2>3
<1>4. \A t \in Annotation : function(t) \notin Annotation \cup {"none", "unresolved"}
  BY <1>1, <1>2
<1>5. ASSUME NEW t \in Annotation
      PROVE  is_function(function(t)) /\ return_type(function(t)) = t
  <2>1. is_function(function(t))
    BY DEF is_function
  <2>2. \A s \in Annotation : function(s) = function(t) <=> s = t
    BY <1>3
  <2>3. return_type(function(t)) = t
    BY <2>2 DEF return_type
  <2> QED BY <2>1, <2>3
<1> QED BY <1>1, <1>3, <1>4, <1>5

(* The type of a node depends on those of its operands only.               *)
LEMMA TypeOverFacts ==
  ASSUME NEW node \in Node, NEW names, NEW l, NEW r
  PROVE  /\ Operands(node) = 0 => \A x, y : TypeOver(node, x, y, names) = TypeOver(node, l, r, names)
         /\ Operands(node) = 1 => \A x : TypeOver(node, x, r, names) = TypeOver(node, l, r, names)
         /\ Operands(node) = 1 /\ r = "none" => TypeOver(node, l, r, names) = "none"
         /\ Operands(node) = 2 /\ "none" \in {l, r} => TypeOver(node, l, r, names) = "none"
<1>1. CASE node.kind \in {"literal", "identifier"} /\ Operands(node) = 0
  BY <1>1 DEF TypeOver
<1>2. CASE node.kind = "unary" /\ Operands(node) = 1
  <2>1. node.is \in UnaryOp
    <3>1. CASE node \in [kind : {"literal"}, is : IrType] \cup [kind : {"identifier"}, is : STRING]
      BY <1>2, <3>1
    <3>2. CASE node \in [kind : {"binary"}, is : BinaryOp \cup LogicalOp]
      BY <1>2, <3>2
    <3>3. CASE node \in [kind : {"unary"}, is : UnaryOp]
      BY <3>3
    <3>4. CASE node = [kind |-> "call", is |-> ""]
      BY <1>2, <3>4
    <3> QED BY <3>1, <3>2, <3>3, <3>4 DEF Node
  <2>2. ~UnaryAccepts(node.is, "none")
    BY <2>1 DEF UnaryAccepts, UnaryOp, is_integer, IrType
  <2> QED BY <1>2, <2>2 DEF TypeOver
<1>3. CASE node.kind = "call" /\ Operands(node) = 1
  <2>1. ~is_function("none")
    BY FunctionFacts DEF is_function
  <2> QED BY <1>3, <2>1 DEF TypeOver
<1>4. CASE node.kind = "binary" /\ Operands(node) = 2
  BY <1>4 DEF TypeOver
<1> QED BY <1>1, <1>2, <1>3, <1>4, OperandsOfNode

(* The types of an expression are defined: those of its first nodes are,   *)
(* for any number of them.                                                 *)
LEMMA TypesExist ==
  ASSUME NEW e \in Seq(Node), PostOrder(e), NEW names
  PROVE  \E g : g = [i \in DOMAIN e |-> TypeOver(e[i], g[Starts(e)[i - 1] - 1], g[i - 1], names)]
<1> DEFINE F(g, i) == TypeOver(e[i], g[Starts(e)[i - 1] - 1], g[i - 1], names)
           Upto(g, n) == DOMAIN g = DOMAIN e /\ g = [i \in DOMAIN e |-> g[i]]
                           /\ \A i \in 1 .. n : g[i] = F(g, i)
           T == {n \in 0 .. Len(e) : ~\E g : Upto(g, n)}
<1>1. T = {}
  <2>1. SUFFICES ASSUME T # {} PROVE FALSE
    OBVIOUS
  <2>2. T \subseteq Nat
    OBVIOUS
  <2>3. PICK n \in T : \A m \in T : n <= m
    BY <2>1, <2>2, LeastNumber
  <2>4. n \in 0 .. Len(e) /\ ~\E g : Upto(g, n)
    OBVIOUS
  <2>5. n # 0
    <3>1. PICK g : g = [i \in DOMAIN e |-> "none"]
      OBVIOUS
    <3>2. Upto(g, 0)
      BY <3>1
    <3> QED BY <2>4, <3>2
  <2>6. n \in 1 .. Len(e) /\ n - 1 \in 0 .. Len(e) /\ n - 1 \notin T
    BY <2>3, <2>4, <2>5
  <2>7. PICK g : Upto(g, n - 1)
    BY <2>6
  <2>8. PICK h : h = [i \in DOMAIN e |-> IF i = n THEN F(g, n) ELSE g[i]]
    OBVIOUS
  <2>9. DOMAIN e = 1 .. Len(e) /\ n \in Nat /\ Len(e) \in Nat
    BY <2>6
  <2>10. /\ DOMAIN h = DOMAIN e /\ h = [i \in DOMAIN e |-> h[i]] /\ h[n] = F(g, n)
         /\ \A i \in 1 .. n - 1 : h[i] = g[i]
    BY <2>6, <2>8, <2>9
  <2>14. PICK agree : agree = 1 .. n - 1 /\ \A j \in agree : h[j] = g[j]
    BY <2>10
  <2>11. ASSUME NEW i \in 1 .. n PROVE F(h, i) = F(g, i)
    <3>1. i \in 1 .. Len(e) /\ e[i] \in Node
      BY <2>6, <2>9
    <3>2. PICK left : left = Starts(e)[i - 1] - 1
      OBVIOUS
    <3>3. Operands(e[i]) # 0 => i - 1 \in agree
      BY <2>6, <2>9, <2>14, <3>1, OperandsBefore
    <3>4. Operands(e[i]) = 2 => left \in agree
      <4>1. SUFFICES ASSUME Operands(e[i]) = 2 PROVE left \in agree
        OBVIOUS
      <4>2. left \in 1 .. i - 2
        BY <3>1, <3>2, <4>1, OperandsBefore
      <4> QED BY <2>9, <2>14, <4>2
    <3>5. Operands(e[i]) \in {0, 1, 2}
      BY <3>1, OperandsOfNode
    <3>6. CASE Operands(e[i]) = 0
      <4>1. \A x, y : TypeOver(e[i], x, y, names) = TypeOver(e[i], g[left], g[i - 1], names)
        BY <3>1, <3>6, TypeOverFacts
      <4> QED BY <3>2, <4>1
    <3>7. CASE Operands(e[i]) = 1
      <4>1. h[i - 1] = g[i - 1]
        BY <2>14, <3>3, <3>7
      <4>2. \A x : TypeOver(e[i], x, g[i - 1], names) = TypeOver(e[i], g[left], g[i - 1], names)
        BY <3>1, <3>7, TypeOverFacts
      <4> QED BY <3>2, <4>1, <4>2
    <3>8. CASE Operands(e[i]) = 2
      <4>1. h[i - 1] = g[i - 1] /\ h[left] = g[left]
        BY <2>14, <3>3, <3>4, <3>8
      <4> QED BY <3>2, <4>1
    <3> QED BY <3>5, <3>6, <3>7, <3>8
  <2>12. ASSUME NEW i \in 1 .. n PROVE h[i] = F(h, i)
    <3>1. CASE i = n
      BY <2>10, <2>11, <3>1
    <3>2. CASE i # n
      <4>1. i \in 1 .. n - 1
        BY <2>9, <3>2
      <4>2. g[i] = F(g, i)
        BY <2>7, <4>1
      <4> QED BY <2>10, <2>11, <4>1, <4>2
    <3> QED BY <3>1, <3>2
  <2>13. Upto(h, n)
    BY <2>10, <2>12
  <2> QED BY <2>4, <2>13
<1>2. Len(e) \in 0 .. Len(e) /\ DOMAIN e = 1 .. Len(e)
  OBVIOUS
<1>3. PICK g : Upto(g, Len(e))
  BY <1>1, <1>2
<1>4. g = [i \in DOMAIN e |-> F(g, i)]
  BY <1>2, <1>3
<1> QED BY <1>4

(* The type of a node is that of its kind over those of its operands.      *)
LEMMA TypesInFacts ==
  ASSUME NEW e \in Seq(Node), PostOrder(e), NEW names, NEW i \in DOMAIN e
  PROVE  TypesIn(e, names)[i] =
           TypeOver(e[i], TypesIn(e, names)[Starts(e)[i - 1] - 1], TypesIn(e, names)[i - 1], names)
<1>1. TypesIn(e, names) =
        CHOOSE g : g = [j \in DOMAIN e |-> TypeOver(e[j], g[Starts(e)[j - 1] - 1], g[j - 1], names)]
  BY DEF TypesIn
<1>2. TypesIn(e, names) =
        [j \in DOMAIN e |-> TypeOver(e[j], TypesIn(e, names)[Starts(e)[j - 1] - 1],
                                     TypesIn(e, names)[j - 1], names)]
  BY <1>1, TypesExist
<1> QED BY <1>2

(* The value of every node but the root is an operand of a later one.      *)
LEMMA UsedLater ==
  ASSUME NEW e \in Seq(Node), PostOrder(e), NEW i \in 1 .. Len(e) - 1
  PROVE  \E p \in i + 1 .. Len(e) :
           \/ Operands(e[p]) # 0 /\ p - 1 = i
           \/ Operands(e[p]) = 2 /\ Starts(e)[p - 1] - 1 = i
<1>1. /\ \A j \in 0 .. Len(e) : Depth(e, j) \in Int
      /\ \A j \in 1 .. Len(e) : Depth(e, j) = Depth(e, j - 1) - Operands(e[j]) + 1
  BY DepthSteps
<1>2. Len(e) \in Nat /\ i \in Nat /\ i >= 1 /\ i < Len(e) /\ e # <<>>
  OBVIOUS
<1>3. \A j \in 1 .. Len(e) : Operands(e[j]) \in {0, 1, 2}
  <2> TAKE j \in 1 .. Len(e)
  <2>1. e[j] \in Node
    OBVIOUS
  <2> QED BY <2>1, OperandsOfNode
<1>4. Depth(e, i) >= 1
  <2>1. i \in DOMAIN e /\ i \in 1 .. Len(e) /\ i - 1 \in 0 .. Len(e)
    BY <1>2
  <2>2. Operands(e[i]) <= Depth(e, i - 1)
    BY <2>1 DEF PostOrder
  <2>3. Operands(e[i]) \in {0, 1, 2} /\ Depth(e, i - 1) \in Int
        /\ Depth(e, i) = Depth(e, i - 1) - Operands(e[i]) + 1
    BY <1>1, <1>3, <2>1
  <2> QED BY <2>2, <2>3
<1>5. PICK p \in i + 1 .. Len(e) :
        /\ Depth(e, p) <= Depth(e, i)
        /\ \A j \in i + 1 .. Len(e) : Depth(e, j) <= Depth(e, i) => p <= j
  <2>1. PICK T : T = {j \in i + 1 .. Len(e) : Depth(e, j) <= Depth(e, i)}
    OBVIOUS
  <2>2. Depth(e, Len(e)) = 1
    BY <1>2 DEF PostOrder
  <2>3. Len(e) \in T /\ T \subseteq Nat
    BY <1>2, <1>4, <2>1, <2>2
  <2>4. PICK p \in T : \A j \in T : p <= j
    BY <2>3, LeastNumber
  <2> QED BY <2>1, <2>4
<1>6. /\ p \in 1 .. Len(e) /\ p - 1 \in 1 .. Len(e) /\ p - 1 \in 0 .. Len(e)
      /\ \A j \in i + 1 .. p - 1 : j \in 0 .. Len(e) /\ Depth(e, j) > Depth(e, i)
  <2>1. p \in 1 .. Len(e) /\ p - 1 \in 1 .. Len(e) /\ p - 1 \in 0 .. Len(e)
    BY <1>2
  <2>2. ASSUME NEW j \in i + 1 .. p - 1
        PROVE  j \in 0 .. Len(e) /\ Depth(e, j) > Depth(e, i)
    <3>1. j \in i + 1 .. Len(e) /\ ~(p <= j) /\ j \in 0 .. Len(e) /\ i \in 0 .. Len(e)
      BY <1>2, <2>1
    <3>2. ~(Depth(e, j) <= Depth(e, i))
      BY <1>5, <3>1
    <3> QED BY <1>1, <3>1, <3>2
  <2> QED BY <2>1, <2>2
<1>7. PICK d, dp, dq : d = Depth(e, i) /\ dp = Depth(e, p) /\ dq = Depth(e, p - 1)
  OBVIOUS
<1>8. /\ d \in Int /\ dp \in Int /\ dq \in Int /\ dp <= d /\ Operands(e[p]) \in {0, 1, 2}
      /\ dp = dq - Operands(e[p]) + 1
  BY <1>1, <1>2, <1>3, <1>5, <1>6, <1>7
<1>9. CASE p = i + 1
  <2>1. p - 1 = i /\ dq = d
    BY <1>2, <1>7, <1>9
  <2>2. Operands(e[p]) # 0
    BY <1>8, <2>1
  <2> QED BY <2>1, <2>2
<1>10. CASE p # i + 1
  <2>1. p - 1 \in i + 1 .. p - 1
    BY <1>2, <1>10
  <2>2. dq > d
    BY <1>6, <1>7, <2>1
  <2>3. Operands(e[p]) = 2 /\ dq = d + 1
    BY <1>8, <2>2
  <2>4. PICK s : s = Starts(e)[p - 1]
    OBVIOUS
  <2>5. /\ s \in 1 .. p - 1 /\ Depth(e, s - 1) = dq - 1
        /\ \A j \in s .. p - 1 : dq <= Depth(e, j)
    BY <1>6, <1>7, <2>4, StartsFacts
  <2>6. ~(s <= i)
    <3>1. SUFFICES ASSUME s <= i PROVE FALSE
      OBVIOUS
    <3>2. i \in s .. p - 1
      BY <1>2, <1>6, <2>5, <3>1
    <3>3. dq <= d
      BY <1>7, <2>5, <3>2
    <3> QED BY <1>8, <2>2, <3>3
  <2>7. ~(s - 1 > i)
    <3>1. SUFFICES ASSUME s - 1 > i PROVE FALSE
      OBVIOUS
    <3>2. s - 1 \in i + 1 .. p - 1
      BY <1>2, <1>6, <2>5, <3>1
    <3>3. Depth(e, s - 1) > d
      BY <1>6, <1>7, <3>2
    <3> QED BY <1>8, <2>3, <2>5, <3>3
  <2>8. s - 1 = i
    BY <1>2, <1>6, <2>5, <2>6, <2>7
  <2> QED BY <2>3, <2>4, <2>8
<1> QED BY <1>9, <1>10

(* An expression has no type if one of its nodes has none.                 *)
LEMMA NoTypeSpreads ==
  ASSUME NEW e \in Seq(Node), PostOrder(e), NEW names, NEW i \in 1 .. Len(e),
         TypesIn(e, names)[i] = "none"
  PROVE  TypesIn(e, names)[Len(e)] = "none"
<1>1. PICK t : t = TypesIn(e, names)
  OBVIOUS
<1>2. PICK T : T = {Len(e) - j : j \in {k \in 1 .. Len(e) : t[k] = "none"}}
  OBVIOUS
<1>3. T \subseteq Nat /\ T # {}
  BY <1>1, <1>2
<1>4. PICK x \in T : \A y \in T : x <= y
  BY <1>3, LeastNumber
<1>5. PICK j \in 1 .. Len(e) : x = Len(e) - j /\ t[j] = "none"
  BY <1>2
<1>6. \A k \in 1 .. Len(e) : t[k] = "none" => k <= j
  <2>1. ASSUME NEW k \in 1 .. Len(e), t[k] = "none" PROVE k <= j
    <3>1. Len(e) - k \in T
      BY <1>2, <2>1
    <3>2. Len(e) - j <= Len(e) - k
      BY <1>4, <1>5, <3>1
    <3> QED BY <3>2
  <2> QED BY <2>1
<1>7. SUFFICES ASSUME j # Len(e) PROVE FALSE
  BY <1>1, <1>5
<1>8. j \in 1 .. Len(e) - 1
  BY <1>7
<1>9. PICK p \in j + 1 .. Len(e) :
        \/ Operands(e[p]) # 0 /\ p - 1 = j
        \/ Operands(e[p]) = 2 /\ Starts(e)[p - 1] - 1 = j
  BY <1>8, UsedLater
<1>10. p \in 1 .. Len(e) /\ p \in DOMAIN e /\ ~(p <= j) /\ e[p] \in Node
  OBVIOUS
<1>11. Operands(e[p]) \in {0, 1, 2}
  BY <1>10, OperandsOfNode
<1>12. PICK l, r : l = t[Starts(e)[p - 1] - 1] /\ r = t[p - 1]
  OBVIOUS
<1>13. t[p] = TypeOver(e[p], l, r, names)
  BY <1>1, <1>10, <1>12, TypesInFacts
<1>14. \/ Operands(e[p]) \in {1, 2} /\ r = "none"
       \/ Operands(e[p]) = 2 /\ l = "none"
  BY <1>5, <1>9, <1>11, <1>12
<1>15. t[p] = "none"
  BY <1>10, <1>13, <1>14, TypeOverFacts
<1> QED BY <1>6, <1>10, <1>15

-----------------------------------------------------------------------------
(* What the symbols and the types found by the checks mean.                *)

(* The types that a node of the program can have.                          *)
Known ==
  IrType \cup {program[f].returns : f \in DOMAIN program}
    \cup {function(program[f].returns) : f \in DOMAIN program}

SymbolsOK ==
  \A x \in DOMAIN symbols :
    \E f \in DOMAIN program : program[f].name = x /\ symbols[x] = function(program[f].returns)

(* A node has been given the type it has by the structure of its           *)
(* expression.                                                             *)
MeaningOK ==
  \A n \in DOMAIN typed :
    typed[n] \in Known /\ typed[n] = TypesIn(Exprs(n[1])[n[2]], Globals)[n[3]]

(* A return without an expression is in a function that returns nothing.   *)
EmptyOK ==
  \A f, s : Passed(f, s) /\ s <= Len(program[f].body) /\ Exprs(f)[s] = <<>> =>
    program[f].returns = "void"

MeaningInv == SymbolsOK /\ MeaningOK /\ EmptyOK /\ OutcomeIsRight

(* No type at all is known, nor one that is not resolved; a known type     *)
(* that cannot be printed comes from a return type that is no type.        *)
LEMMA KnownFacts ==
  ASSUME program \in Programs, NEW x \in Known \cup {"void"}
  PROVE  /\ x \in FrontendType /\ x # "none" /\ x # "unresolved"
         /\ is_function(x) => \E f \in DOMAIN program : x = function(program[f].returns)
         /\ x \notin Printable => \E f \in Range(program) : f.returns = "unknown"
<1>1. \A f \in DOMAIN program : program[f].returns \in Annotation
  BY ProgramFacts
<1>2. IrType \subseteq Annotation /\ "void" \in Annotation /\ "unknown" \notin IrType \cup {"void"}
  BY DEF Annotation, IrType
<1>3. Annotation \subseteq FrontendType /\ {function(t) : t \in Annotation} \subseteq FrontendType
  BY DEF FrontendType
<1>4. CASE x \in IrType \cup {"void"}
  <2>1. x \in Annotation /\ x # "unknown"
    BY <1>2, <1>4
  <2>2. x \notin {function(t) : t \in Annotation}
    BY <2>1, FunctionFacts
  <2>3. function("unknown") \in {function(t) : t \in Annotation}
    BY DEF Annotation
  <2> QED BY <1>3, <2>1, <2>2, <2>3, FunctionFacts DEF is_function, Printable
<1>5. CASE \E f \in DOMAIN program : x = program[f].returns
  <2>1. PICK f \in DOMAIN program : x = program[f].returns
    BY <1>5
  <2>2. x \in Annotation
    BY <1>1, <2>1
  <2>3. x \notin {function(t) : t \in Annotation}
    BY <2>2, FunctionFacts
  <2>4. function("unknown") \in {function(t) : t \in Annotation}
    BY DEF Annotation
  <2>5. x \notin Printable => x = "unknown"
    BY <1>3, <2>2, <2>3, <2>4, FunctionFacts DEF Printable
  <2> QED BY <1>3, <2>1, <2>2, <2>3, <2>5, FunctionFacts DEF is_function, Range
<1>6. CASE \E f \in DOMAIN program : x = function(program[f].returns)
  <2>1. PICK f \in DOMAIN program : x = function(program[f].returns)
    BY <1>6
  <2>2. program[f].returns \in Annotation /\ "unknown" \in Annotation
    BY <1>1 DEF Annotation
  <2>3. x \in {function(t) : t \in Annotation} /\ x \notin Annotation \cup {"none", "unresolved"}
    BY <2>1, <2>2, FunctionFacts
  <2>4. x \notin Printable => x = function("unknown")
    BY <1>3, <2>2, <2>3 DEF Printable
  <2>5. x \notin Printable => program[f].returns = "unknown"
    BY <2>1, <2>2, <2>4, FunctionFacts
  <2> QED BY <1>3, <2>1, <2>3, <2>5 DEF Range
<1> QED BY <1>4, <1>5, <1>6 DEF Known

(* Once all names are declared, the symbols are what the program declares. *)
LEMMA SymbolsAreGlobals ==
  ASSUME SemanticsInv, SymbolsOK, pass \in {"check", "emit"}
  PROVE  /\ DOMAIN symbols = DOMAIN Globals
         /\ \A x \in DOMAIN symbols : symbols[x] = Globals[x] /\ symbols[x] \in Known
<1>1. /\ program \in Seq(FunctionNode) /\ Distinct /\ DOMAIN symbols = Names(Len(program))
  BY ProgramsAssumption DEF SemanticsInv, PlaceOK, NamesOK
<1>2. DOMAIN Globals = Names(Len(program))
  BY <1>1 DEF Globals, Names, Range
<1>3. ASSUME NEW x \in DOMAIN symbols
      PROVE  symbols[x] = Globals[x] /\ symbols[x] \in Known
  <2>1. PICK f \in DOMAIN program : program[f].name = x /\ symbols[x] = function(program[f].returns)
    BY DEF SymbolsOK
  <2>2. Globals[x] = function((CHOOSE g \in Range(program) : g.name = x).returns)
    <3>1. x \in {g.name : g \in Range(program)}
      BY <2>1 DEF Range
    <3> QED BY <3>1 DEF Globals
  <2>3. \A g \in Range(program) : g.name = x => g = program[f]
    <3>1. ASSUME NEW g \in Range(program), g.name = x PROVE g = program[f]
      <4>1. PICK k \in DOMAIN program : g = program[k]
        BY DEF Range
      <4>2. k = f
        BY <1>1, <2>1, <3>1, <4>1 DEF Distinct
      <4> QED BY <4>1, <4>2
    <3> QED BY <3>1
  <2>4. program[f] \in Range(program)
    BY DEF Range
  <2>5. (CHOOSE g \in Range(program) : g.name = x) = program[f]
    BY <2>1, <2>3, <2>4
  <2> QED BY <2>1, <2>2, <2>5 DEF Known
<1> QED BY <1>1, <1>2, <1>3

(* The operators of binary and of unary expressions.                       *)
LEMMA OperatorsOfNode ==
  ASSUME NEW node \in Node
  PROVE  /\ node.kind = "binary" => node.is \in BinaryOp \cup LogicalOp
         /\ node.kind = "unary" => node.is \in UnaryOp
<1>1. CASE node \in [kind : {"literal"}, is : IrType] \cup [kind : {"identifier"}, is : STRING]
  BY <1>1
<1>2. CASE node \in [kind : {"binary"}, is : BinaryOp \cup LogicalOp]
  BY <1>2
<1>3. CASE node \in [kind : {"unary"}, is : UnaryOp]
  BY <1>3
<1>4. CASE node = [kind |-> "call", is |-> ""]
  BY <1>4
<1> QED BY <1>1, <1>2, <1>3, <1>4 DEF Node

(* The types on the stack are those the operands have by the structure of  *)
(* the expression, so the type of the next node follows from them.         *)
LEMMA NextNodeType ==
  ASSUME SemanticsInv, MeaningOK, pass = "check", stmt <= Len(Body), pos <= Len(Body[stmt]),
         NEW e, e = Body[stmt]
  PROVE  /\ TypesIn(e, Globals)[pos] = TypeOver(e[pos], Second, Top, Globals)
         /\ Operands(e[pos]) # 0 => Top \in Known
         /\ Operands(e[pos]) = 2 => Second \in Known
<1>1. /\ e \in Seq(Node) /\ PostOrder(e) /\ e = Exprs(fn)[stmt]
      /\ pos \in 1 .. Len(e) /\ e[pos] \in Node
      /\ Operands(e[pos]) # 0 => pos - 1 \in 1 .. Len(e) /\ Top = TypeOf(<<fn, stmt, pos - 1>>)
      /\ Operands(e[pos]) = 2 =>
           LET left == Starts(e)[pos - 1] - 1 IN
           left \in 1 .. pos - 2 /\ Second = TypeOf(<<fn, stmt, left>>)
  BY CheckedFacts
<1>2. PICK t, left : t = TypesIn(e, Globals) /\ left = Starts(e)[pos - 1] - 1
  OBVIOUS
<1>3. ASSUME NEW i \in 1 .. pos - 1
      PROVE  TypeOf(<<fn, stmt, i>>) = t[i] /\ TypeOf(<<fn, stmt, i>>) \in Known
  <2>1. PICK n : n = <<fn, stmt, i>>
    OBVIOUS
  <2>2. n \in DOMAIN typed
    BY <2>1 DEF SemanticsInv, TypedOK
  <2>3. TypeOf(n) = typed[n] /\ n[1] = fn /\ n[2] = stmt /\ n[3] = i
    BY <2>1, <2>2 DEF TypeOf
  <2> QED BY <1>1, <1>2, <2>1, <2>2, <2>3 DEF MeaningOK
<1>4. t[pos] = TypeOver(e[pos], t[left], t[pos - 1], Globals)
  <2>1. pos \in DOMAIN e
    BY <1>1
  <2> QED BY <1>1, <1>2, <2>1, TypesInFacts
<1>5. Operands(e[pos]) # 0 => pos - 1 \in 1 .. pos - 1
  BY <1>1
<1>6. Operands(e[pos]) = 2 => left \in 1 .. pos - 1
  BY <1>1, <1>2
<1>7. CASE Operands(e[pos]) = 0
  <2>1. \A x, y : TypeOver(e[pos], x, y, Globals) = TypeOver(e[pos], t[left], t[pos - 1], Globals)
    BY <1>1, <1>7, TypeOverFacts
  <2> QED BY <1>2, <1>4, <1>7, <2>1
<1>8. CASE Operands(e[pos]) = 1
  <2>1. Top = t[pos - 1] /\ Top \in Known
    BY <1>1, <1>3, <1>5, <1>8
  <2>2. \A x : TypeOver(e[pos], x, Top, Globals) = TypeOver(e[pos], t[left], Top, Globals)
    BY <1>1, <1>8, TypeOverFacts
  <2> QED BY <1>2, <1>4, <1>8, <2>1, <2>2
<1>9. CASE Operands(e[pos]) = 2
  <2>1. Top = t[pos - 1] /\ Top \in Known
    BY <1>1, <1>3, <1>5, <1>9
  <2>2. Second = t[left] /\ Second \in Known
    BY <1>1, <1>2, <1>3, <1>6, <1>9
  <2> QED BY <1>2, <1>4, <1>9, <2>1, <2>2
<1> QED BY <1>1, <1>7, <1>8, <1>9, OperandsOfNode

(* A node that is checked is given the type it has by the structure of its *)
(* expression, and a type error is thrown where it has none.               *)
LEMMA CheckMeaning ==
  ASSUME SemanticsInv, SymbolsOK, MeaningOK,
         CheckLiteral \/ CheckIdentifier \/ CheckBinary \/ CheckUnary \/ CheckCall,
         NEW e, e = Body[stmt]
  PROVE  /\ pass = "check" /\ stmt <= Len(Body) /\ pos <= Len(Body[stmt])
         /\ \/ /\ TypesIn(e, Globals)[pos] \in Known
               /\ Typed(TypesIn(e, Globals)[pos], Operands(e[pos]))
            \/ /\ TypesIn(e, Globals)[pos] = "none"
               /\ \E mentioned \in SUBSET Known : TypeErrorOn(mentioned)
            \/ e[pos].is \in LogicalOp /\ Fail("Unimplemented")
<1>1. pass = "check" /\ stmt <= Len(Body) /\ pos <= Len(Body[stmt])
  BY DEF CheckLiteral, CheckIdentifier, CheckBinary, CheckUnary, CheckCall, Checking
<1>2. /\ e[pos] \in Node /\ CheckedNode \in Nodes(fn, stmt) /\ stmt \in DOMAIN program[fn].body
      /\ fn \in DOMAIN program /\ Kind(CheckedNode) = e[pos].kind /\ Is(CheckedNode) = e[pos].is
      /\ pos \in 1 .. Len(e) /\ program \in Programs
  BY <1>1, CheckedFacts DEF SemanticsInv, PlaceOK
<1>3. PICK t : t = TypesIn(e, Globals)
  OBVIOUS
<1>4. /\ t[pos] = TypeOver(e[pos], Second, Top, Globals)
      /\ Operands(e[pos]) # 0 => Top \in Known
      /\ Operands(e[pos]) = 2 => Second \in Known
  BY <1>1, <1>3, NextNodeType
<1>5. "bool" \in Known /\ IrType \subseteq Known
  BY DEF Known, IrType
<1>6. \/ t[pos] \in Known /\ Typed(t[pos], Operands(e[pos]))
      \/ t[pos] = "none" /\ \E mentioned \in SUBSET Known : TypeErrorOn(mentioned)
      \/ e[pos].is \in LogicalOp /\ Fail("Unimplemented")
  <2>1. CASE CheckLiteral
    <3>1. e[pos].kind = "literal" /\ Typed(TypeOf(CheckedNode), 0)
      BY <1>2, <2>1 DEF CheckLiteral, Checking
    <3>2. Operands(e[pos]) = 0 /\ e[pos].is \in IrType
      BY <1>2, <3>1, OperandsOfNode, LiteralsAreTyped
    <3>3. CheckedNode \notin DOMAIN typed
      <4>1. /\ CheckedNode[1] = fn /\ CheckedNode[2] = stmt /\ CheckedNode[3] = pos
            /\ fn \in Nat /\ stmt \in Nat /\ pos \in Nat
        <5>1. program \in Seq(FunctionNode) /\ program[fn].body \in Seq(Seq(Node))
          BY <1>2, ProgramFacts
        <5> QED BY <1>2, <5>1 DEF CheckedNode, SemanticsInv, TypeOK
      <4>2. ~Earlier(CheckedNode)
        BY <4>1 DEF Earlier
      <4> QED BY <1>1, <4>2 DEF SemanticsInv, TypedOK
    <3>4. TypeOf(CheckedNode) = e[pos].is
      BY <1>2, <3>1, <3>3 DEF TypeOf
    <3>5. t[pos] = e[pos].is
      BY <1>4, <3>1 DEF TypeOver
    <3> QED BY <1>5, <3>1, <3>2, <3>4, <3>5
  <2>2. CASE CheckIdentifier
    <3>1. e[pos].kind = "identifier" /\ Typed(symbols[Is(CheckedNode)], 0)
      BY <1>2, <2>2 DEF CheckIdentifier, Checking
    <3>2. Operands(e[pos]) = 0
      BY <1>2, <3>1, OperandsOfNode
    <3>3. CheckedNode \in Identifiers(fn)
      BY <1>2, <3>1 DEF Identifiers
    <3>4. Is(CheckedNode) \in DOMAIN symbols
      BY <1>1, <1>2, <3>3 DEF SemanticsInv, BoundOK
    <3>5. /\ e[pos].is \in DOMAIN Globals /\ symbols[e[pos].is] = Globals[e[pos].is]
          /\ symbols[e[pos].is] \in Known
      BY <1>1, <1>2, <3>4, SymbolsAreGlobals
    <3>6. t[pos] = symbols[e[pos].is]
      BY <1>4, <3>1, <3>5 DEF TypeOver
    <3> QED BY <1>2, <3>1, <3>2, <3>5, <3>6
  <2>3. CASE CheckBinary
    <3>1. e[pos].kind = "binary"
      BY <1>2, <2>3 DEF CheckBinary, Checking
    <3>2. Operands(e[pos]) = 2 /\ e[pos].is \in BinaryOp \cup LogicalOp
      BY <1>2, <3>1, OperandsOfNode, OperatorsOfNode
    <3>3. Top \in Known /\ Second \in Known /\ "none" \notin {Second, Top}
      BY <1>2, <1>4, <3>2, KnownFacts
    <3>4. t[pos] = IF e[pos].is \in BinaryOp /\ BinaryAccepts(e[pos].is, Second, Top)
                   THEN BinaryType(e[pos].is, Second) ELSE "none"
      BY <1>4, <3>1, <3>3 DEF TypeOver
    <3>5. CASE e[pos].is \in LogicalOp /\ Fail("Unimplemented")
      BY <3>5
    <3>6. CASE /\ e[pos].is \notin LogicalOp /\ BinaryAccepts(e[pos].is, Second, Top)
               /\ Typed(BinaryType(e[pos].is, Second), 2)
      <4>1. t[pos] = BinaryType(e[pos].is, Second)
        BY <3>2, <3>4, <3>6
      <4>2. BinaryType(e[pos].is, Second) \in Known
        BY <1>5, <3>3 DEF BinaryType
      <4> QED BY <3>2, <3>6, <4>1, <4>2
    <3>7. CASE /\ ~BinaryAccepts(e[pos].is, Second, Top)
               /\ TypeErrorOn(BinaryMentions(e[pos].is, Second, Top))
      <4>1. t[pos] = "none"
        BY <3>4, <3>7
      <4>2. BinaryMentions(e[pos].is, Second, Top) \subseteq Known
        BY <3>3 DEF BinaryMentions
      <4> QED BY <3>7, <4>1, <4>2
    <3> QED BY <1>2, <2>3, <3>5, <3>6, <3>7 DEF CheckBinary
  <2>4. CASE CheckUnary
    <3>1. e[pos].kind = "unary"
      BY <1>2, <2>4 DEF CheckUnary, Checking
    <3>2. Operands(e[pos]) = 1
      BY <1>2, <3>1, OperandsOfNode
    <3>3. t[pos] = IF UnaryAccepts(e[pos].is, Top) THEN Top ELSE "none"
      BY <1>4, <3>1 DEF TypeOver
    <3>4. CASE UnaryAccepts(e[pos].is, Top) /\ Typed(Top, 1)
      BY <1>4, <3>2, <3>3, <3>4
    <3>5. CASE ~UnaryAccepts(e[pos].is, Top) /\ TypeErrorOn({Top})
      BY <1>4, <3>2, <3>3, <3>5
    <3> QED BY <1>2, <2>4, <3>4, <3>5 DEF CheckUnary
  <2>5. CASE CheckCall
    <3>1. e[pos].kind = "call"
      BY <1>2, <2>5 DEF CheckCall, Checking
    <3>2. Operands(e[pos]) = 1
      BY <1>2, <3>1, OperandsOfNode
    <3>3. t[pos] = IF is_function(Top) THEN return_type(Top) ELSE "none"
      BY <1>4, <3>1 DEF TypeOver
    <3>4. CASE is_function(Top) /\ Typed(return_type(Top), 1)
      <4>1. PICK f \in DOMAIN program : Top = function(program[f].returns)
        BY <1>2, <1>4, <3>2, <3>4, KnownFacts
      <4>2. return_type(Top) = program[f].returns
        BY <1>2, <4>1, ProgramFacts, FunctionFacts
      <4>3. return_type(Top) \in Known
        BY <4>2 DEF Known
      <4> QED BY <3>2, <3>3, <3>4, <4>3
    <3>5. CASE ~is_function(Top) /\ TypeErrorOn({Top})
      BY <1>4, <3>2, <3>3, <3>5
    <3> QED BY <2>5, <3>4, <3>5 DEF CheckCall
  <2> QED BY <2>1, <2>2, <2>3, <2>4, <2>5
<1> QED BY <1>1, <1>3, <1>6

(* The expression that ends a body: nothing has resolved its type, so only *)
(* that of a literal is known.                                             *)
LEMMA LastExpression ==
  ASSUME SemanticsInv, NEW f \in DOMAIN program, NEW last, last = program[f].last, last # <<>>,
         NEW type, type = TypeOf(<<f, Len(program[f].body) + 1, Len(last)>>)
  PROVE  \/ /\ type = "unresolved"
            /\ Len(last) > 1 \/ \E i \in DOMAIN last : last[i].kind = "identifier"
         \/ /\ last[1].kind = "literal" /\ Len(last) = 1
            /\ type = last[1].is /\ type \in IrType
            /\ TypeIn(last, Globals) = type
<1>1. PICK s : s = Len(program[f].body) + 1
  OBVIOUS
<1>2. /\ program \in Programs /\ program[f].body \in Seq(Seq(Node)) /\ last \in Seq(Node)
      /\ Exprs(f)[s] = last /\ PostOrder(last) /\ s \notin DOMAIN program[f].body
  <2>1. program \in Programs
    BY DEF SemanticsInv, PlaceOK
  <2>2. /\ program[f].body \in Seq(Seq(Node)) /\ last \in Seq(Node)
        /\ DOMAIN Exprs(f) = 1 .. s /\ Exprs(f)[s] = last
    BY <1>1, <2>1, ProgramFacts
  <2>3. s \in DOMAIN Exprs(f) /\ s \notin DOMAIN program[f].body
    BY <1>1, <2>2
  <2> QED BY <2>1, <2>2, <2>3, ProgramFacts
<1>3. PICK n : n = <<f, s, Len(last)>>
  OBVIOUS
<1>4. Len(last) \in 1 .. Len(last) /\ Len(last) \in DOMAIN last /\ last[Len(last)] \in Node
  BY <1>2
<1>5. n \notin DOMAIN typed
  BY <1>2, <1>3 DEF SemanticsInv, TypedOK
<1>6. Kind(n) = last[Len(last)].kind /\ Is(n) = last[Len(last)].is
  BY <1>2, <1>3 DEF Kind, Is
<1>7. CASE last[Len(last)].kind = "literal"
  <2>1. type = last[Len(last)].is
    BY <1>1, <1>3, <1>5, <1>6, <1>7 DEF TypeOf
  <2>2. last[Len(last)].is \in IrType
    BY <1>4, <1>7, LiteralsAreTyped
  <2>3. Len(last) = 1
    <3>1. SUFFICES ASSUME Len(last) # 1 PROVE FALSE
      OBVIOUS
    <3>2. PICK k : k = Len(last) - 1
      OBVIOUS
    <3>3. k \in 1 .. Len(last) - 1 /\ Len(last) \in Nat
      <4>1. Len(last) \in Nat /\ Len(last) >= 1
        BY <1>4
      <4>2. PICK m : m = Len(last)
        OBVIOUS
      <4>3. m \in Nat /\ m >= 1 /\ m # 1 /\ k = m - 1
        BY <3>1, <3>2, <4>1, <4>2
      <4>4. k \in 1 .. m - 1
        BY <4>3
      <4> QED BY <4>1, <4>2, <4>4
    <3>4. PICK p \in k + 1 .. Len(last) :
            \/ Operands(last[p]) # 0 /\ p - 1 = k
            \/ Operands(last[p]) = 2 /\ Starts(last)[p - 1] - 1 = k
      BY <1>2, <3>3, UsedLater
    <3>5. p = Len(last)
      BY <3>2, <3>3
    <3>6. Operands(last[p]) # 0
      BY <3>4
    <3> QED BY <1>4, <1>7, <3>5, <3>6, OperandsOfNode
  <2>4. TypesIn(last, Globals)[Len(last)] = last[Len(last)].is
    <3>1. \A l, r : TypeOver(last[Len(last)], l, r, Globals) = last[Len(last)].is
      BY <1>7 DEF TypeOver
    <3> QED BY <1>2, <1>4, <3>1, TypesInFacts
  <2> QED BY <1>7, <2>1, <2>2, <2>3, <2>4 DEF TypeIn
<1>8. CASE last[Len(last)].kind # "literal"
  <2>1. type = "unresolved"
    BY <1>1, <1>3, <1>5, <1>6, <1>8 DEF TypeOf
  <2>2. CASE last[Len(last)].kind = "identifier"
    BY <1>4, <2>1, <2>2
  <2>3. CASE last[Len(last)].kind # "identifier"
    <3>1. Operands(last[Len(last)]) # 0
      BY <1>4, <1>8, <2>3, OperandsOfNode
    <3>2. Len(last) - 1 \in 1 .. Len(last)
      BY <1>2, <1>4, <3>1, OperandsBefore
    <3>3. Len(last) > 1
      BY <1>2, <3>2
    <3> QED BY <2>1, <3>3
  <2> QED BY <2>2, <2>3
<1> QED BY <1>7, <1>8

-----------------------------------------------------------------------------
(* What each error says of the program.                                    *)

(* A type error that mentions known types is thrown for a program that has *)
(* one, or becomes an internal error over a return type that is no type.   *)
LEMMA TypeErrorRight ==
  ASSUME SemanticsInv, SemanticsInv', pass \in {"check", "emit"},
         NEW mentioned \in SUBSET (Known \cup {"void"}), TypeErrorOn(mentioned),
         ~ReturnsTyped
  PROVE  OutcomeIsRight'
<1>1. Distinct /\ NamesDefined
  BY NamesResolved
<1>2. /\ program' = program
      /\ outcome' = IF mentioned \subseteq Printable THEN "TypeError" ELSE "InternalError"
  BY DEF TypeErrorOn, Fail
<1>3. /\ Distinct' = Distinct /\ NamesDefined' = NamesDefined /\ ReturnsTyped' = ReturnsTyped
  BY <1>2 DEF Distinct, NamesDefined, ReturnsTyped, Globals
<1>4. CASE mentioned \subseteq Printable
  BY <1>1, <1>2, <1>3, <1>4 DEF OutcomeIsRight
<1>5. CASE ~(mentioned \subseteq Printable)
  <2>1. PICK x \in Known \cup {"void"} : x \notin Printable
    BY <1>5
  <2>2. program \in Programs
    BY DEF SemanticsInv, PlaceOK
  <2>3. \E f \in Range(program) : f.returns = "unknown"
    BY <2>1, <2>2, KnownFacts
  <2> QED BY <1>2, <1>5, <2>3 DEF OutcomeIsRight
<1> QED BY <1>4, <1>5

(* A program is not well typed if one of its returns is not.               *)
LEMMA ReturnNotTyped ==
  ASSUME NEW f \in DOMAIN program, NEW s \in DOMAIN program[f].body,
         TypeIn(program[f].body[s], Globals) # program[f].returns
  PROVE  ~ReturnsTyped
<1>1. program[f] \in Range(program)
  BY DEF Range
<1> QED BY <1>1 DEF ReturnsTyped

LEMMA CheckExpressionRight ==
  ASSUME SemanticsInv, SemanticsInv', MeaningInv,
         CheckLiteral \/ CheckIdentifier \/ CheckBinary \/ CheckUnary \/ CheckCall
  PROVE  OutcomeIsRight'
<1> USE DEF MeaningInv
<1>1. PICK e : e = Body[stmt]
  OBVIOUS
<1>2. /\ pass = "check" /\ stmt <= Len(Body) /\ pos <= Len(Body[stmt])
      /\ \/ Typed(TypesIn(e, Globals)[pos], Operands(e[pos]))
         \/ /\ TypesIn(e, Globals)[pos] = "none"
            /\ \E mentioned \in SUBSET Known : TypeErrorOn(mentioned)
         \/ e[pos].is \in LogicalOp /\ Fail("Unimplemented")
  BY <1>1, CheckMeaning
<1>3. /\ e \in Seq(Node) /\ PostOrder(e) /\ pos \in 1 .. Len(e) /\ e = program[fn].body[stmt]
      /\ fn \in DOMAIN program /\ stmt \in DOMAIN program[fn].body /\ program \in Programs
  BY <1>1, <1>2, CheckedFacts DEF Body, Function, SemanticsInv, PlaceOK
<1>4. CASE Typed(TypesIn(e, Globals)[pos], Operands(e[pos]))
  <2>1. outcome' = "none"
    BY <1>2, <1>4 DEF Typed, SemanticsInv
  <2> QED BY <2>1 DEF OutcomeIsRight
<1>5. CASE /\ TypesIn(e, Globals)[pos] = "none"
           /\ \E mentioned \in SUBSET Known : TypeErrorOn(mentioned)
  <2>1. TypeIn(e, Globals) = "none"
    <3>1. TypesIn(e, Globals)[Len(e)] = "none"
      BY <1>3, <1>5, NoTypeSpreads
    <3>2. e # <<>>
      BY <1>3
    <3> QED BY <3>1, <3>2 DEF TypeIn
  <2>2. program[fn].returns # "none"
    BY <1>3, ProgramFacts, FunctionFacts
  <2>3. ~ReturnsTyped
    BY <1>3, <2>1, <2>2, ReturnNotTyped
  <2>4. PICK mentioned \in SUBSET Known : TypeErrorOn(mentioned)
    BY <1>5
  <2> QED BY <1>2, <2>3, <2>4, TypeErrorRight
<1>6. CASE e[pos].is \in LogicalOp /\ Fail("Unimplemented")
  <2>1. Distinct /\ NamesDefined
    BY <1>2, NamesResolved
  <2>2. Uses({"identifier", "call"}, LogicalOp)
    <3>1. program[fn] \in Range(program) /\ e \in Range(program[fn].body) /\ pos \in DOMAIN e
      BY <1>3 DEF Range
    <3> QED BY <1>6, <3>1 DEF Uses
  <2>3. outcome' = "Unimplemented" /\ program' = program
    BY <1>6 DEF Fail
  <2>4. /\ Distinct' /\ NamesDefined' /\ Uses({"identifier", "call"}, LogicalOp)'
    BY <2>1, <2>2, <2>3 DEF Distinct, NamesDefined, Globals, Uses
  <2> QED BY <2>3, <2>4 DEF OutcomeIsRight
<1> QED BY <1>2, <1>4, <1>5, <1>6

(* The type compared with the return type is that of the expression.       *)
LEMMA ReturnedType ==
  ASSUME SemanticsInv, MeaningOK, pass = "check", stmt <= Len(Body), pos = Len(Body[stmt]) + 1
  PROVE  /\ fn \in DOMAIN program /\ stmt \in DOMAIN program[fn].body
         /\ Body[stmt] = program[fn].body[stmt] /\ Body[stmt] = Exprs(fn)[stmt]
         /\ types = <<>> <=> Body[stmt] = <<>>
         /\ (IF types = <<>> THEN "void" ELSE Top) = TypeIn(Body[stmt], Globals)
         /\ (IF types = <<>> THEN "void" ELSE Top) \in Known \cup {"void"}
<1>1. PICK e : e = Body[stmt]
  OBVIOUS
<1>2. /\ program \in Programs /\ fn \in DOMAIN program /\ Body = program[fn].body
      /\ stmt \in 1 .. Len(Body) + 1
  BY DEF SemanticsInv, PlaceOK, TypeOK, Body, Function
<1>3. Body \in Seq(Seq(Node)) /\ DOMAIN Exprs(fn) = 1 .. Len(Body) + 1
  BY <1>2, ProgramFacts
<1>4. stmt \in DOMAIN Body /\ stmt \in DOMAIN Exprs(fn)
  BY <1>2, <1>3
<1>5. e \in Seq(Node) /\ PostOrder(e) /\ e = Exprs(fn)[stmt]
  BY <1>1, <1>2, <1>4, ProgramFacts
<1>6. /\ Len(types) = Depth(e, Len(e)) /\ types \in Seq(FrontendType) /\ pos - 1 = Len(e)
  BY <1>1, <1>5 DEF SemanticsInv, StackOK, TypeOK
<1>7. CASE e = <<>>
  <2>1. Len(types) = 0
    BY <1>5, <1>6, <1>7, DepthSteps
  <2>2. types = <<>>
    BY <1>6, <2>1
  <2> QED BY <1>1, <1>2, <1>4, <1>5, <1>7, <2>2 DEF TypeIn
<1>8. CASE e # <<>>
  <2>1. /\ Depth(e, Len(e)) = 1 /\ Len(e) \in 1 .. pos - 1 /\ Len(e) + 1 .. pos - 1 = {}
    BY <1>5, <1>6, <1>8 DEF PostOrder
  <2>2. Len(types) = 1 /\ types[1] = TypeOf(<<fn, stmt, Len(e)>>)
    BY <1>1, <1>6, <2>1 DEF SemanticsInv, StackOK
  <2>3. PICK n : n = <<fn, stmt, Len(e)>>
    OBVIOUS
  <2>4. n \in DOMAIN typed /\ n[1] = fn /\ n[2] = stmt /\ n[3] = Len(e)
    BY <2>1, <2>3 DEF SemanticsInv, TypedOK
  <2>5. TypeOf(n) = TypesIn(e, Globals)[Len(e)] /\ TypeOf(n) \in Known
    BY <1>5, <2>4 DEF TypeOf, MeaningOK
  <2>6. types # <<>>
    <3>1. Len(types) # 0 /\ types \in Seq(FrontendType)
      BY <1>6, <2>2
    <3> QED BY <3>1, EmptySeq, Zenon
  <2>7. Top = TypeOf(n)
    BY <2>2, <2>3 DEF Top
  <2>8. (IF types = <<>> THEN "void" ELSE Top) = TypeOf(n)
    BY <2>6, <2>7, Zenon
  <2> QED BY <1>1, <1>2, <1>4, <1>5, <1>8, <2>5, <2>6, <2>8 DEF TypeIn
<1> QED BY <1>7, <1>8

LEMMA CheckReturnRight ==
  ASSUME SemanticsInv, SemanticsInv', MeaningInv, CheckReturn
  PROVE  OutcomeIsRight'
<1> USE DEF MeaningInv
<1>1. pass = "check" /\ stmt <= Len(Body) /\ pos = Len(Body[stmt]) + 1 /\ outcome = "none"
  BY DEF CheckReturn, SemanticsInv
<1>2. PICK type : type = IF types = <<>> THEN "void" ELSE Top
  OBVIOUS
<1>3. /\ fn \in DOMAIN program /\ stmt \in DOMAIN program[fn].body
      /\ Body[stmt] = program[fn].body[stmt]
      /\ type = TypeIn(Body[stmt], Globals) /\ type \in Known \cup {"void"}
  BY <1>1, <1>2, ReturnedType
<1>4. CASE type # Function.returns
  <2>1. TypeErrorOn({Function.returns, type})
    BY <1>2, <1>4 DEF CheckReturn
  <2>2. ~ReturnsTyped
    BY <1>3, <1>4, ReturnNotTyped DEF Function
  <2>3. Function.returns \in Known
    BY <1>3 DEF Known, Function
  <2>4. {Function.returns, type} \in SUBSET (Known \cup {"void"})
    BY <1>3, <2>3
  <2> QED BY <1>1, <2>1, <2>2, <2>4, TypeErrorRight
<1>5. CASE type = Function.returns
  <2>1. outcome' = "none"
    BY <1>1, <1>2, <1>5 DEF CheckReturn
  <2> QED BY <2>1 DEF OutcomeIsRight
<1> QED BY <1>4, <1>5

LEMMA CheckLastRight ==
  ASSUME SemanticsInv, SemanticsInv', MeaningInv, CheckLast
  PROVE  OutcomeIsRight'
<1>1. /\ pass = "check" /\ outcome = "none" /\ stmt = Len(program[fn].body) + 1
      /\ program \in Programs /\ fn \in DOMAIN program
  BY DEF CheckLast, SemanticsInv, PlaceOK, TypeOK, Body, Function
<1>2. PICK last, type : last = program[fn].last /\ type = TypeOf(<<fn, stmt, Len(last)>>)
  OBVIOUS
<1>3. CASE last # <<>> /\ type # program[fn].returns
  <2>1. TypeErrorOn({program[fn].returns, type})
    BY <1>2, <1>3 DEF CheckLast, Function
  <2>2. program[fn] \in Range(program) /\ program[fn].returns \in Known
    BY <1>1 DEF Range, Known
  <2>3. CASE /\ type = "unresolved"
             /\ Len(last) > 1 \/ \E i \in DOMAIN last : last[i].kind = "identifier"
    <3>1. outcome' = "InternalError" /\ program' = program
      BY <2>1, <2>3 DEF TypeErrorOn, Fail, Printable
    <3>2. Len(program[fn].last) > 1
            \/ \E i \in DOMAIN program[fn].last : program[fn].last[i].kind = "identifier"
      BY <1>2, <2>3
    <3> QED BY <2>2, <3>1, <3>2 DEF OutcomeIsRight
  <2>4. CASE type \in IrType /\ TypeIn(last, Globals) = type
    <3>1. ~ReturnsTyped
      BY <1>2, <1>3, <2>2, <2>4 DEF ReturnsTyped
    <3>2. {program[fn].returns, type} \in SUBSET (Known \cup {"void"})
      BY <2>2, <2>4 DEF Known
    <3> QED BY <1>1, <2>1, <3>1, <3>2, TypeErrorRight
  <2> QED BY <1>1, <1>2, <1>3, <2>3, <2>4, LastExpression
<1>4. CASE ~(last # <<>> /\ type # program[fn].returns)
  <2>1. NextFunction("emit")
    BY <1>2, <1>4 DEF CheckLast, Function
  <2>2. outcome' = "none"
    BY <1>1, <2>1 DEF NextFunction
  <2> QED BY <2>2 DEF OutcomeIsRight
<1> QED BY <1>3, <1>4

(* A node that was given a type can be emitted, but for the kinds that     *)
(* emit_ir does not implement.                                             *)
LEMMA TypedIsEmitted ==
  ASSUME SemanticsInv, MeaningOK, NEW n \in DOMAIN typed, EmitError(n) # "none"
  PROVE  /\ EmitError(n) = "Unimplemented"
         /\ Kind(n) \in {"identifier", "call"} \/ Is(n) \in LogicalOp
<1>1. /\ program \in Programs /\ n[1] \in DOMAIN program /\ n[2] \in DOMAIN program[n[1]].body
      /\ n \in Nodes(n[1], n[2]) /\ Accepted(n[1], n[2], n[3])
  BY DEF SemanticsInv, PlaceOK, TypedOK
<1>2. PICK e : e = Exprs(n[1])[n[2]]
  OBVIOUS
<1>3. e \in Seq(Node) /\ PostOrder(e)
  <2>1. n[2] \in DOMAIN Exprs(n[1])
    <3>1. /\ DOMAIN Exprs(n[1]) = 1 .. Len(program[n[1]].body) + 1
          /\ program[n[1]].body \in Seq(Seq(Node))
      BY <1>1, ProgramFacts
    <3> QED BY <1>1, <3>1
  <2> QED BY <1>1, <1>2, <2>1, ProgramFacts
<1>4. PICK i : i = n[3]
  OBVIOUS
<1>5. n = <<n[1], n[2], i>> /\ i \in DOMAIN e /\ e[i] \in Node
  BY <1>1, <1>2, <1>3, <1>4 DEF Nodes
<1>6. Kind(n) = e[i].kind /\ Is(n) = e[i].is
  BY <1>2, <1>4 DEF Kind, Is
<1>7. PICK l, r : l = TypeOf(<<n[1], n[2], Starts(e)[i - 1] - 1>>) /\ r = TypeOf(<<n[1], n[2], i - 1>>)
  OBVIOUS
<1>8. /\ e[i].kind = "binary" => BinaryAccepts(e[i].is, l, r) /\ TypeOf(n) = BinaryType(e[i].is, l)
      /\ e[i].kind = "unary" => UnaryAccepts(e[i].is, r) /\ TypeOf(n) = r
  BY <1>1, <1>2, <1>4, <1>5, <1>7 DEF Accepted
<1>9. SUFFICES ASSUME e[i].kind \in {"literal", "unary", "binary"}, e[i].is \notin LogicalOp
               PROVE  TypeOf(n) \in IrType
  <2>1. e[i].kind \in {"literal", "identifier", "unary", "call", "binary"}
    BY <1>5, OperandsOfNode
  <2>2. e[i].kind # "binary" => \/ e[i].kind \in {"identifier", "call"}
                                \/ e[i].kind \in {"literal", "unary"}
    BY <2>1
  <2> QED BY <1>6, <2>1, <2>2 DEF EmitError, Resolvable
<1>10. CASE e[i].kind = "literal"
  <2>1. e[i].is \in IrType
    BY <1>5, <1>10, LiteralsAreTyped
  <2>2. typed[n] = e[i].is
    <3>1. \A x, y : TypeOver(e[i], x, y, Globals) = e[i].is
      BY <1>10 DEF TypeOver
    <3>2. TypesIn(e, Globals)[i] = e[i].is
      BY <1>3, <1>5, <3>1, TypesInFacts
    <3> QED BY <1>2, <1>4, <3>2 DEF MeaningOK
  <2> QED BY <2>1, <2>2 DEF TypeOf
<1>11. CASE e[i].kind = "unary"
  <2>1. e[i].is \in UnaryOp
    BY <1>5, <1>11, OperatorsOfNode
  <2> QED BY <1>8, <1>11, <2>1 DEF UnaryAccepts, UnaryOp, is_integer, IrType
<1>12. CASE e[i].kind = "binary"
  <2>1. e[i].is \in BinaryOp
    BY <1>5, <1>9, <1>12, OperatorsOfNode
  <2>2. e[i].is \in CompareOp \/ is_integer(l)
    BY <1>8, <1>12, <2>1 DEF BinaryAccepts, BinaryOp
  <2> QED BY <1>8, <1>12, <2>2 DEF BinaryType, is_integer, IrType
<1> QED BY <1>9, <1>10, <1>11, <1>12

LEMMA EmitRight ==
  ASSUME SemanticsInv, MeaningInv, Emit
  PROVE  OutcomeIsRight'
<1> USE DEF MeaningInv
<1>1. /\ pass = "emit" /\ outcome = "none" /\ program \in Programs /\ fn \in DOMAIN program
      /\ stmt \in 1 .. Len(program[fn].body) + 1 /\ Body = program[fn].body
  BY DEF Emit, SemanticsInv, PlaceOK, TypeOK, Body, Function
<1>2. /\ program[fn].body \in Seq(Seq(Node)) /\ DOMAIN Exprs(fn) = 1 .. Len(program[fn].body) + 1
      /\ stmt \in DOMAIN Exprs(fn) /\ program \in Seq(FunctionNode)
  BY <1>1, ProgramFacts
<1>3. Distinct /\ NamesDefined
  BY <1>1, NamesResolved
<1>4. \A f, s : f \in DOMAIN program /\ s \in DOMAIN Exprs(f) => Passed(f, s)
  BY <1>1 DEF Passed
<1>5. CASE FirstError(fn, stmt) # "none"
  <2>1. Fail(FirstError(fn, stmt))
    BY <1>5 DEF Emit
  <2>2. PICK n \in Nodes(fn, stmt) : EmitError(n) # "none" /\ FirstError(fn, stmt) = EmitError(n)
    BY <1>1, <1>2, <1>5, FirstErrorFacts
  <2>3. PICK i \in DOMAIN Exprs(fn)[stmt] : n = <<fn, stmt, i>>
    BY DEF Nodes
  <2>4. CASE stmt \in DOMAIN program[fn].body
    <3>1. n \in DOMAIN typed
      <4>1. stmt <= Len(program[fn].body)
        BY <1>2, <2>4
      <4> QED BY <1>1, <1>2, <1>4, <4>1 DEF SemanticsInv, TypedOK
    <3>2. /\ EmitError(n) = "Unimplemented"
          /\ Kind(n) \in {"identifier", "call"} \/ Is(n) \in LogicalOp
      BY <2>2, <3>1, TypedIsEmitted
    <3>3. Uses({"identifier", "call"}, LogicalOp)
      <4>1. PICK e : e = program[fn].body[stmt]
        OBVIOUS
      <4>2. Exprs(fn)[stmt] = e
        BY <1>1, <2>4, <4>1, ProgramFacts
      <4>3. program[fn] \in Range(program) /\ e \in Range(program[fn].body) /\ i \in DOMAIN e
        BY <1>1, <2>3, <2>4, <4>1, <4>2 DEF Range
      <4>4. Kind(n) = e[i].kind /\ Is(n) = e[i].is
        BY <2>3, <4>2 DEF Kind, Is
      <4> QED BY <3>2, <4>3, <4>4 DEF Uses
    <3>4. program' = program /\ outcome' = "Unimplemented"
      BY <2>1, <2>2, <3>2 DEF Fail
    <3>5. Distinct' /\ NamesDefined' /\ Uses({"identifier", "call"}, LogicalOp)'
      BY <1>3, <3>3, <3>4 DEF Distinct, NamesDefined, Globals, Uses
    <3> QED BY <3>4, <3>5 DEF OutcomeIsRight
  <2>5. CASE stmt \notin DOMAIN program[fn].body
    <3>1. PICK last, type : /\ last = program[fn].last
                            /\ type = TypeOf(<<fn, Len(program[fn].body) + 1, Len(last)>>)
      OBVIOUS
    <3>2. stmt = Len(program[fn].body) + 1 /\ Exprs(fn)[stmt] = last /\ last # <<>>
      <4>1. stmt = Len(program[fn].body) + 1
        BY <1>1, <1>2, <2>5
      <4>2. Exprs(fn)[stmt] = last
        BY <1>1, <3>1, <4>1, ProgramFacts
      <4> QED BY <2>3, <4>1, <4>2
    <3>3. type = program[fn].returns
      BY <1>1, <1>2, <1>4, <3>1, <3>2 DEF SemanticsInv, TypedOK
    <3>4. type # "unresolved"
      BY <1>1, <3>3, ProgramFacts, FunctionFacts
    <3>5. last[1].kind = "literal" /\ Len(last) = 1 /\ type = last[1].is /\ type \in IrType
      BY <1>1, <3>1, <3>2, <3>4, LastExpression
    <3>6. i = 1
      <4>1. last \in Seq(Node)
        BY <1>1, <3>1, ProgramFacts
      <4> QED BY <2>3, <3>2, <3>5, <4>1
    <3>7. Kind(n) = "literal" /\ Is(n) = type /\ TypeOf(n) = type
      BY <2>3, <3>1, <3>2, <3>5, <3>6 DEF Kind, Is
    <3>8. Is(n) \notin LogicalOp
      BY <3>5, <3>7 DEF IrType, LogicalOp
    <3>9. EmitError(n) = "none"
      BY <3>5, <3>7, <3>8 DEF EmitError, Resolvable
    <3> QED BY <2>2, <3>9
  <2> QED BY <2>4, <2>5
<1>6. CASE FirstError(fn, stmt) = "none"
  <2>1. outcome' \in {"none", "Success"} /\ program' = program
    BY <1>1, <1>6 DEF Emit, NextFunction
  <2>2. ReturnsTyped
    <3>1. SUFFICES ASSUME NEW f \in DOMAIN program
                   PROVE  /\ \A s \in DOMAIN program[f].body :
                                TypeIn(program[f].body[s], Globals) = program[f].returns
                          /\ program[f].last # <<>> =>
                                TypeIn(program[f].last, Globals) = program[f].returns
      BY DEF ReturnsTyped, Range
    <3>2. /\ program[f].body \in Seq(Seq(Node))
          /\ DOMAIN Exprs(f) = 1 .. Len(program[f].body) + 1
          /\ program[f].returns \in Annotation
          /\ Exprs(f)[Len(program[f].body) + 1] = program[f].last
      BY <1>1, ProgramFacts
    <3>3. ASSUME NEW s \in DOMAIN program[f].body
          PROVE  TypeIn(program[f].body[s], Globals) = program[f].returns
      <4>1. PICK e : e = program[f].body[s]
        OBVIOUS
      <4>2. /\ e = Exprs(f)[s] /\ e \in Seq(Node) /\ s <= Len(program[f].body)
            /\ Passed(f, s)
        <5>1. s \in DOMAIN Exprs(f) /\ s <= Len(program[f].body)
          BY <3>2
        <5> QED BY <1>1, <1>4, <3>2, <4>1, <5>1, ProgramFacts
      <4>3. CASE e = <<>>
        <5>1. program[f].returns = "void"
          BY <4>2, <4>3 DEF EmptyOK
        <5> QED BY <4>1, <4>3, <5>1 DEF TypeIn
      <4>4. CASE e # <<>>
        <5>1. PICK n : n = <<f, s, Len(e)>>
          OBVIOUS
        <5>2. n \in Nodes(f, s) /\ n[1] = f /\ n[2] = s /\ n[3] = Len(e)
          BY <4>2, <4>4, <5>1 DEF Nodes
        <5>3. n \in DOMAIN typed /\ TypeOf(n) = program[f].returns
          BY <4>2, <4>4, <5>1, <5>2 DEF SemanticsInv, TypedOK
        <5>4. TypeOf(n) = TypesIn(e, Globals)[Len(e)]
          BY <4>2, <5>2, <5>3 DEF TypeOf, MeaningOK
        <5> QED BY <4>1, <4>4, <5>3, <5>4 DEF TypeIn
      <4> QED BY <4>3, <4>4
    <3>4. ASSUME program[f].last # <<>>
          PROVE  TypeIn(program[f].last, Globals) = program[f].returns
      <4>1. PICK last, type : /\ last = program[f].last
                              /\ type = TypeOf(<<f, Len(program[f].body) + 1, Len(last)>>)
        OBVIOUS
      <4>2. Passed(f, Len(program[f].body) + 1)
        BY <1>4, <3>2
      <4>3. type = program[f].returns
        BY <3>2, <3>4, <4>1, <4>2 DEF SemanticsInv, TypedOK
      <4>4. type # "unresolved"
        BY <3>2, <4>3, FunctionFacts
      <4> QED BY <3>4, <4>1, <4>3, <4>4, LastExpression
    <3> QED BY <3>3, <3>4
  <2>3. Distinct' /\ NamesDefined' /\ ReturnsTyped'
    BY <1>3, <2>1, <2>2 DEF Distinct, NamesDefined, ReturnsTyped, Globals
  <2> QED BY <2>1, <2>3 DEF OutcomeIsRight
<1> QED BY <1>5, <1>6

-----------------------------------------------------------------------------
(* What symbols and types mean does not change.                            *)

LEMMA ProgramKept ==
  ASSUME [Next]_vars
  PROVE  /\ program' = program /\ Globals' = Globals /\ Known' = Known
         /\ \A f : Exprs(f)' = Exprs(f)
<1>1. program' = program
  <2>1. \A error : Fail(error) => program' = program
    BY DEF Fail
  <2>2. \A mentioned : TypeErrorOn(mentioned) => program' = program
    BY <2>1 DEF TypeErrorOn
  <2>3. \A type, operands : Typed(type, operands) => program' = program
    BY DEF Typed
  <2>4. CASE Declare \/ ResolveSymbols \/ Emit
    BY <2>1, <2>4 DEF Declare, ResolveSymbols, Emit
  <2>5. CASE Check
    BY <2>1, <2>2, <2>3, <2>5
      DEF Check, CheckLiteral, CheckIdentifier, CheckBinary, CheckUnary, CheckCall, CheckReturn, CheckLast
  <2>6. CASE Over \/ UNCHANGED vars
    BY <2>6 DEF Over, vars
  <2> QED BY <2>4, <2>5, <2>6 DEF Next
<1> QED BY <1>1 DEF Globals, Known, Exprs

LEMMA SymbolsStep ==
  ASSUME SemanticsInv, SymbolsOK, [Next]_vars
  PROVE  SymbolsOK'
<1>1. program' = program
  BY ProgramKept
<1>2. CASE UNCHANGED symbols
  BY <1>1, <1>2 DEF SymbolsOK
<1>3. CASE ~UNCHANGED symbols
  <2>1. \A error : ~Fail(error)
    BY <1>3 DEF Fail
  <2>2. \A mentioned : ~TypeErrorOn(mentioned)
    BY <2>1 DEF TypeErrorOn
  <2>3. \A type, operands : ~Typed(type, operands)
    BY <1>3 DEF Typed
  <2>4. ~Check
    BY <1>3, <2>1, <2>2, <2>3
      DEF Check, CheckLiteral, CheckIdentifier, CheckBinary, CheckUnary, CheckCall, CheckReturn, CheckLast
  <2>5. Declare
    BY <1>3, <2>1, <2>4 DEF Next, ResolveSymbols, Emit, Over, vars
  <2>6. symbols' = Extended(symbols, Function.name, function(Function.returns))
    BY <2>1, <2>5 DEF Declare
  <2>7. fn \in DOMAIN program /\ Function = program[fn]
    BY DEF SemanticsInv, TypeOK, Function
  <2>8. ASSUME NEW x \in DOMAIN symbols'
        PROVE  \E f \in DOMAIN program :
                 program[f].name = x /\ symbols'[x] = function(program[f].returns)
    <3>1. CASE x = program[fn].name
      <4>1. symbols'[x] = function(program[fn].returns)
        BY <2>6, <2>7, <2>8, <3>1 DEF Extended
      <4> QED BY <2>7, <3>1, <4>1
    <3>2. CASE x # program[fn].name
      <4>1. x \in DOMAIN symbols /\ symbols'[x] = symbols[x]
        BY <2>6, <2>7, <2>8, <3>2 DEF Extended
      <4> QED BY <4>1 DEF SymbolsOK
    <3> QED BY <3>1, <3>2
  <2> QED BY <1>1, <2>8 DEF SymbolsOK
<1> QED BY <1>2, <1>3

LEMMA MeaningStep ==
  ASSUME SemanticsInv, SymbolsOK, MeaningOK, [Next]_vars
  PROVE  MeaningOK'
<1>1. /\ program' = program /\ Globals' = Globals /\ Known' = Known
      /\ \A f : Exprs(f)' = Exprs(f)
  BY ProgramKept
<1>2. CASE UNCHANGED typed
  BY <1>1, <1>2 DEF MeaningOK
<1>3. CASE ~UNCHANGED typed
  <2>1. \A error : ~Fail(error)
    BY <1>3 DEF Fail
  <2>2. \A mentioned : ~TypeErrorOn(mentioned)
    BY <2>1 DEF TypeErrorOn
  <2>3. CheckLiteral \/ CheckIdentifier \/ CheckBinary \/ CheckUnary \/ CheckCall
    BY <1>3, <2>1, <2>2
      DEF Next, Declare, ResolveSymbols, Emit, Over, vars, Check, CheckReturn, CheckLast
  <2>4. PICK e, type : e = Body[stmt] /\ type = TypesIn(e, Globals)[pos]
    OBVIOUS
  <2>5. /\ pass = "check" /\ stmt <= Len(Body) /\ pos <= Len(Body[stmt])
        /\ type \in Known /\ Typed(type, Operands(e[pos]))
    BY <2>1, <2>2, <2>3, <2>4, CheckMeaning
  <2>6. e = Exprs(fn)[stmt]
    BY <2>4, <2>5, CheckedFacts
  <2>7. typed' = Extended(typed, CheckedNode, type)
    BY <2>5 DEF Typed
  <2>8. CheckedNode[1] = fn /\ CheckedNode[2] = stmt /\ CheckedNode[3] = pos
    BY DEF CheckedNode
  <2>9. ASSUME NEW n \in DOMAIN typed'
        PROVE  typed'[n] \in Known /\ typed'[n] = TypesIn(Exprs(n[1])[n[2]], Globals)[n[3]]
    <3>1. CASE n = CheckedNode
      <4>1. typed'[n] = type
        BY <2>7, <2>9, <3>1 DEF Extended
      <4> QED BY <2>4, <2>5, <2>6, <2>8, <3>1, <4>1
    <3>2. CASE n # CheckedNode
      <4>1. n \in DOMAIN typed /\ typed'[n] = typed[n]
        BY <2>7, <2>9, <3>2 DEF Extended
      <4> QED BY <4>1 DEF MeaningOK
    <3> QED BY <3>1, <3>2
  <2> QED BY <1>1, <2>9 DEF MeaningOK
<1> QED BY <1>2, <1>3

(* A return is passed when its type has been compared with that of its     *)
(* function.                                                               *)
LEMMA PassedStep ==
  ASSUME SemanticsInv, [Next]_vars, NEW f, NEW s, s <= Len(program[f].body),
         Passed(f, s)', ~Passed(f, s)
  PROVE  /\ pass = "check" /\ stmt <= Len(Body) /\ pos = Len(Body[stmt]) + 1
         /\ (IF types = <<>> THEN "void" ELSE Top) = program[fn].returns
         /\ f = fn /\ s = stmt
<1>1. program' = program /\ \A g : Exprs(g)' = Exprs(g)
  BY ProgramKept
<1>2. Passed(f, s)' /\ ~Passed(f, s) /\ s <= Len(program[f].body)
  OBVIOUS
<1>3. /\ program \in Programs /\ program \in Seq(FunctionNode) /\ fn \in DOMAIN program /\ fn \in Nat
      /\ f \in DOMAIN program /\ s \in DOMAIN Exprs(f) /\ f \in Nat /\ fn \in 1 .. Len(program)
      /\ f \in 1 .. Len(program) /\ Len(program) \in Nat
  <2>1. /\ program \in Programs /\ program \in Seq(FunctionNode) /\ fn \in DOMAIN program
        /\ f \in DOMAIN program /\ s \in DOMAIN Exprs(f)
    BY <1>1, <1>2, ProgramsAssumption DEF Passed, SemanticsInv, PlaceOK, TypeOK
  <2> QED BY <2>1
<1>4. /\ program[f].body \in Seq(Seq(Node)) /\ s \in Nat /\ s >= 1
      /\ stmt \in 1 .. Len(program[fn].body) + 1 /\ stmt \in Nat
      /\ s \in DOMAIN program[f].body
  <2>1. /\ program[f].body \in Seq(Seq(Node)) /\ DOMAIN Exprs(f) = 1 .. Len(program[f].body) + 1
        /\ program[fn].body \in Seq(Seq(Node)) /\ stmt \in 1 .. Len(program[fn].body) + 1
    BY <1>3, ProgramFacts DEF SemanticsInv, TypeOK, Body, Function
  <2>2. s \in 1 .. Len(program[f].body)
    BY <1>2, <1>3, <2>1
  <2> QED BY <2>1, <2>2
<1>5. /\ \A error : ~Fail(error)
      /\ \A mentioned : ~TypeErrorOn(mentioned)
      /\ \A type, operands : ~Typed(type, operands)
      /\ ~UNCHANGED vars
  <2>1. \A error : ~Fail(error)
    BY <1>2 DEF Fail, Passed
  <2>2. \A type, operands : ~Typed(type, operands)
    BY <1>1, <1>2, <1>3 DEF Typed, Passed
  <2>3. ~UNCHANGED vars
    BY <1>1, <1>2, <1>3 DEF vars, Passed
  <2> QED BY <2>1, <2>2, <2>3 DEF TypeErrorOn
<1>6. CASE Declare
  <2>1. pass' \in {"declare", "resolve"}
    BY <1>5, <1>6 DEF Declare, NextFunction
  <2> QED BY <1>2, <2>1 DEF Passed
<1>7. CASE ResolveSymbols
  <2>1. pass = "resolve" /\ NextFunction("check")
    BY <1>5, <1>7 DEF ResolveSymbols
  <2>2. pass' = "resolve" \/ (pass' = "check" /\ fn' = 1 /\ stmt' = 1)
    BY <2>1 DEF NextFunction
  <2>3. pass' = "check" /\ (f < 1 \/ s < 1)
    BY <1>2, <2>2 DEF Passed
  <2> QED BY <1>3, <1>4, <2>3
<1>8. CASE CheckReturn
  <2>1. /\ pass = "check" /\ stmt <= Len(Body) /\ pos = Len(Body[stmt]) + 1
        /\ (IF types = <<>> THEN "void" ELSE Top) = program[fn].returns
        /\ stmt' = stmt + 1 /\ UNCHANGED <<pass, fn>>
    BY <1>5, <1>8 DEF CheckReturn, Function
  <2>2. f = fn /\ s = stmt
    <3>1. f < fn \/ (f = fn /\ s < stmt + 1)
      <4>1. pass' = "check" /\ fn' = fn /\ stmt' = stmt + 1
        BY <2>1
      <4> QED BY <1>2, <4>1 DEF Passed
    <3>2. ~(f < fn) /\ ~(f = fn /\ s < stmt)
      BY <1>2, <1>3, <2>1 DEF Passed
    <3> QED BY <1>4, <3>1, <3>2
  <2> QED BY <2>1, <2>2
<1>9. CASE CheckLast
  <2>1. /\ pass = "check" /\ stmt = Len(program[fn].body) + 1 /\ NextFunction("emit")
    BY <1>5, <1>9 DEF CheckLast, Body, Function
  <2>2. ~(f < fn) /\ ~(f = fn /\ s < stmt)
    BY <1>2, <1>3, <2>1 DEF Passed
  <2>3. f > fn
    BY <1>2, <1>3, <1>4, <2>1, <2>2
  <2>4. pass' = "check" /\ fn' = fn + 1 /\ stmt' = 1
    BY <1>3, <2>1, <2>3 DEF NextFunction
  <2>5. f < fn + 1 \/ s < 1
    BY <1>2, <2>4 DEF Passed
  <2> QED BY <1>3, <1>4, <2>3, <2>5
<1>10. CASE Emit
  BY <1>2, <1>3, <1>10 DEF Emit, Passed
<1>11. CASE Over
  BY <1>5, <1>11 DEF Over
<1> QED BY <1>5, <1>6, <1>7, <1>8, <1>9, <1>10, <1>11
      DEF Next, Check, CheckLiteral, CheckIdentifier, CheckBinary, CheckUnary, CheckCall

LEMMA EmptyStep ==
  ASSUME SemanticsInv, MeaningOK, EmptyOK, [Next]_vars
  PROVE  EmptyOK'
<1>1. program' = program /\ \A f : Exprs(f)' = Exprs(f)
  BY ProgramKept
<1>2. ASSUME NEW f, NEW s, Passed(f, s)', s <= Len(program[f].body), Exprs(f)[s] = <<>>
      PROVE  program[f].returns = "void"
  <2>1. CASE Passed(f, s)
    BY <1>2, <2>1 DEF EmptyOK
  <2>2. CASE ~Passed(f, s)
    <3>1. /\ pass = "check" /\ stmt <= Len(Body) /\ pos = Len(Body[stmt]) + 1
          /\ (IF types = <<>> THEN "void" ELSE Top) = program[fn].returns
          /\ f = fn /\ s = stmt
      BY <1>2, <2>2, PassedStep
    <3>2. types = <<>>
      BY <1>2, <3>1, ReturnedType, Zenon
    <3> QED BY <3>1, <3>2
  <2> QED BY <2>1, <2>2
<1> QED BY <1>1, <1>2 DEF EmptyOK

LEMMA OutcomeStep ==
  ASSUME SemanticsInv, SemanticsInv', MeaningInv, [Next]_vars
  PROVE  OutcomeIsRight'
<1>1. CASE Declare \/ ResolveSymbols
  <2>1. outcome' = outcome \/ outcome' = "NameError"
    BY <1>1 DEF Declare, ResolveSymbols, NextFunction, Fail
  <2>2. outcome = "none" \/ outcome' = "NameError"
    BY <1>1 DEF Declare, ResolveSymbols, SemanticsInv
  <2> QED BY <2>1, <2>2 DEF OutcomeIsRight, SemanticsInv, NamesFirst
<1>2. CASE Check
  BY <1>2, CheckExpressionRight, CheckReturnRight, CheckLastRight DEF Check
<1>3. CASE Emit
  BY <1>3, EmitRight
<1>4. CASE Over \/ UNCHANGED vars
  <2>1. program' = program /\ outcome' = outcome
    BY <1>4 DEF Over, vars
  <2>2. /\ Distinct' = Distinct /\ NamesDefined' = NamesDefined /\ ReturnsTyped' = ReturnsTyped
        /\ Uses({"identifier", "call"}, LogicalOp)' = Uses({"identifier", "call"}, LogicalOp)
    BY <2>1 DEF Distinct, NamesDefined, ReturnsTyped, Globals, Uses
  <2> QED BY <2>1, <2>2 DEF MeaningInv, OutcomeIsRight
<1> QED BY <1>1, <1>2, <1>3, <1>4 DEF Next

(* The exit code tells what is wrong with the program, whatever functions  *)
(* it has and however large their expressions are: it is emitted only if   *)
(* every return has the type of its function by the structure of its       *)
(* expression, a type error is one, and internal errors have no other      *)
(* causes than the two that are known.                                     *)
THEOREM OutcomeAlwaysRight == Spec => []OutcomeIsRight
<1>1. Init => MeaningInv
  BY DEF Init, MeaningInv, SymbolsOK, MeaningOK, EmptyOK, Passed, OutcomeIsRight
<1>2. SemanticsInv /\ SemanticsInv' /\ MeaningInv /\ [Next]_vars => MeaningInv'
  BY SymbolsStep, MeaningStep, EmptyStep, OutcomeStep DEF MeaningInv
<1>3. MeaningInv => OutcomeIsRight
  BY DEF MeaningInv
<1> QED BY <1>1, <1>2, <1>3, SemanticsInvariance, PTL DEF Spec
=============================================================================
