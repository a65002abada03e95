---------------------------- MODULE ParserProofs ----------------------------
(***************************************************************************)
(* Proofs about Parser: what the calls that are under way have read of the *)
(* text, what of it they have returned, and what may come next.            *)
(***************************************************************************)
EXTENDS Parser, SequenceTheorems, FiniteSetTheorems, WellFoundedInduction, TLAPS

-----------------------------------------------------------------------------
(* Numbers.                                                                *)

(* A set of numbers that is not empty has a least one.                     *)
LEMMA LeastNumber ==
  ASSUME NEW T, T \subseteq Nat, T # {}
  PROVE  \E x \in T : \A y \in T : x <= y
<1> DEFINE R == {pair \in Nat \X Nat : pair[1] < pair[2]}
<1>1. IsWellFoundedOn(R, Nat)
  BY NatLessThanWellFounded DEF OpToRel
<1>2. \A p, q \in Nat : p < q => <<p, q>> \in R
  OBVIOUS
<1> HIDE DEF R
<1>3. \E x \in T : \A y \in T : ~(<<y, x>> \in R)
  BY <1>1, WFMin
<1>4. PICK x \in T : \A y \in T : ~(<<y, x>> \in R)
  BY <1>3
<1>5. \A y \in T : ~(y < x)
  BY <1>2, <1>4
<1>6. \A y \in T : x <= y
  BY <1>5
<1> QED BY <1>6

LEMMA MinFacts ==
  ASSUME NEW T, T \subseteq Nat, T # {}
  PROVE  /\ Min(T) \in T
         /\ \A y \in T : Min(T) <= y
BY LeastNumber DEF Min

LEMMA Upwards ==
  ASSUME NEW N \in Nat, NEW T, 0 \in T, \A n \in 1 .. N : n - 1 \in T => n \in T
  PROVE  0 .. N \subseteq T
<1> DEFINE Bad == {n \in 0 .. N : n \notin T}
<1>1. Bad \subseteq 0 .. N /\ Bad \subseteq Nat
  OBVIOUS
<1>2. SUFFICES ASSUME Bad # {} PROVE FALSE
  OBVIOUS
<1>3. PICK n \in Bad : \A y \in Bad : n <= y
  BY <1>1, <1>2, LeastNumber
<1>4. n \notin T /\ n # 0
  BY <1>3
<1>5. \A y \in 0 .. N : y \in T \/ y \in Bad
  OBVIOUS
<1> HIDE DEF Bad
<1>6. n \in 1 .. N /\ n - 1 \in 0 .. N /\ ~(n <= n - 1)
  BY <1>1, <1>3, <1>4
<1>7. n - 1 \in T
  BY <1>3, <1>5, <1>6
<1> QED BY <1>4, <1>6, <1>7

Recurs(g, m, base, step) ==
  g[0] = base /\ \A n \in 1 .. m : g[n] = step[n][g[n - 1]]

LEMMA Recursion ==
  ASSUME NEW N \in Nat, NEW V, NEW base \in V, NEW step \in [1 .. N -> [V -> V]]
  PROVE  \E g \in [0 .. N -> V] : Recurs(g, N, base, step)
<1> DEFINE T == {m \in 0 .. N : \E g \in [0 .. m -> V] : Recurs(g, m, base, step)}
<1>1. 0 \in T
  <2>1. Recurs([n \in 0 .. 0 |-> base], 0, base, step) /\ [n \in 0 .. 0 |-> base] \in [0 .. 0 -> V]
    BY DEF Recurs
  <2> QED BY <2>1
<1>2. ASSUME NEW m \in 1 .. N, m - 1 \in T
      PROVE  m \in T
  <2>1. PICK g \in [0 .. m - 1 -> V] : Recurs(g, m - 1, base, step)
    BY <1>2
  <2> DEFINE h == [n \in 0 .. m |-> IF n = m THEN step[m][g[m - 1]] ELSE g[n]]
  <2>2. m - 1 \in 0 .. m - 1 /\ \A n \in 0 .. m : n # m => n \in 0 .. m - 1
    OBVIOUS
  <2>3. g[m - 1] \in V /\ step[m][g[m - 1]] \in V
    BY <2>2
  <2>4. h \in [0 .. m -> V]
    BY <2>2, <2>3
  <2>5. /\ \A n \in 0 .. m - 1 : h[n] = g[n]
        /\ h[m] = step[m][g[m - 1]]
    OBVIOUS
  <2> HIDE DEF h
  <2>6. h[0] = base
    BY <2>1, <2>5 DEF Recurs
  <2>7. ASSUME NEW n \in 1 .. m
        PROVE  h[n] = step[n][h[n - 1]]
    <3>1. h[n - 1] = g[n - 1]
      BY <2>5
    <3>2. CASE n = m
      BY <2>5, <3>1, <3>2
    <3>3. CASE n # m
      <4>1. n \in 1 .. m - 1
        BY <3>3
      <4>2. h[n] = g[n]
        BY <2>5, <4>1
      <4>3. g[n] = step[n][g[n - 1]]
        BY <2>1, <4>1 DEF Recurs
      <4> QED BY <3>1, <4>2, <4>3
    <3> QED BY <3>2, <3>3
  <2>8. Recurs(h, m, base, step)
    BY <2>6, <2>7 DEF Recurs
  <2> QED BY <2>4, <2>8
<1>3. N \in T
  <2>1. 0 .. N \subseteq T
    <3> HIDE DEF T
    <3> QED BY <1>1, <1>2, Upwards
  <2> QED BY <2>1
<1> QED BY <1>3

LEMMA NumberIsNat ==
  ASSUME NEW digits \in Seq(0 .. 9), NEW base \in Nat
  PROVE  Number(digits, base) \in Nat
<1> DEFINE N == Len(digits)
           step == [n \in 1 .. N |-> [v \in Nat |-> v * base + digits[n]]]
           Sums(g) == g = [n \in 0 .. N |-> IF n = 0 THEN 0 ELSE g[n - 1] * base + digits[n]]
<1>1. N \in Nat /\ \A n \in 1 .. N : digits[n] \in Nat
  OBVIOUS
<1> HIDE DEF N
<1>2. \A v, d \in Nat : v * base + d \in Nat
  OBVIOUS
<1>3. step \in [1 .. N -> [Nat -> Nat]]
  BY <1>1, <1>2
<1>4. \E g : Sums(g)
  <2> HIDE DEF step
  <2>1. PICK g \in [0 .. N -> Nat] : Recurs(g, N, 0, step)
    BY <1>1, <1>3, Recursion
  <2>2. ASSUME NEW n \in 1 .. N PROVE g[n] = g[n - 1] * base + digits[n]
    <3>1. n - 1 \in 0 .. N
      BY <1>1
    <3>2. g[n - 1] \in Nat
      BY <3>1
    <3>3. step[n][g[n - 1]] = g[n - 1] * base + digits[n]
      BY <3>2 DEF step
    <3> QED BY <2>1, <3>3 DEF Recurs
  <2>3. \A n \in 0 .. N : n = 0 \/ n \in 1 .. N
    BY <1>1
  <2>4. \A n \in 0 .. N : g[n] = IF n = 0 THEN 0 ELSE g[n - 1] * base + digits[n]
    <3>1. g[0] = 0
      BY <2>1 DEF Recurs
    <3> QED BY <2>2, <2>3, <3>1
  <2>5. g = [n \in 0 .. N |-> g[n]]
    OBVIOUS
  <2> QED BY <2>4, <2>5
<1> DEFINE upTo == CHOOSE g : Sums(g)
<1>5. Sums(upTo)
  BY <1>4
<1>6. Number(digits, base) = upTo[N]
  BY DEF Number, N
<1> HIDE DEF upTo
<1>7. \A n \in 0 .. N : upTo[n] = IF n = 0 THEN 0 ELSE upTo[n - 1] * base + digits[n]
  BY <1>5
<1> DEFINE T == {n \in 0 .. N : upTo[n] \in Nat}
<1>8. 0 .. N \subseteq T
  <2>1. 0 \in T
    BY <1>1, <1>7
  <2>2. ASSUME NEW n \in 1 .. N, n - 1 \in T PROVE n \in T
    <3>1. upTo[n - 1] \in Nat /\ n \in 0 .. N /\ n # 0
      BY <2>2
    <3>2. upTo[n] = upTo[n - 1] * base + digits[n]
      BY <1>7, <3>1
    <3> QED BY <1>1, <1>2, <3>1, <3>2
  <2> HIDE DEF T
  <2> QED BY <1>1, <2>1, <2>2, Upwards
<1>9. N \in T
  BY <1>1, <1>8
<1> QED BY <1>6, <1>9

LEMMA UsableFacts ==
  ASSUME NEW digits \in Seq(0 .. 9), NEW base \in Nat
  PROVE  /\ Usable(digits, base) \in Seq(0 .. 9)
         /\ (\A k \in DOMAIN digits : digits[k] < base) => Usable(digits, base) = digits
<1> DEFINE beyond == {k \in DOMAIN digits : digits[k] >= base}
<1>1. DOMAIN digits = 1 .. Len(digits) /\ Len(digits) \in Nat /\ \A k \in DOMAIN digits : digits[k] \in Nat
  OBVIOUS
<1>2. Usable(digits, base) = IF beyond = {} THEN digits ELSE SubSeq(digits, 1, Min(beyond) - 1)
  BY DEF Usable
<1>3. (\A k \in DOMAIN digits : digits[k] < base) => beyond = {}
  BY <1>1
<1>4. ASSUME beyond # {} PROVE SubSeq(digits, 1, Min(beyond) - 1) \in Seq(0 .. 9)
  <2>1. beyond \subseteq 1 .. Len(digits) /\ beyond \subseteq Nat
    BY <1>1
  <2> HIDE DEF beyond
  <2>2. Min(beyond) \in 1 .. Len(digits)
    BY <1>4, <2>1, MinFacts
  <2> QED BY <1>1, <2>2
<1> HIDE DEF beyond
<1> QED BY <1>2, <1>3, <1>4

LEMMA LiteralFacts ==
  ASSUME NEW l \in Literals
  PROVE  /\ LiteralValue(l) \in 0 .. Word - 1
         /\ (\A k \in DOMAIN l.digits : l.digits[k] < l.base) /\ Number(l.digits, l.base) < Word
              => LiteralValue(l) = Number(l.digits, l.base)
<1>1. l.digits \in Seq(0 .. 9) /\ l.base \in Nat /\ Word \in Nat /\ 0 < Word
  BY LiteralsAssumption, RangesAssumption
<1>2. Number(Usable(l.digits, l.base), l.base) \in Nat /\ Number(l.digits, l.base) \in Nat
  BY <1>1, UsableFacts, NumberIsNat
<1>3. \A n \in Nat : n % Word \in 0 .. Word - 1 /\ (n < Word => n % Word = n)
  BY <1>1
<1>4. LiteralValue(l) = Number(Usable(l.digits, l.base), l.base) % Word
  BY DEF LiteralValue
<1>5. (\A k \in DOMAIN l.digits : l.digits[k] < l.base) => Usable(l.digits, l.base) = l.digits
  BY <1>1, UsableFacts
<1> QED BY <1>2, <1>3, <1>4, <1>5

-----------------------------------------------------------------------------
(* The invariant.                                                          *)

Frames == [rule : {"level", "unary", "group", "return", "body"},
           level : 0 .. 10, from : Nat, op : Nat]

(* A call that has read a token of its own.                                *)
Opened(call) == call.rule \in {"unary", "group"} \/ call.op # 0

(* Where an expression is read.                                            *)
InExpression == at \in {"operand", "postfix", "call_end", "group_end", "returned"}

(* Of one call, when len tokens have been read.                            *)
CallOK(call, first, len) ==
  /\ call.rule \in {"return", "body"} <=> first
  /\ call.op # 0 => call.rule \in {"level", "unary"}
  /\ call.rule = "unary" => call.op # 0
  /\ call.rule = "level" => call.level # 0
  /\ Opened(call) => /\ call.from >= 1 /\ call.from <= len /\ call.op <= len
                     /\ call.op # 0 => call.from <= call.op

(* A function's body or a return waits for the expression, and in it are   *)
(* unary and binary operators and parentheses.  What a call has read comes *)
(* after the operators of those that wait for it.                          *)
CallsOK(calls, len) ==
  /\ calls \in Seq(Frames) /\ Len(calls) >= 1
  /\ \A k \in 1 .. Len(calls) : CallOK(calls[k], k = 1, len)
  /\ \A k \in 1 .. Len(calls) : \A j \in 1 .. k - 1 :
       Opened(calls[k]) => calls[j].op < calls[k].from

(* A node begins after all operators that wait for it.                     *)
After(calls, from) == \A k \in 1 .. Len(calls) : calls[k].op < from

TextOK == taken \in Seq(Token) /\ ahead \in Token

StackOK ==
  /\ stack \in Seq(Frames)
  /\ InExpression => CallsOK(stack, Len(taken))
  /\ ~InExpression /\ at # "ended" => stack = <<>>
  /\ at = "group_end" => Last(stack).rule = "group"

NodeOK ==
  /\ node \in [from : Nat, to : Nat]
  /\ node # Absent => 1 <= node.from /\ node.from <= node.to /\ node.to <= Len(taken)
  /\ at \in {"postfix", "call_end"} => node # Absent
  /\ at \in {"postfix", "call_end", "returned"} /\ node # Absent => After(stack, node.from)

BuiltOK ==
  /\ built \subseteq [op : Nat, from : Nat, to : Nat]
  /\ \A n \in built : n.from <= n.op /\ n.op < n.to /\ n.to <= Len(taken)

ValuesOK ==
  /\ values \subseteq [at : DOMAIN taken, value : 0 .. Word - 1]
  /\ \A v \in values : taken[v.at] \in Literals /\ v.value = LiteralValue(taken[v.at])

Outcomes ==
  {"parsing", "Success", "SyntaxError", "TypeError", "Unimplemented", "UncaughtInternalError"}

PlaceOK == at \in Places /\ outcome \in Outcomes

ParserInv == TextOK /\ StackOK /\ NodeOK /\ BuiltOK /\ ValuesOK /\ PlaceOK

LEMMA InvIsRight == ParserInv => TypeOK /\ LiteralsKeepValue
<1> SUFFICES ASSUME ParserInv PROVE TypeOK /\ LiteralsKeepValue
  OBVIOUS
<1>1. TypeOK
  BY DEF ParserInv, TextOK, StackOK, NodeOK, BuiltOK, ValuesOK, PlaceOK, Outcomes, TypeOK, Frames
<1>2. LiteralsKeepValue
  <2>1. ASSUME NEW v \in values
        PROVE  /\ taken[v.at] \in Literals /\ v.value = LiteralValue(taken[v.at])
    BY DEF ParserInv, ValuesOK
  <2> QED BY <2>1, LiteralFacts DEF LiteralsKeepValue
<1> QED BY <1>1, <1>2

-----------------------------------------------------------------------------
(* The text.                                                               *)

LEMMA TokenFacts ==
  ASSUME ParserInv
  PROVE  /\ taken \in Seq(Token) /\ Len(taken) \in Nat /\ DOMAIN taken = 1 .. Len(taken)
         /\ Here = Len(taken) + 1
         /\ ahead.type = "INT_LITERAL" => ahead \in Literals
<1>1. ahead \in Token /\ taken \in Seq(Token)
  BY DEF ParserInv, TextOK
<1>2. ASSUME ahead.type = "INT_LITERAL" PROVE ahead \in Literals
  <2>1. ahead # EndOfFile
    BY <1>2 DEF EndOfFile
  <2>2. ahead \notin {[type |-> t] : t \in Other}
    BY <1>2, OtherAssumption
  <2> QED BY <1>1, <2>1, <2>2 DEF Token
<1> QED BY <1>1, <1>2 DEF Here

LEMMA TextKept ==
  ASSUME ParserInv, Take \/ Stay
  PROVE  /\ TextOK'
         /\ Len(taken) \in Nat /\ Len(taken') \in Nat /\ Len(taken) <= Len(taken')
         /\ \A k \in 1 .. Len(taken) : taken'[k] = taken[k]
         /\ Take => Len(taken') = Here /\ taken'[Here] = ahead
<1>1. taken \in Seq(Token) /\ ahead \in Token
  BY DEF ParserInv, TextOK
<1>2. EndOfFile \in Token
  BY DEF Token
<1>3. CASE Take
  <2>1. taken' = Append(taken, ahead) /\ ahead' \in Token
    BY <1>2, <1>3 DEF Take
  <2> QED BY <1>1, <2>1 DEF TextOK, Here
<1>4. CASE Stay /\ ~Take
  BY <1>1, <1>4 DEF Stay, TextOK
<1> QED BY <1>3, <1>4

LEMMA BuiltKept ==
  ASSUME ParserInv, Take \/ Stay
  PROVE  /\ \A n \in built : n \in [op : Nat, from : Nat, to : Nat]
                             /\ n.from <= n.op /\ n.op < n.to /\ n.to <= Len(taken')
         /\ built' = built => BuiltOK'
<1>1. Len(taken) \in Nat /\ Len(taken') \in Nat /\ Len(taken) <= Len(taken')
  BY TextKept
<1>2. \A n \in built : n \in [op : Nat, from : Nat, to : Nat]
                       /\ n.from <= n.op /\ n.op < n.to /\ n.to <= Len(taken)
  BY DEF ParserInv, BuiltOK
<1>3. \A n \in built : n.to \in Nat
  BY <1>2
<1>4. \A n \in built : n.to <= Len(taken')
  BY <1>1, <1>2, <1>3
<1> QED BY <1>2, <1>4 DEF BuiltOK

LEMMA ValuesKept ==
  ASSUME ParserInv, Take \/ Stay
  PROVE  /\ \A v \in values : /\ v \in [at : DOMAIN taken', value : 0 .. Word - 1]
                              /\ taken'[v.at] \in Literals /\ v.value = LiteralValue(taken'[v.at])
         /\ values' = values => ValuesOK'
<1>1. /\ Len(taken) \in Nat /\ Len(taken') \in Nat /\ Len(taken) <= Len(taken')
      /\ \A k \in 1 .. Len(taken) : taken'[k] = taken[k]
      /\ DOMAIN taken = 1 .. Len(taken) /\ DOMAIN taken' = 1 .. Len(taken')
  BY TextKept DEF ParserInv, TextOK
<1>2. \A v \in values : v \in [at : DOMAIN taken, value : 0 .. Word - 1]
                        /\ taken[v.at] \in Literals /\ v.value = LiteralValue(taken[v.at])
  BY DEF ParserInv, ValuesOK
<1>3. DOMAIN taken \subseteq DOMAIN taken'
  BY <1>1
<1>4. ASSUME NEW v \in values
      PROVE  /\ v \in [at : DOMAIN taken', value : 0 .. Word - 1]
             /\ taken'[v.at] \in Literals /\ v.value = LiteralValue(taken'[v.at])
  <2>1. v.at \in DOMAIN taken
    BY <1>2
  <2>2. taken'[v.at] = taken[v.at]
    BY <1>1, <2>1
  <2>3. v \in [at : DOMAIN taken', value : 0 .. Word - 1]
    BY <1>2, <1>3
  <2> QED BY <1>2, <2>2, <2>3
<1> QED BY <1>4 DEF ValuesOK

-----------------------------------------------------------------------------
(* The calls.                                                              *)

LEMMA CallsGrow ==
  ASSUME NEW len \in Nat, NEW more \in Nat, len <= more, NEW calls, CallsOK(calls, len)
  PROVE  CallsOK(calls, more)
<1>1. \A k \in 1 .. Len(calls) : calls[k] \in Frames
  BY DEF CallsOK
<1>2. ASSUME NEW k \in 1 .. Len(calls) PROVE CallOK(calls[k], k = 1, more)
  <2>1. CallOK(calls[k], k = 1, len) /\ calls[k].from \in Nat /\ calls[k].op \in Nat
    BY <1>1 DEF CallsOK, Frames
  <2>2. \A p \in Nat : p <= len => p <= more
    OBVIOUS
  <2> QED BY <2>1, <2>2 DEF CallOK
<1> QED BY <1>2 DEF CallsOK

(* A call that waits for its first operand.                                *)
LEMMA WaitingFacts ==
  ASSUME NEW level \in 1 .. 10, NEW len
  PROVE  /\ Waiting(level) \in Frames /\ CallOK(Waiting(level), FALSE, len)
         /\ ~Opened(Waiting(level)) /\ Waiting(level).op = 0
BY DEF Waiting, Frames, CallOK, Opened

LEMMA FrameFacts ==
  ASSUME ParserInv, NEW rule \in {"body", "return"}, NEW len
  PROVE  /\ CallsOK(<<Frame(rule)>>, len)
         /\ ~Opened(Frame(rule))
<1>1. Frame(rule) \in Frames
  BY TokenFacts DEF Frame, Frames
<1>2. /\ Frame(rule).rule = rule /\ Frame(rule).op = 0
  BY DEF Frame
<1> DEFINE f == Frame(rule)
<1> HIDE DEF f
<1>3. f \in Frames /\ f.rule = rule /\ f.op = 0
  BY <1>1, <1>2 DEF f
<1>4. CallOK(f, TRUE, len) /\ ~Opened(f)
  BY <1>3 DEF CallOK, Opened
<1> DEFINE calls == <<f>>
<1>5. calls \in Seq(Frames) /\ Len(calls) = 1 /\ calls[1] = f
  BY <1>3
<1> HIDE DEF calls
<1>6. CallsOK(calls, len)
  <2>1. ASSUME NEW k \in 1 .. Len(calls) PROVE CallOK(calls[k], k = 1, len)
    <3>1. k = 1 /\ (k = 1) = TRUE
      BY <1>5
    <3> QED BY <1>4, <1>5, <3>1
  <2>2. \A k \in 1 .. Len(calls) : \A j \in 1 .. k - 1 :
          Opened(calls[k]) => calls[j].op < calls[k].from
    BY <1>5
  <2> QED BY <1>5, <2>1, <2>2 DEF CallsOK
<1> QED BY <1>4, <1>6 DEF f, calls

(* Without the last one.                                                   *)
LEMMA FrontFacts ==
  ASSUME NEW S, NEW s \in Seq(S), Len(s) >= 2
  PROVE  /\ Front(s) \in Seq(S) /\ Len(Front(s)) = Len(s) - 1
         /\ \A k \in 1 .. Len(s) - 1 : Front(s)[k] = s[k]
BY DEF Front

(* A sequence given by its elements.                                       *)
LEMMA TabulatedFacts ==
  ASSUME NEW S, NEW m \in Nat, NEW f \in [1 .. m -> S]
  PROVE  f \in Seq(S) /\ Len(f) = m
OBVIOUS

LEMMA PushFacts ==
  ASSUME NEW len \in Nat, NEW calls, CallsOK(calls, len),
         NEW call \in Frames, CallOK(call, FALSE, len), Opened(call) => After(calls, call.from)
  PROVE  /\ CallsOK(Append(calls, call), len)
         /\ \A from \in Nat : After(calls, from) /\ call.op < from => After(Append(calls, call), from)
<1> DEFINE all == Append(calls, call)
           n == Len(calls)
<1>1. calls \in Seq(Frames) /\ n \in Nat /\ n >= 1
  BY DEF CallsOK
<1>2. /\ all \in Seq(Frames) /\ Len(all) = n + 1 /\ all[n + 1] = call
      /\ \A k \in 1 .. n : all[k] = calls[k]
  BY <1>1
<1>3. \A k \in 1 .. n + 1 : k \in 1 .. n \/ k = n + 1
  BY <1>1
<1> HIDE DEF all
<1>4. ASSUME NEW k \in 1 .. n + 1 PROVE CallOK(all[k], k = 1, len)
  <2>1. CASE k \in 1 .. n
    BY <1>2, <2>1 DEF CallsOK
  <2>2. CASE k = n + 1
    <3>1. (k = 1) = FALSE
      BY <1>1, <2>2
    <3> QED BY <1>2, <2>2, <3>1
  <2> QED BY <1>3, <2>1, <2>2
<1>5. ASSUME NEW k \in 1 .. n + 1, NEW j \in 1 .. k - 1, Opened(all[k])
      PROVE  all[j].op < all[k].from
  <2>1. j \in 1 .. n /\ all[j] = calls[j]
    BY <1>1, <1>2
  <2>2. CASE k \in 1 .. n
    BY <1>2, <1>5, <2>1, <2>2 DEF CallsOK
  <2>3. CASE k = n + 1
    BY <1>2, <1>5, <2>1, <2>3 DEF After
  <2> QED BY <1>3, <2>2, <2>3
<1>6. CallsOK(all, len)
  BY <1>1, <1>2, <1>4, <1>5 DEF CallsOK
<1>7. ASSUME NEW from \in Nat, After(calls, from), call.op < from PROVE After(all, from)
  BY <1>2, <1>3, <1>7 DEF After
<1> QED BY <1>6, <1>7 DEF all

LEMMA PopFacts ==
  ASSUME NEW len \in Nat, NEW calls, CallsOK(calls, len),
         Last(calls).rule \notin {"return", "body"}
  PROVE  /\ CallsOK(Front(calls), len)
         /\ Opened(Last(calls)) => After(Front(calls), Last(calls).from)
         /\ \A from : After(calls, from) => After(Front(calls), from) /\ Last(calls).op < from
<1> DEFINE n == Len(calls)
           rest == Front(calls)
           call == Last(calls)
<1>1. calls \in Seq(Frames) /\ n \in Nat /\ n >= 1 /\ call = calls[n] /\ n \in 1 .. n
  BY DEF CallsOK, Last
<1>2. n # 1
  <2>1. CallOK(calls[n], n = 1, len)
    BY <1>1 DEF CallsOK
  <2> QED BY <1>1, <2>1 DEF CallOK
<1>3. rest \in Seq(Frames) /\ Len(rest) = n - 1 /\ \A k \in 1 .. n - 1 : rest[k] = calls[k]
  <2>1. \A q \in Nat : q >= 1 /\ q # 1 => q >= 2
    OBVIOUS
  <2>2. Len(calls) >= 2
    BY <1>1, <1>2, <2>1, Zenon
  <2> QED BY <1>1, <2>2, FrontFacts
<1>4. /\ \A k \in 1 .. n : CallOK(calls[k], k = 1, len)
      /\ \A k \in 1 .. n : \A j \in 1 .. k - 1 : Opened(calls[k]) => calls[j].op < calls[k].from
  BY DEF CallsOK
<1> HIDE DEF rest, call, n
<1>5. n - 1 >= 1 /\ \A k \in 1 .. n - 1 : k \in 1 .. n
  BY <1>1, <1>2
<1>6. CallsOK(rest, len)
  <2>1. ASSUME NEW k \in 1 .. n - 1 PROVE CallOK(rest[k], k = 1, len)
    BY <1>3, <1>4, <1>5
  <2>2. ASSUME NEW k \in 1 .. n - 1, NEW j \in 1 .. k - 1, Opened(rest[k])
        PROVE  rest[j].op < rest[k].from
    <3>1. k \in 1 .. n /\ j \in 1 .. n - 1
      BY <1>1
    <3> QED BY <1>3, <1>4, <2>2, <3>1
  <2> QED BY <1>3, <1>5, <2>1, <2>2 DEF CallsOK
<1>7. Opened(call) => After(rest, call.from)
  BY <1>1, <1>3, <1>4 DEF After
<1>8. ASSUME NEW from, After(calls, from) PROVE After(rest, from) /\ call.op < from
  <2>1. \A k \in 1 .. n : calls[k].op < from
    BY <1>8 DEF After, n
  <2> QED BY <1>1, <1>3, <1>5, <2>1 DEF After
<1> QED BY <1>6, <1>7, <1>8 DEF rest, call

(* The calls of all levels from one on.                                    *)
LEMMA DescentFacts ==
  ASSUME NEW len \in Nat, NEW calls, CallsOK(calls, len), NEW level \in 1 .. 11
  PROVE  CallsOK(calls \o [k \in 1 .. 11 - level |-> Waiting(level + k - 1)], len)
<1> DEFINE waits == [k \in 1 .. 11 - level |-> Waiting(level + k - 1)]
           all == calls \o waits
           n == Len(calls)
           m == 11 - level
<1>1. calls \in Seq(Frames) /\ n \in Nat /\ n >= 1 /\ m \in Nat
  BY DEF CallsOK
<1>2. ASSUME NEW k \in 1 .. m PROVE level + k - 1 \in 1 .. 10
  OBVIOUS
<1>3. \A k \in 1 .. m : /\ waits[k] \in Frames /\ CallOK(waits[k], FALSE, len)
                        /\ ~Opened(waits[k])
  BY <1>2, WaitingFacts
<1>4. waits \in Seq(Frames) /\ Len(waits) = m
  <2>1. waits \in [1 .. m -> Frames]
    BY <1>3
  <2> HIDE DEF waits, m
  <2> QED BY <1>1, <2>1, TabulatedFacts
<1> HIDE DEF waits, m
<1>5. /\ all \in Seq(Frames) /\ Len(all) = n + m
      /\ \A k \in 1 .. n : all[k] = calls[k]
      /\ \A k \in n + 1 .. n + m : all[k] = waits[k - n]
  BY <1>1, <1>4
<1> HIDE DEF all
<1>6. \A k \in 1 .. n + m : k \in 1 .. n \/ (k \in n + 1 .. n + m /\ k - n \in 1 .. m /\ k # 1)
  BY <1>1
<1>7. ASSUME NEW k \in 1 .. n + m PROVE CallOK(all[k], k = 1, len)
  <2>1. CASE k \in 1 .. n
    BY <1>5, <2>1 DEF CallsOK
  <2>2. CASE k \in n + 1 .. n + m /\ k - n \in 1 .. m /\ k # 1
    <3>1. (k = 1) = FALSE
      BY <2>2
    <3> QED BY <1>3, <1>5, <2>2, <3>1
  <2> QED BY <1>6, <2>1, <2>2
<1>8. ASSUME NEW k \in 1 .. n + m, NEW j \in 1 .. k - 1, Opened(all[k])
      PROVE  all[j].op < all[k].from
  <2>1. CASE k \in 1 .. n
    <3>1. j \in 1 .. n
      BY <1>1, <2>1
    <3> QED BY <1>5, <1>8, <2>1, <3>1 DEF CallsOK
  <2>2. CASE k \in n + 1 .. n + m /\ k - n \in 1 .. m
    BY <1>3, <1>5, <1>8, <2>2
  <2> QED BY <1>6, <2>1, <2>2
<1>9. CallsOK(all, len)
  BY <1>1, <1>5, <1>7, <1>8 DEF CallsOK
<1> QED BY <1>9 DEF all, waits, m

-----------------------------------------------------------------------------
(* What all steps have in common.                                          *)

(* The parser fails: nothing of what it has read changes.                  *)
LEMMA FailKeeps ==
  ASSUME ParserInv, NEW error \in Outcomes, Fail(error)
  PROVE  ParserInv'
<1>1. /\ outcome' = error /\ at' = "ended"
      /\ UNCHANGED <<taken, ahead, stack, node, built, values>>
  BY DEF Fail
<1>2. TextOK' /\ BuiltOK' /\ ValuesOK'
  BY <1>1 DEF ParserInv, TextOK, BuiltOK, ValuesOK
<1>3. PlaceOK'
  BY <1>1 DEF ParserInv, PlaceOK, Places
<1>4. StackOK'
  BY <1>1 DEF ParserInv, StackOK, InExpression
<1>5. NodeOK'
  BY <1>1 DEF ParserInv, NodeOK
<1> QED BY <1>2, <1>3, <1>4, <1>5 DEF ParserInv

LEMMA UnexpectedIsOutcome == \A type : UnexpectedToken(type) \in Outcomes
BY DEF UnexpectedToken, Outcomes

(* The node stays what it was, where nothing looks at it.                  *)
LEMMA NodeKept ==
  ASSUME ParserInv, Take \/ Stay, node' = node,
         at' \notin {"postfix", "call_end", "returned"}
  PROVE  NodeOK'
<1>1. Len(taken) \in Nat /\ Len(taken') \in Nat /\ Len(taken) <= Len(taken')
  BY TextKept
<1>2. /\ node \in [from : Nat, to : Nat]
      /\ node # Absent => 1 <= node.from /\ node.from <= node.to /\ node.to <= Len(taken)
  BY DEF ParserInv, NodeOK
<1>3. node # Absent => node.to <= Len(taken')
  <2>1. node.to \in Nat
    BY <1>2
  <2> QED BY <1>1, <1>2, <2>1
<1> QED BY <1>2, <1>3 DEF NodeOK, Absent

(* A step between two places outside expressions.                          *)
LEMMA OutsideKeeps ==
  ASSUME ParserInv, Take \/ Stay, UNCHANGED <<stack, node, built, values>>,
         ~InExpression, at # "ended", ~InExpression', at' \in Places, outcome' \in Outcomes
  PROVE  ParserInv'
<1>1. TextOK' /\ BuiltOK' /\ ValuesOK'
  BY TextKept, BuiltKept, ValuesKept
<1>2. stack = <<>> /\ stack' = <<>>
  BY DEF ParserInv, StackOK
<1>3. StackOK'
  <2>1. stack' \in Seq(Frames)
    BY <1>2
  <2>2. at' # "group_end"
    BY DEF InExpression
  <2> QED BY <1>2, <2>1, <2>2 DEF StackOK
<1>4. NodeOK'
  BY NodeKept DEF InExpression
<1>5. PlaceOK'
  BY DEF PlaceOK, Outcomes
<1> QED BY <1>1, <1>3, <1>4, <1>5 DEF ParserInv

(* A step into an expression or inside one.                                *)
LEMMA ReadingKeeps ==
  ASSUME ParserInv, Take \/ Stay, CallsOK(stack', Len(taken')),
         InExpression', at' = "group_end" => Last(stack').rule = "group",
         outcome' = outcome, NodeOK', BuiltOK', ValuesOK'
  PROVE  ParserInv'
<1>1. TextOK'
  BY TextKept
<1>2. StackOK'
  BY DEF StackOK, CallsOK, InExpression
<1>3. PlaceOK'
  BY DEF ParserInv, PlaceOK, InExpression, Places
<1> QED BY <1>1, <1>2, <1>3 DEF ParserInv

(* The descent through the levels of operators.                            *)
LEMMA CallKeeps ==
  ASSUME ParserInv, Take \/ Stay, NEW calls, CallsOK(calls, Len(taken')),
         NEW level \in 1 .. 11, Call(calls, level), NodeOK', BuiltOK', ValuesOK'
  PROVE  ParserInv'
<1>1. /\ stack' = calls \o [k \in 1 .. 11 - level |-> Waiting(level + k - 1)]
      /\ at' = "operand" /\ outcome' = outcome
  BY DEF Call, GoTo
<1>2. Len(taken') \in Nat
  BY TextKept
<1>3. CallsOK(stack', Len(taken'))
  BY <1>1, <1>2, DescentFacts
<1>4. InExpression'
  BY <1>1 DEF InExpression
<1> QED BY <1>1, <1>3, <1>4, ReadingKeeps

(* All operators that wait have been read.                                 *)
LEMMA WaitingOperators ==
  ASSUME NEW len \in Nat, NEW calls, CallsOK(calls, len)
  PROVE  After(calls, len + 1)
<1>1. ASSUME NEW k \in 1 .. Len(calls) PROVE calls[k].op < len + 1
  <2>1. calls[k] \in Frames /\ CallOK(calls[k], k = 1, len)
    BY DEF CallsOK
  <2>2. calls[k].op \in Nat /\ (calls[k].op # 0 => calls[k].op <= len)
    BY <2>1 DEF Frames, CallOK, Opened
  <2> QED BY <2>2
<1> QED BY <1>1 DEF After

-----------------------------------------------------------------------------
(* Outside expressions.                                                    *)

LEMMA TopLevelKeeps ==
  ASSUME ParserInv, TopLevel
  PROVE  ParserInv'
<1>1. at = "top" /\ (Take \/ Stay) /\ at' \in {"name", "end"} /\ outcome' = outcome
  BY DEF TopLevel, GoTo
<1>2. UNCHANGED <<stack, node, built, values>>
  BY DEF TopLevel
<1>3. outcome' \in Outcomes
  BY <1>1 DEF ParserInv, PlaceOK, Outcomes
<1>4. at' \in Places /\ ~InExpression /\ ~InExpression' /\ at # "ended"
  BY <1>1 DEF InExpression, Places, Expected
<1> QED BY <1>1, <1>2, <1>3, <1>4, OutsideKeeps

LEMMA ArgumentsKeeps ==
  ASSUME ParserInv, Arguments
  PROVE  ParserInv'
<1>1. at = "args" /\ (Take \/ Stay) /\ at' \in {"colon", "arrow"} /\ outcome' = outcome
  BY DEF Arguments, GoTo
<1>2. UNCHANGED <<stack, node, built, values>>
  BY DEF Arguments
<1>3. outcome' \in Outcomes
  BY <1>1 DEF ParserInv, PlaceOK, Outcomes
<1>4. at' \in Places /\ ~InExpression /\ ~InExpression' /\ at # "ended"
  BY <1>1 DEF InExpression, Places, Expected
<1> QED BY <1>1, <1>2, <1>3, <1>4, OutsideKeeps

LEMMA ReturnTypeKeeps ==
  ASSUME ParserInv, ReturnType
  PROVE  ParserInv'
<1>1. at = "arrow" /\ (Take \/ Stay) /\ at' \in {"type", "open"} /\ outcome' = outcome
  BY DEF ReturnType, GoTo
<1>2. UNCHANGED <<stack, node, built, values>>
  BY DEF ReturnType
<1>3. outcome' \in Outcomes
  BY <1>1 DEF ParserInv, PlaceOK, Outcomes
<1>4. at' \in Places /\ ~InExpression /\ ~InExpression' /\ at # "ended"
  BY <1>1 DEF InExpression, Places, Expected
<1> QED BY <1>1, <1>2, <1>3, <1>4, OutsideKeeps

LEMMA ExpectKeeps ==
  ASSUME ParserInv, Expect
  PROVE  ParserInv'
<1>1. CASE Fail(UnexpectedToken(ahead.type))
  BY <1>1, UnexpectedIsOutcome, FailKeeps
<1>2. CASE /\ at \in DOMAIN Expected /\ Take /\ at' = Follows[at]
           /\ outcome' = (IF at = "end" THEN "Success" ELSE outcome)
           /\ UNCHANGED <<stack, node, built, values>>
  <2>1. outcome' \in Outcomes
    BY <1>2 DEF ParserInv, PlaceOK, Outcomes
  <2>2. at \in {"name", "l_paren", "colon", "type", "open", "close", "return_end", "end"}
    BY <1>2 DEF Expected
  <2>3. at' \in {"l_paren", "args", "type", "open", "body", "top", "ended"}
    BY <1>2, <2>2 DEF Follows
  <2>4. at' \in Places /\ ~InExpression /\ ~InExpression' /\ at # "ended"
    BY <2>2, <2>3 DEF InExpression, Places, Expected
  <2> QED BY <1>2, <2>1, <2>4, OutsideKeeps
<1> QED BY <1>1, <1>2 DEF Expect

(* The call of an expression, from a body or from a return.                *)
LEMMA EnterKeeps ==
  ASSUME ParserInv, Stay, NEW rule \in {"body", "return"}, Call(<<Frame(rule)>>, 1),
         UNCHANGED <<node, built, values>>
  PROVE  ParserInv'
<1>1. at' = "operand"
  BY DEF Call, GoTo
<1>2. CallsOK(<<Frame(rule)>>, Len(taken'))
  BY FrameFacts
<1>3. NodeOK' /\ BuiltOK' /\ ValuesOK'
  BY <1>1, NodeKept, BuiltKept, ValuesKept
<1> QED BY <1>2, <1>3, CallKeeps

LEMMA StatementKeeps ==
  ASSUME ParserInv, Statement
  PROVE  ParserInv'
<1>1. UNCHANGED <<node, built, values>> /\ at = "body"
  BY DEF Statement
<1>2. CASE Take /\ GoTo("return_value") /\ UNCHANGED stack
  <2>1. outcome' \in Outcomes /\ at' = "return_value"
    BY <1>2 DEF GoTo, ParserInv, PlaceOK, Outcomes
  <2>2. at' \in Places /\ ~InExpression /\ ~InExpression' /\ at # "ended"
    BY <1>1, <2>1 DEF InExpression, Places
  <2> QED BY <1>1, <1>2, <2>1, <2>2, OutsideKeeps
<1>3. CASE Stay /\ Call(<<Frame("body")>>, 1)
  BY <1>1, <1>3, EnterKeeps
<1> QED BY <1>2, <1>3 DEF Statement

LEMMA ReturnValueKeeps ==
  ASSUME ParserInv, ReturnValue
  PROVE  ParserInv'
<1>1. UNCHANGED <<node, built, values>> /\ at = "return_value"
  BY DEF ReturnValue
<1>2. CASE Take /\ GoTo("body") /\ UNCHANGED stack
  <2>1. outcome' \in Outcomes /\ at' = "body"
    BY <1>2 DEF GoTo, ParserInv, PlaceOK, Outcomes
  <2>2. at' \in Places /\ ~InExpression /\ ~InExpression' /\ at # "ended"
    BY <1>1, <2>1 DEF InExpression, Places
  <2> QED BY <1>1, <1>2, <2>1, <2>2, OutsideKeeps
<1>3. CASE Stay /\ Call(<<Frame("return")>>, 1)
  BY <1>1, <1>3, EnterKeeps
<1> QED BY <1>2, <1>3 DEF ReturnValue

-----------------------------------------------------------------------------
(* Operands.                                                               *)

(* A call that begins with the token that is taken is put on the stack.    *)
LEMMA OpenFacts ==
  ASSUME ParserInv, InExpression, Take, NEW call \in Frames,
         call.rule \in {"unary", "group"}, call.from = Here,
         call.op = IF call.rule = "unary" THEN Here ELSE 0
  PROVE  CallsOK(Append(stack, call), Len(taken'))
<1>1. Len(taken) \in Nat /\ Len(taken') = Len(taken) + 1 /\ Here = Len(taken) + 1
  BY TextKept DEF Here
<1>2. CallsOK(stack, Len(taken))
  BY DEF ParserInv, StackOK
<1>3. CallsOK(stack, Len(taken'))
  BY <1>1, <1>2, CallsGrow
<1>4. After(stack, call.from)
  BY <1>1, <1>2, WaitingOperators
<1>5. Here \in Nat /\ Here >= 1 /\ Here <= Len(taken')
  BY <1>1
<1>6. call.op = Here \/ call.op = 0
  OBVIOUS
<1>7. call.rule = "unary" => call.op # 0
  BY <1>5
<1>8. CallOK(call, FALSE, Len(taken'))
  BY <1>5, <1>6, <1>7 DEF CallOK, Opened
<1>9. Len(taken') \in Nat
  BY <1>1
<1> QED BY <1>3, <1>4, <1>8, <1>9, PushFacts

(* An operand of one token.                                                *)
LEMMA AtomKeeps ==
  ASSUME ParserInv, at = "operand", NEW value, Atom(value), ValuesOK'
  PROVE  ParserInv'
<1>1. /\ node' = [from |-> Here, to |-> Here] /\ Take /\ at' = "postfix"
      /\ outcome' = outcome /\ stack' = stack /\ built' = built
  BY DEF Atom, GoTo
<1>2. Len(taken) \in Nat /\ Len(taken') = Len(taken) + 1 /\ Here = Len(taken) + 1
  BY <1>1, TextKept DEF Here
<1>3. CallsOK(stack, Len(taken)) /\ InExpression'
  BY <1>1 DEF ParserInv, StackOK, InExpression
<1>4. CallsOK(stack', Len(taken'))
  BY <1>1, <1>2, <1>3, CallsGrow
<1>5. After(stack', Here)
  BY <1>1, <1>2, <1>3, WaitingOperators
<1>6. NodeOK'
  <2>1. Here \in Nat /\ 1 <= Here /\ Here <= Len(taken')
    BY <1>2
  <2>2. /\ node' \in [from : Nat, to : Nat] /\ node'.from = Here /\ node'.to = Here
        /\ node' # Absent
    BY <1>1, <2>1 DEF Absent
  <2> QED BY <1>5, <2>1, <2>2 DEF NodeOK, Absent
<1>7. BuiltOK'
  BY <1>1, BuiltKept
<1> QED BY <1>1, <1>3, <1>4, <1>6, <1>7, ReadingKeeps

LEMMA OperandKeeps ==
  ASSUME ParserInv, Operand
  PROVE  ParserInv'
<1>1. at = "operand" /\ InExpression
  BY DEF Operand, InExpression
<1>2. Here \in Nat /\ Len(taken) \in Nat /\ Here = Len(taken) + 1
  BY TokenFacts
<1>3. CallsOK(stack, Len(taken))
  BY <1>1 DEF ParserInv, StackOK
<1>4. CASE /\ stack' = Append(stack, [Frame("unary") EXCEPT !.op = Here])
           /\ Take /\ GoTo("operand") /\ UNCHANGED <<node, built, values>>
  <2> DEFINE call == [Frame("unary") EXCEPT !.op = Here]
  <2>1. call \in Frames /\ call.rule = "unary" /\ call.from = Here /\ call.op = Here
    BY <1>2 DEF Frame, Frames
  <2> HIDE DEF call
  <2>2. CallsOK(Append(stack, call), Len(taken'))
    BY <1>1, <1>4, <2>1, OpenFacts
  <2>3. CallsOK(stack', Len(taken'))
    BY <1>4, <2>2 DEF call
  <2>4. at' = "operand" /\ outcome' = outcome /\ InExpression'
    BY <1>4 DEF GoTo, InExpression
  <2>5. NodeOK' /\ BuiltOK' /\ ValuesOK'
    BY <1>4, <2>4, NodeKept, BuiltKept, ValuesKept
  <2> QED BY <1>4, <2>3, <2>4, <2>5, ReadingKeeps
<1>5. CASE Atom(values)
  <2>1. ValuesOK'
    BY <1>5, ValuesKept DEF Atom
  <2> QED BY <1>1, <1>5, <2>1, AtomKeeps
<1>6. CASE /\ ahead.type = "INT_LITERAL"
           /\ Atom(values \cup {[at |-> Here, value |-> LiteralValue(ahead)]})
  <2>1. ahead \in Literals
    BY <1>6, TokenFacts
  <2>2. Take /\ values' = values \cup {[at |-> Here, value |-> LiteralValue(ahead)]}
    BY <1>6 DEF Atom
  <2>3. \A v \in values : /\ v \in [at : DOMAIN taken', value : 0 .. Word - 1]
                          /\ taken'[v.at] \in Literals /\ v.value = LiteralValue(taken'[v.at])
    BY <2>2, ValuesKept
  <2> DEFINE new == [at |-> Here, value |-> LiteralValue(ahead)]
  <2>4. Here \in DOMAIN taken' /\ taken'[Here] = ahead
    <3>1. taken' \in Seq(Token) /\ Len(taken') = Here /\ taken'[Here] = ahead
      BY <2>2, TextKept DEF TextOK
    <3>2. Here \in 1 .. Len(taken') /\ DOMAIN taken' = 1 .. Len(taken')
      BY <1>2, <3>1
    <3> QED BY <3>1, <3>2
  <2>5. LiteralValue(ahead) \in 0 .. Word - 1
    BY <2>1, LiteralFacts
  <2>6. new.at = Here /\ new.value = LiteralValue(ahead)
    OBVIOUS
  <2>7. new \in [at : DOMAIN taken', value : 0 .. Word - 1]
    BY <2>4, <2>5
  <2> HIDE DEF new
  <2>8. \A v \in values' : v \in values \/ v = new
    BY <2>2 DEF new
  <2>9. \A v \in values' : /\ v \in [at : DOMAIN taken', value : 0 .. Word - 1]
                           /\ taken'[v.at] \in Literals /\ v.value = LiteralValue(taken'[v.at])
    BY <2>1, <2>3, <2>4, <2>6, <2>7, <2>8
  <2>10. ValuesOK'
    BY <2>9 DEF ValuesOK
  <2> QED BY <1>1, <1>6, <2>10, AtomKeeps
<1>7. CASE ahead.type = "INT_LITERAL" /\ Fail(LiteralError(ahead)) /\ LiteralError(ahead) # "none"
  <2>1. LiteralError(ahead) \in Outcomes
    BY <1>7 DEF LiteralError, Outcomes
  <2> QED BY <1>7, <2>1, FailKeeps
<1>8. CASE /\ Call(Append(stack, Frame("group")), 1) /\ Take
           /\ UNCHANGED <<node, built, values>>
  <2>1. /\ Frame("group") \in Frames /\ Frame("group").rule = "group"
        /\ Frame("group").from = Here /\ Frame("group").op = 0
    BY <1>2 DEF Frame, Frames
  <2>2. CallsOK(Append(stack, Frame("group")), Len(taken'))
    BY <1>1, <1>8, <2>1, OpenFacts
  <2>3. at' = "operand"
    BY <1>8 DEF Call, GoTo
  <2>4. NodeOK' /\ BuiltOK' /\ ValuesOK'
    BY <1>8, <2>3, NodeKept, BuiltKept, ValuesKept
  <2> QED BY <1>8, <2>2, <2>4, CallKeeps
<1>9. CASE /\ node' = Absent /\ Stay /\ GoTo("returned")
           /\ UNCHANGED <<stack, built, values>>
  <2>1. at' = "returned" /\ outcome' = outcome /\ InExpression'
    BY <1>9 DEF GoTo, InExpression
  <2>2. NodeOK'
    BY <1>9, <2>1 DEF NodeOK, Absent
  <2>3. BuiltOK' /\ ValuesOK'
    BY <1>9, BuiltKept, ValuesKept
  <2>4. CallsOK(stack', Len(taken'))
    BY <1>3, <1>9 DEF Stay
  <2> QED BY <1>9, <2>1, <2>2, <2>3, <2>4, ReadingKeeps
<1> QED BY <1>4, <1>5, <1>6, <1>7, <1>8, <1>9 DEF Operand

-----------------------------------------------------------------------------
(* What comes after an operand.                                            *)

(* What is known where an operand or an expression has been read.          *)
LEMMA OperandFacts ==
  ASSUME ParserInv, InExpression
  PROVE  /\ Len(taken) \in Nat /\ Here = Len(taken) + 1 /\ CallsOK(stack, Len(taken))
         /\ node \in [from : Nat, to : Nat]
         /\ node # Absent => 1 <= node.from /\ node.from <= node.to /\ node.to <= Len(taken)
         /\ at \in {"postfix", "call_end", "returned"} /\ node # Absent => After(stack, node.from)
         /\ Last(stack) \in Frames /\ CallOK(Last(stack), Len(stack) = 1, Len(taken))
<1>1. CallsOK(stack, Len(taken))
  BY DEF ParserInv, StackOK
<1>2. Last(stack) \in Frames /\ CallOK(Last(stack), Len(stack) = 1, Len(taken))
  <2>1. stack \in Seq(Frames) /\ Len(stack) \in 1 .. Len(stack) /\ Last(stack) = stack[Len(stack)]
    BY <1>1 DEF CallsOK, Last
  <2>2. CallOK(stack[Len(stack)], Len(stack) = 1, Len(taken))
    BY <1>1, <2>1, Zenon DEF CallsOK
  <2>3. stack[Len(stack)] \in Frames
    BY <2>1
  <2> QED BY <2>1, <2>2, <2>3, Zenon
<1> QED BY <1>1, <1>2, TokenFacts DEF ParserInv, NodeOK

LEMMA PostfixKeeps ==
  ASSUME ParserInv, Postfix
  PROVE  ParserInv'
<1>1. /\ at = "postfix" /\ (Take \/ Stay) /\ at' \in {"call_end", "returned"}
      /\ outcome' = outcome /\ UNCHANGED <<stack, node, built, values>>
  BY DEF Postfix, GoTo
<1>2. InExpression /\ InExpression'
  BY <1>1 DEF InExpression
<1>3. Len(taken) \in Nat /\ Len(taken') \in Nat /\ Len(taken) <= Len(taken')
  BY <1>1, TextKept
<1>4. CallsOK(stack', Len(taken'))
  BY <1>1, <1>2, <1>3, OperandFacts, CallsGrow
<1>5. NodeOK'
  <2>1. node \in [from : Nat, to : Nat] /\ node # Absent
    BY <1>1 DEF ParserInv, NodeOK
  <2>2. 1 <= node.from /\ node.from <= node.to /\ node.to <= Len(taken) /\ After(stack, node.from)
    BY <1>1, <1>2, <2>1, OperandFacts
  <2>3. node.to <= Len(taken')
    BY <1>3, <2>1, <2>2
  <2> QED BY <1>1, <2>1, <2>2, <2>3 DEF NodeOK, Absent
<1>6. BuiltOK' /\ ValuesOK'
  BY <1>1, BuiltKept, ValuesKept
<1> QED BY <1>1, <1>2, <1>4, <1>5, <1>6, ReadingKeeps

LEMMA CallEndKeeps ==
  ASSUME ParserInv, CallEnd
  PROVE  ParserInv'
<1>1. CASE Fail(UnexpectedToken(ahead.type))
  BY <1>1, UnexpectedIsOutcome, FailKeeps
<1>2. CASE /\ node' = [node EXCEPT !.to = Here] /\ Take /\ GoTo("returned")
           /\ UNCHANGED <<stack, built, values>>
  <2>1. at = "call_end" /\ at' = "returned" /\ outcome' = outcome /\ InExpression /\ InExpression'
    BY <1>2 DEF CallEnd, GoTo, InExpression
  <2>2. /\ Len(taken) \in Nat /\ Len(taken') = Len(taken) + 1 /\ Here = Len(taken) + 1
        /\ Len(taken) <= Len(taken')
    BY <1>2, TextKept DEF Here
  <2>3. CallsOK(stack', Len(taken'))
    <3>1. CallsOK(stack, Len(taken)) /\ Len(taken') \in Nat
      BY <2>1, <2>2, OperandFacts
    <3> QED BY <1>2, <2>2, <3>1, CallsGrow
  <2>4. NodeOK'
    <3>1. node \in [from : Nat, to : Nat] /\ node # Absent
      BY <2>1 DEF ParserInv, NodeOK
    <3>2. 1 <= node.from /\ node.from <= node.to /\ node.to <= Len(taken) /\ After(stack, node.from)
      BY <2>1, <3>1, OperandFacts
    <3>3. node' \in [from : Nat, to : Nat] /\ node'.from = node.from /\ node'.to = Here
      BY <1>2, <2>2, <3>1
    <3>4. node'.from <= node'.to /\ node'.to <= Len(taken')
      BY <2>2, <3>1, <3>2, <3>3
    <3>5. node' # Absent
      BY <3>1, <3>2, <3>3 DEF Absent
    <3> QED BY <1>2, <3>2, <3>3, <3>4, <3>5 DEF NodeOK, Absent
  <2>5. BuiltOK' /\ ValuesOK'
    BY <1>2, BuiltKept, ValuesKept
  <2> QED BY <1>2, <2>1, <2>3, <2>4, <2>5, ReadingKeeps
<1> QED BY <1>1, <1>2 DEF CallEnd

(* A call that has read its operand returns a node to the one below it.    *)
LEMMA ReturnKeeps ==
  ASSUME ParserInv, InExpression, Take \/ Stay, Pop, Last(stack).rule \notin {"return", "body"},
         at' \in {"postfix", "returned"}, outcome' = outcome,
         node' \in [from : Nat, to : Nat],
         node' # Absent => /\ 1 <= node'.from /\ node'.from <= node'.to /\ node'.to <= Len(taken')
                           /\ After(stack', node'.from),
         at' = "postfix" => node' # Absent,
         BuiltOK', ValuesOK'
  PROVE  ParserInv'
<1>1. Len(taken) \in Nat /\ Len(taken') \in Nat /\ Len(taken) <= Len(taken')
  BY TextKept
<1>2. CallsOK(Front(stack), Len(taken))
  BY <1>1, OperandFacts, PopFacts
<1>3. CallsOK(stack', Len(taken')) /\ InExpression'
  BY <1>1, <1>2, CallsGrow DEF Pop, InExpression
<1>4. NodeOK'
  BY DEF NodeOK, Absent
<1> QED BY <1>3, <1>4, ReadingKeeps

LEMMA GroupEndKeeps ==
  ASSUME ParserInv, GroupEnd
  PROVE  ParserInv'
<1>1. CASE Fail(UnexpectedToken(ahead.type))
  BY <1>1, UnexpectedIsOutcome, FailKeeps
<1>2. CASE /\ node' = [from |-> Last(stack).from, to |-> Here]
           /\ stack' = Front(stack)
           /\ Take /\ GoTo("postfix") /\ UNCHANGED <<built, values>>
  <2>1. /\ at = "group_end" /\ at' = "postfix" /\ outcome' = outcome /\ InExpression
        /\ Last(stack).rule = "group"
    BY <1>2 DEF GroupEnd, GoTo, InExpression, ParserInv, StackOK
  <2>2. Len(taken) \in Nat /\ Len(taken') = Len(taken) + 1 /\ Here = Len(taken) + 1
    BY <1>2, TextKept DEF Here
  <2>3. Last(stack) \in Frames /\ CallOK(Last(stack), Len(stack) = 1, Len(taken))
        /\ CallsOK(stack, Len(taken))
    BY <2>1, OperandFacts
  <2>4. Opened(Last(stack)) /\ Last(stack).from \in Nat
        /\ 1 <= Last(stack).from /\ Last(stack).from <= Len(taken)
    BY <2>1, <2>3 DEF CallOK, Opened, Frames
  <2>5. After(Front(stack), Last(stack).from)
    BY <2>1, <2>2, <2>3, <2>4, PopFacts
  <2>6. node' \in [from : Nat, to : Nat] /\ node'.from = Last(stack).from /\ node'.to = Here
    BY <1>2, <2>2, <2>4
  <2>7. 1 <= node'.from /\ node'.from <= node'.to /\ node'.to <= Len(taken') /\ node' # Absent
    BY <2>2, <2>4, <2>6 DEF Absent
  <2>8. After(stack', node'.from)
    BY <1>2, <2>5, <2>6
  <2>9. BuiltOK' /\ ValuesOK'
    BY <1>2, BuiltKept, ValuesKept
  <2>10. Pop /\ (Take \/ Stay) /\ at' \in {"postfix", "returned"}
         /\ Last(stack).rule \notin {"return", "body"}
    BY <1>2, <2>1 DEF Pop
  <2> QED BY <2>1, <2>6, <2>7, <2>8, <2>9, <2>10, ReturnKeeps
<1> QED BY <1>1, <1>2 DEF GroupEnd

-----------------------------------------------------------------------------
(* Expressions that return.                                                *)

(* The expression that a call has once an operand came in.                 *)
LEMMA CombinedFacts ==
  ASSUME ParserInv, at = "returned", node # Absent,
         NEW call, call = Last(stack), call.rule \in {"level", "unary"}
  PROVE  /\ Combined(call) \in [from : Nat, to : Nat]
         /\ 1 <= Combined(call).from /\ Combined(call).from <= Combined(call).to
         /\ Combined(call).to <= Len(taken)
         /\ Combined(call) # Absent
         /\ CallsOK(Front(stack), Len(taken))
         /\ After(Front(stack), Combined(call).from)
         /\ Take \/ Stay => (built' = BuiltWith(call) => BuiltOK')
<1>1. InExpression
  BY DEF InExpression
<1>2. /\ Len(taken) \in Nat /\ CallsOK(stack, Len(taken))
      /\ node.from \in Nat /\ node.to \in Nat
      /\ 1 <= node.from /\ node.from <= node.to /\ node.to <= Len(taken)
      /\ After(stack, node.from) /\ node \in [from : Nat, to : Nat]
  BY <1>1, OperandFacts
<1>3. call \in Frames /\ CallOK(call, Len(stack) = 1, Len(taken))
  BY <1>1, OperandFacts
<1>4. /\ CallsOK(Front(stack), Len(taken))
      /\ Opened(call) => After(Front(stack), call.from)
      /\ After(Front(stack), node.from) /\ call.op < node.from
  BY <1>2, PopFacts
<1>5. call.from \in Nat /\ call.op \in Nat
  BY <1>3 DEF Frames
<1>6. CASE call.op = 0
  <2>1. Combined(call) = node /\ BuiltWith(call) = built
    BY <1>6 DEF Combined, BuiltWith
  <2>2. Take \/ Stay => (built' = BuiltWith(call) => BuiltOK')
    BY <2>1, BuiltKept
  <2> QED BY <1>2, <1>4, <2>1, <2>2
<1>7. CASE call.op # 0
  <2>1. Opened(call) /\ 1 <= call.from /\ call.from <= call.op
    BY <1>3, <1>7 DEF CallOK, Opened
  <2> DEFINE whole == [from |-> call.from, to |-> node.to]
             new == [op |-> call.op, from |-> call.from, to |-> node.to]
  <2>2. Combined(call) = whole /\ BuiltWith(call) = built \cup {new}
    BY <1>7 DEF Combined, BuiltWith
  <2>3. whole \in [from : Nat, to : Nat] /\ whole.from = call.from /\ whole.to = node.to
    BY <1>2, <1>5
  <2>4. new \in [op : Nat, from : Nat, to : Nat]
        /\ new.op = call.op /\ new.from = call.from /\ new.to = node.to
    BY <1>2, <1>5
  <2> HIDE DEF whole, new
  <2>5. call.from <= call.op /\ call.op < node.to /\ call.from <= node.to /\ whole # Absent
    BY <1>2, <1>4, <1>5, <2>1, <2>3 DEF Absent
  <2>6. ASSUME Take \/ Stay, built' = BuiltWith(call) PROVE BuiltOK'
    <3>1. Len(taken) <= Len(taken') /\ Len(taken') \in Nat
      BY <2>6, TextKept
    <3>2. new.from <= new.op /\ new.op < new.to /\ new.to <= Len(taken')
      BY <1>2, <2>4, <2>5, <3>1
    <3>3. \A n \in built' : n \in built \/ n = new
      BY <2>2, <2>6
    <3>4. \A n \in built' : n \in [op : Nat, from : Nat, to : Nat]
                            /\ n.from <= n.op /\ n.op < n.to /\ n.to <= Len(taken')
      BY <2>4, <2>6, <3>2, <3>3, BuiltKept
    <3> QED BY <3>4 DEF BuiltOK
  <2>7. Take \/ Stay => (built' = BuiltWith(call) => BuiltOK')
    BY <2>6
  <2> QED BY <1>2, <1>4, <2>1, <2>2, <2>3, <2>5, <2>7
<1> QED BY <1>6, <1>7

(* The expression is returned to the call below.                           *)
LEMMA CombinedReturns ==
  ASSUME ParserInv, at = "returned", node # Absent, Stay, Pop, GoTo("returned"),
         NEW call, call = Last(stack), call.rule \in {"level", "unary"},
         node' = Combined(call), built' = BuiltWith(call), values' = values
  PROVE  ParserInv'
<1>1. InExpression /\ at' = "returned" /\ outcome' = outcome
  BY DEF InExpression, GoTo
<1>2. /\ node' \in [from : Nat, to : Nat] /\ 1 <= node'.from /\ node'.from <= node'.to
      /\ node'.to <= Len(taken') /\ After(stack', node'.from) /\ BuiltOK'
  BY CombinedFacts DEF Pop, Stay
<1>3. ValuesOK'
  BY ValuesKept
<1> QED BY <1>1, <1>2, <1>3, ReturnKeeps

LEMMA ReturnedToUnaryKeeps ==
  ASSUME ParserInv, ReturnedToUnary
  PROVE  ParserInv'
<1>1. at = "returned" /\ Last(stack).rule = "unary" /\ InExpression
  BY DEF ReturnedToUnary, Returned, InExpression
<1>2. CASE Fail("SyntaxError")
  BY <1>2, FailKeeps DEF Outcomes
<1>3. CASE node # Absent
  <2>1. Last(stack).op # 0
    BY <1>1, OperandFacts DEF CallOK
  <2>2. /\ Combined(Last(stack)) = [from |-> Last(stack).from, to |-> node.to]
        /\ BuiltWith(Last(stack)) =
             built \cup {[op |-> Last(stack).op, from |-> Last(stack).from, to |-> node.to]}
    BY <2>1 DEF Combined, BuiltWith
  <2>3. /\ node' = Combined(Last(stack)) /\ built' = BuiltWith(Last(stack))
        /\ Pop /\ Stay /\ GoTo("returned") /\ values' = values
    BY <1>3, <2>2 DEF ReturnedToUnary
  <2> QED BY <1>1, <1>3, <2>3, CombinedReturns
<1> QED BY <1>2, <1>3 DEF ReturnedToUnary

(* The right operand of an operator is read next.                          *)
LEMMA NextOperandKeeps ==
  ASSUME ParserInv, at = "returned", node # Absent,
         NEW call, call = Last(stack), call.rule = "level", NextOperand(call),
         node' = Combined(call), built' = BuiltWith(call), values' = values
  PROVE  ParserInv'
<1> DEFINE next == [call EXCEPT !.op = Here, !.from = Combined(call).from]
<1>1. InExpression /\ Take /\ Call(Append(Front(stack), next), call.level + 1) /\ at' = "operand"
  BY DEF InExpression, NextOperand, Call, GoTo
<1>2. /\ Len(taken) \in Nat /\ Len(taken') = Len(taken) + 1 /\ Here = Len(taken) + 1
      /\ Len(taken') \in Nat
  BY <1>1, TextKept DEF Here
<1>3. /\ Combined(call) \in [from : Nat, to : Nat]
      /\ 1 <= Combined(call).from /\ Combined(call).from <= Combined(call).to
      /\ Combined(call).to <= Len(taken) /\ Combined(call).from \in Nat /\ Combined(call).to \in Nat
      /\ CallsOK(Front(stack), Len(taken)) /\ After(Front(stack), Combined(call).from)
      /\ BuiltOK'
  BY <1>1, CombinedFacts
<1>4. call \in Frames /\ CallOK(call, Len(stack) = 1, Len(taken))
  BY <1>1, OperandFacts
<1>5. call.level \in 1 .. 10
  BY <1>4 DEF CallOK, Frames
<1>6. /\ next \in Frames /\ next.rule = "level" /\ next.level = call.level
      /\ next.op = Here /\ next.from = Combined(call).from
  BY <1>2, <1>3, <1>4 DEF Frames
<1> HIDE DEF next
<1>7. CallOK(next, FALSE, Len(taken'))
  <2>1. /\ next.from >= 1 /\ next.from <= Len(taken') /\ next.op <= Len(taken')
        /\ next.from <= next.op /\ next.op # 0
    BY <1>2, <1>3, <1>6
  <2> QED BY <1>5, <1>6, <2>1 DEF CallOK
<1>8. CallsOK(Append(Front(stack), next), Len(taken'))
  <2>1. CallsOK(Front(stack), Len(taken'))
    BY <1>2, <1>3, CallsGrow
  <2>2. After(Front(stack), next.from)
    BY <1>3, <1>6
  <2> QED BY <1>2, <1>6, <1>7, <2>1, <2>2, PushFacts
<1>9. NodeOK'
  <2>1. Combined(call).to <= Len(taken')
    BY <1>2, <1>3
  <2> QED BY <1>1, <1>3, <2>1 DEF NodeOK, Absent
<1>10. ValuesOK'
  BY <1>1, ValuesKept
<1>11. call.level + 1 \in 1 .. 11
  BY <1>5
<1> QED BY <1>1, <1>3, <1>8, <1>9, <1>10, <1>11, CallKeeps

LEMMA ReturnedToLevelKeeps ==
  ASSUME ParserInv, ReturnedToLevel
  PROVE  ParserInv'
<1>1. at = "returned" /\ Last(stack).rule = "level" /\ InExpression
  BY DEF ReturnedToLevel, Returned, InExpression
<1> DEFINE call == Last(stack)
<1>2. CASE Fail("SyntaxError")
  BY <1>2, FailKeeps DEF Outcomes
<1>3. CASE node = Absent /\ Pop /\ Stay /\ GoTo("returned") /\ UNCHANGED <<node, built, values>>
  <2>1. at' = "returned" /\ outcome' = outcome /\ node' = Absent
    BY <1>3 DEF GoTo
  <2>2. node' \in [from : Nat, to : Nat]
    BY <2>1 DEF Absent
  <2>3. BuiltOK' /\ ValuesOK'
    BY <1>3, BuiltKept, ValuesKept
  <2>4. Absent' = Absent
    BY DEF Absent
  <2> QED BY <1>1, <1>3, <2>1, <2>2, <2>3, <2>4, ReturnKeeps
<1>4. CASE /\ node # Absent /\ node' = Combined(call) /\ built' = BuiltWith(call)
           /\ UNCHANGED values /\ NextOperand(call)
  BY <1>1, <1>4, NextOperandKeeps
<1>5. CASE /\ node # Absent /\ node' = Combined(call) /\ built' = BuiltWith(call)
           /\ UNCHANGED values /\ Pop /\ Stay /\ GoTo("returned")
  BY <1>1, <1>5, CombinedReturns
<1> QED BY <1>2, <1>3, <1>4, <1>5 DEF ReturnedToLevel

LEMMA ReturnedToGroupKeeps ==
  ASSUME ParserInv, ReturnedToGroup
  PROVE  ParserInv'
<1>1. at = "returned" /\ Last(stack).rule = "group" /\ InExpression
  BY DEF ReturnedToGroup, Returned, InExpression
<1>2. CASE Fail("SyntaxError")
  BY <1>2, FailKeeps DEF Outcomes
<1>3. CASE Stay /\ GoTo("group_end") /\ UNCHANGED <<stack, node, built, values>>
  <2>1. at' = "group_end" /\ outcome' = outcome /\ InExpression'
    BY <1>3 DEF GoTo, InExpression
  <2>2. CallsOK(stack', Len(taken'))
    BY <1>1, <1>3, OperandFacts DEF Stay
  <2>3. NodeOK' /\ BuiltOK' /\ ValuesOK'
    BY <1>3, <2>1, NodeKept, BuiltKept, ValuesKept
  <2>4. Last(stack').rule = "group"
    BY <1>1, <1>3
  <2> QED BY <1>3, <2>1, <2>2, <2>3, <2>4, ReadingKeeps
<1> QED BY <1>2, <1>3 DEF ReturnedToGroup

(* The whole expression has been read.                                     *)
LEMMA LeaveKeeps ==
  ASSUME ParserInv, at = "returned", Last(stack).rule \in {"return", "body"}, Pop, Stay,
         at' \in {"return_end", "close"}, outcome' = outcome, UNCHANGED <<node, built, values>>
  PROVE  ParserInv'
<1>1. InExpression /\ ~InExpression' /\ at' # "group_end" /\ at' # "ended"
  BY DEF InExpression
<1>2. stack \in Seq(Frames) /\ Len(stack) = 1
  BY <1>1, OperandFacts DEF CallOK, CallsOK
<1>3. stack' = <<>>
  <2>1. Front(stack) = <<>>
    BY <1>2 DEF Front
  <2> QED BY <2>1 DEF Pop
<1>4. StackOK'
  BY <1>1, <1>3 DEF StackOK
<1>5. TextOK' /\ NodeOK' /\ BuiltOK' /\ ValuesOK'
  BY TextKept, NodeKept, BuiltKept, ValuesKept
<1>6. PlaceOK'
  BY DEF ParserInv, PlaceOK, Places, Expected
<1> QED BY <1>4, <1>5, <1>6 DEF ParserInv

LEMMA ReturnedToReturnKeeps ==
  ASSUME ParserInv, ReturnedToReturn
  PROVE  ParserInv'
<1>1. at = "returned" /\ Last(stack).rule = "return"
  BY DEF ReturnedToReturn, Returned
<1>2. CASE Fail("SyntaxError")
  BY <1>2, FailKeeps DEF Outcomes
<1>3. CASE Pop /\ Stay /\ GoTo("return_end") /\ UNCHANGED <<node, built, values>>
  BY <1>1, <1>3, LeaveKeeps DEF GoTo
<1> QED BY <1>2, <1>3 DEF ReturnedToReturn

LEMMA ReturnedToBodyKeeps ==
  ASSUME ParserInv, ReturnedToBody
  PROVE  ParserInv'
BY LeaveKeeps DEF ReturnedToBody, Returned, GoTo

-----------------------------------------------------------------------------
(* The theorems.                                                           *)

LEMMA ParserInit == Init => ParserInv
<1> SUFFICES ASSUME Init PROVE ParserInv
  OBVIOUS
<1>1. TextOK /\ stack = <<>> /\ at = "top" /\ node = Absent /\ built = {} /\ values = {}
      /\ outcome = "parsing"
  BY DEF Init, TextOK
<1>2. StackOK
  BY <1>1 DEF StackOK, InExpression
<1>3. NodeOK
  BY <1>1 DEF NodeOK, Absent
<1>4. BuiltOK /\ ValuesOK
  BY <1>1 DEF BuiltOK, ValuesOK
<1>5. PlaceOK
  BY <1>1 DEF PlaceOK, Places, Outcomes
<1> QED BY <1>1, <1>2, <1>3, <1>4, <1>5 DEF ParserInv

LEMMA ParserStep == ParserInv /\ [Next]_vars => ParserInv'
<1> SUFFICES ASSUME ParserInv, [Next]_vars PROVE ParserInv'
  OBVIOUS
<1>1. CASE UNCHANGED vars
  BY <1>1 DEF vars, ParserInv, TextOK, StackOK, InExpression, NodeOK, BuiltOK, ValuesOK, PlaceOK
<1>2. CASE Ended
  BY <1>1, <1>2 DEF Ended
<1>3. CASE TopLevel \/ Arguments \/ ReturnType \/ Expect \/ Statement \/ ReturnValue
  BY <1>3, TopLevelKeeps, ArgumentsKeeps, ReturnTypeKeeps, ExpectKeeps, StatementKeeps,
     ReturnValueKeeps
<1>4. CASE Operand \/ Postfix \/ CallEnd \/ GroupEnd
  BY <1>4, OperandKeeps, PostfixKeeps, CallEndKeeps, GroupEndKeeps
<1>5. CASE \/ ReturnedToUnary \/ ReturnedToLevel \/ ReturnedToGroup
           \/ ReturnedToReturn \/ ReturnedToBody
  BY <1>5, ReturnedToUnaryKeeps, ReturnedToLevelKeeps, ReturnedToGroupKeeps,
     ReturnedToReturnKeeps, ReturnedToBodyKeeps
<1> QED BY <1>1, <1>2, <1>3, <1>4, <1>5 DEF Next, Parse

(* The invariant holds in every state.                                     *)
THEOREM ParserInvariant == Spec => []ParserInv
BY ParserInit, ParserStep, PTL DEF Spec

(* The calls that wait, the places of the nodes in the text and the values *)
(* of the literals stay in their ranges: AST::AST and the functions it     *)
(* calls never pop a call that is not there or build a node around text    *)
(* that has not been read.                                                 *)
THEOREM TypesAreKept == Spec => []TypeOK
BY ParserInvariant, InvIsRight, PTL

(* A literal whose digits the base has and that a word holds is given the  *)
(* value it is written with, whatever follows it: for literals of any      *)
(* length and base, and words of any width.                                *)
THEOREM LiteralsAlwaysKeepValue == Spec => []LiteralsKeepValue
BY ParserInvariant, InvIsRight, PTL

-----------------------------------------------------------------------------
(* What a stretch of the text is.                                          *)

Texts == Seq(TokenType)

(* The depth in parentheses, counted from the beginning.                   *)
Up(h, i) == Depth(h, 1, i)

(* An expression whose operators outside parentheses are of a level or     *)
(* tighter; 11 is the level of those with none.                            *)
Expression(h, from, to, level) ==
  /\ 1 <= from /\ from <= to /\ to <= Len(h)
  /\ h[to] \in EndsOperand
  /\ \A i \in from .. to : Up(h, i) >= Up(h, from - 1)
  /\ Up(h, to) = Up(h, from - 1)
  /\ \A i \in from + 1 .. to :
       IsBinary(h, i) /\ Up(h, i) = Up(h, from - 1) => Level(h[i]) >= level

(* The calls, against the text.  What a call reads next begins behind its  *)
(* last token.                                                             *)
Plain(call) == call.rule = "level" /\ call.op = 0

Begin(call) ==
  IF call.op # 0 THEN call.op + 1
  ELSE IF call.rule = "group" THEN call.from + 1 ELSE call.from

(* The level of the expression that a call waits for, and of the one it    *)
(* returns.                                                                *)
Awaits(call) ==
  IF call.rule = "level" THEN call.level + 1 ELSE IF call.rule = "unary" THEN 11 ELSE 1

Yields(call) == IF call.rule = "level" THEN call.level ELSE 11

(* The call that has read the last token, of the first n.                  *)
Holder(calls, n, j) ==
  j \in 1 .. n /\ ~Plain(calls[j]) /\ \A l \in j + 1 .. n : Plain(calls[l])

(* An expression for the n-th call begins at from.                         *)
StartsAt(calls, n, from) ==
  /\ \A j \in 1 .. n : Holder(calls, n, j) => from = Begin(calls[j])
  /\ \A j \in 1 .. n : Opened(calls[j]) => calls[j].from < from

CallText(h, call) ==
  /\ call.rule = "level" /\ call.op # 0 =>
       Expression(h, call.from, call.op - 1, call.level) /\ h[call.op] \in Operators[call.level]
  /\ call.rule = "unary" => call.from = call.op /\ h[call.op] \in UnaryOperator
  /\ call.rule = "group" => h[call.from] = "L_PAREN"

CallFits(h, calls, k) ==
  /\ CallText(h, calls[k])
  /\ k > 1 => Yields(calls[k]) = Awaits(calls[k - 1])
  /\ Opened(calls[k]) => StartsAt(calls, k - 1, calls[k].from)

CallsFit(h, calls) == \A k \in 1 .. Len(calls) : CallFits(h, calls, k)

(* A finished node does not reach over the place where another one begins. *)
Clear(n, from) == n.to < from \/ from <= n.from

StackFits == InExpression => CallsFit(History, stack)

Returning == at \in {"postfix", "call_end", "group_end", "returned"} /\ node # Absent

NodeFits ==
  /\ at = "operand" => StartsAt(stack, Len(stack), Here)
  /\ at \in {"operand", "postfix", "call_end"} => Awaits(Last(stack)) = 11
  /\ Returning =>
       /\ Expression(History, node.from, node.to, Awaits(Last(stack)))
       /\ StartsAt(stack, Len(stack), node.from)
       /\ node.to = IF at = "call_end" THEN Len(taken) - 1 ELSE Len(taken)
  /\ at = "call_end" => History[Len(taken)] = "L_PAREN"
  /\ at = "group_end" => node # Absent

(* The calls are done with what the nodes reach over.                      *)
AllClear(nodes, from) == \A n \in nodes : Clear(n, from)

Separate(nodes, calls) ==
  \A n \in nodes : \A k \in 1 .. Len(calls) :
    n.op # calls[k].op /\ (Opened(calls[k]) => Clear(n, calls[k].from))

(* Nodes are apart or inside each other, and have operators of their own.  *)
Apart(m, n) ==
  \/ m = n
  \/ m.to < n.from \/ n.to < m.from
  \/ m.op # n.op /\ n.from <= m.from /\ m.to <= n.to
  \/ m.op # n.op /\ m.from <= n.from /\ n.to <= m.to

Nested(nodes) == \A m, n \in nodes : Apart(m, n)

NodesFit(h, nodes) == \A n \in nodes : 1 <= n.from /\ SplitsAt(h, n, n.op)

BuiltFits ==
  /\ NodesFit(History, built) /\ Nested(built) /\ Separate(built, stack)
  /\ Returning => AllClear(built, node.from)

(* Every operator that has been read has a node or waits for an operand.   *)
Kept(nodes, calls, i) ==
  (\E n \in nodes : n.op = i) \/ (\E k \in 1 .. Len(calls) : calls[k].op = i)

Covered(h, nodes, calls) ==
  \A i \in 1 .. Len(h) : IsBinary(h, i) \/ IsUnary(h, i) => Kept(nodes, calls, i)

TreeInv == ParserInv /\ StackFits /\ NodeFits /\ BuiltFits /\ Covered(History, built, stack)

(***************************************************************************)
(* Counting parentheses.                                                   *)
(***************************************************************************)
Weight(type) == IF type = "L_PAREN" THEN 1 ELSE IF type = "R_PAREN" THEN -1 ELSE 0

Hits(h, from, to, type) == {k \in from .. to : h[k] = type}

LEMMA CountIsNat ==
  ASSUME NEW h, NEW type, NEW from \in Int, NEW to \in Int
  PROVE  /\ IsFiniteSet(Hits(h, from, to, type))
         /\ Count(h, from, to, type) = Cardinality(Hits(h, from, to, type))
         /\ Count(h, from, to, type) \in Nat
<1>1. IsFiniteSet(from .. to)
  BY FS_Interval
<1>2. Hits(h, from, to, type) \in SUBSET (from .. to)
  BY DEF Hits
<1>3. IsFiniteSet(Hits(h, from, to, type))
  BY <1>1, <1>2, FS_Subset
<1>4. Count(h, from, to, type) = Cardinality(Hits(h, from, to, type))
  BY DEF Count, Hits
<1> QED BY <1>3, <1>4, FS_CardinalityType

LEMMA CountStep ==
  ASSUME NEW h, NEW type, NEW from \in Int, NEW to \in Int, from <= to
  PROVE  Count(h, from, to, type) = Count(h, from, to - 1, type) + IF h[to] = type THEN 1 ELSE 0
<1>1. to - 1 \in Int
  OBVIOUS
<1> DEFINE S == Hits(h, from, to, type)
           T == Hits(h, from, to - 1, type)
<1>2. /\ Count(h, from, to, type) = Cardinality(S) /\ Count(h, from, to - 1, type) = Cardinality(T)
      /\ IsFiniteSet(T) /\ Cardinality(T) \in Nat
  BY <1>1, CountIsNat
<1>3. CASE h[to] = type
  <2>1. S = T \cup {to} /\ to \notin T
    BY <1>3 DEF Hits
  <2> HIDE DEF S, T
  <2>2. Cardinality(S) = Cardinality(T) + 1
    BY <1>2, <2>1, FS_AddElement
  <2> QED BY <1>2, <1>3, <2>2
<1>4. CASE h[to] # type
  <2>1. S = T
    BY <1>4 DEF Hits
  <2> HIDE DEF S, T
  <2> QED BY <1>2, <1>4, <2>1
<1> QED BY <1>3, <1>4

LEMMA CountNone ==
  ASSUME NEW h, NEW type, NEW from \in Int
  PROVE  Count(h, from, from - 1, type) = 0
<1>1. {k \in from .. from - 1 : h[k] = type} = {}
  OBVIOUS
<1> QED BY <1>1, FS_EmptySet DEF Count

(* What is between two places is what is before the second one and not     *)
(* before the first.                                                       *)
LEMMA CountSplits ==
  ASSUME NEW h, NEW type, NEW from \in Int, NEW to \in Int, 1 <= from, from <= to + 1
  PROVE  Count(h, from, to, type) = Count(h, 1, to, type) - Count(h, 1, from - 1, type)
<1>1. from - 1 \in Int /\ 1 \in Int
  OBVIOUS
<1> DEFINE A == Hits(h, 1, from - 1, type)
           B == Hits(h, from, to, type)
           C == Hits(h, 1, to, type)
<1>2. C = A \cup B /\ A \cap B = {}
  BY DEF Hits
<1>3. /\ IsFiniteSet(A) /\ IsFiniteSet(B)
      /\ Count(h, 1, from - 1, type) \in Nat /\ Count(h, from, to, type) \in Nat
      /\ Count(h, from, to, type) = Cardinality(B) /\ Count(h, 1, to, type) = Cardinality(C)
      /\ Count(h, 1, from - 1, type) = Cardinality(A)
  BY <1>1, CountIsNat
<1> HIDE DEF A, B, C
<1>4. Cardinality(C) = Cardinality(A) + Cardinality(B) - Cardinality({})
  BY <1>2, <1>3, FS_Union
<1>5. Cardinality({}) = 0
  BY FS_EmptySet
<1> QED BY <1>3, <1>4, <1>5

LEMMA UpFacts ==
  ASSUME NEW h
  PROVE  /\ Up(h, 0) = 0
         /\ \A k \in Nat : Up(h, k) \in Int
         /\ \A k \in Nat \ {0} : Up(h, k) = Up(h, k - 1) + Weight(h[k])
         /\ \A from, to \in Nat : 1 <= from /\ from <= to + 1 =>
              Depth(h, from, to) = Up(h, to) - Up(h, from - 1)
<1> DEFINE L(k) == Count(h, 1, k, "L_PAREN")
           R(k) == Count(h, 1, k, "R_PAREN")
<1>1. \A k \in Int : Up(h, k) = L(k) - R(k) /\ L(k) \in Nat /\ R(k) \in Nat
  BY CountIsNat DEF Up, Depth
<1>2. L(0) = 0 /\ R(0) = 0
  <2>1. Count(h, 1, 1 - 1, "L_PAREN") = 0 /\ Count(h, 1, 1 - 1, "R_PAREN") = 0
    BY CountNone
  <2> QED BY <2>1
<1>4. ASSUME NEW k \in Nat \ {0}
      PROVE  Up(h, k) = Up(h, k - 1) + Weight(h[k])
  <2>1. k \in Int /\ k - 1 \in Int /\ 1 <= k
    OBVIOUS
  <2>2. /\ L(k) = L(k - 1) + IF h[k] = "L_PAREN" THEN 1 ELSE 0
        /\ R(k) = R(k - 1) + IF h[k] = "R_PAREN" THEN 1 ELSE 0
    BY <2>1, CountStep
  <2>3. Up(h, k) = L(k) - R(k) /\ Up(h, k - 1) = L(k - 1) - R(k - 1)
        /\ L(k - 1) \in Nat /\ R(k - 1) \in Nat
    BY <1>1, <2>1
  <2> HIDE DEF L, R
  <2> QED BY <2>2, <2>3 DEF Weight
<1>3. ASSUME NEW from \in Nat, NEW to \in Nat, 1 <= from, from <= to + 1
      PROVE  Depth(h, from, to) = Up(h, to) - Up(h, from - 1)
  <2>1. from \in Int /\ to \in Int /\ from - 1 \in Int
    BY <1>3
  <2>2. /\ Count(h, from, to, "L_PAREN") = L(to) - L(from - 1)
        /\ Count(h, from, to, "R_PAREN") = R(to) - R(from - 1)
    BY <1>3, <2>1, CountSplits
  <2>3. Depth(h, from, to) = Count(h, from, to, "L_PAREN") - Count(h, from, to, "R_PAREN")
    BY DEF Depth
  <2>4. /\ Up(h, to) = L(to) - R(to) /\ Up(h, from - 1) = L(from - 1) - R(from - 1)
        /\ L(to) \in Nat /\ R(to) \in Nat /\ L(from - 1) \in Nat /\ R(from - 1) \in Nat
    BY <1>1, <2>1
  <2> HIDE DEF L, R
  <2> QED BY <2>2, <2>3, <2>4
<1>5. Up(h, 0) = 0 /\ \A k \in Nat : Up(h, k) \in Int
  <2> HIDE DEF L, R
  <2> QED BY <1>1, <1>2
<1> QED BY <1>3, <1>4, <1>5

(* A longer text.                                                          *)
Prefix(h, g) == Len(h) <= Len(g) /\ \A k \in 1 .. Len(h) : g[k] = h[k]

LEMMA UpKept ==
  ASSUME NEW h \in Texts, NEW g \in Texts, Prefix(h, g)
  PROVE  \A k \in 0 .. Len(h) : Up(g, k) = Up(h, k)
<1>1. ASSUME NEW k \in 0 .. Len(h) PROVE Up(g, k) = Up(h, k)
  <2>1. Len(h) \in Nat /\ \A l \in 1 .. k : g[l] = h[l]
    BY DEF Prefix, Texts
  <2>2. ASSUME NEW type PROVE Count(g, 1, k, type) = Count(h, 1, k, type)
    <3>1. {l \in 1 .. k : g[l] = type} = {l \in 1 .. k : h[l] = type}
      BY <2>1
    <3> QED BY <3>1 DEF Count
  <2>3. /\ Count(g, 1, k, "L_PAREN") = Count(h, 1, k, "L_PAREN")
        /\ Count(g, 1, k, "R_PAREN") = Count(h, 1, k, "R_PAREN")
    BY <2>2
  <2> QED BY <2>3 DEF Up, Depth
<1> QED BY <1>1

-----------------------------------------------------------------------------
(* The kinds of token.                                                     *)

LEMMA OperatorFacts ==
  /\ \A k \in 1 .. 10 : \A type \in Operators[k] : type \in BinaryOperator /\ Level(type) = k
  /\ \A type \in BinaryOperator : Level(type) \in 1 .. 10 /\ type \in Operators[Level(type)]
<1> DEFINE O == Operators
<1>1. /\ O[1] = {"OR_OR"} /\ O[2] = {"AND_AND"} /\ O[3] = {"EQUAL_EQUAL", "EXCLAMATION_EQUAL"}
      /\ O[4] = {"LESS", "LESS_EQUAL", "GREATER", "GREATER_EQUAL"}
      /\ O[5] = {"OR"} /\ O[6] = {"CARET"} /\ O[7] = {"AND"}
      /\ O[8] = {"LESS_LESS", "GREATER_GREATER"} /\ O[9] = {"PLUS", "MINUS"}
      /\ O[10] = {"ASTERISK", "FORWARD_SLASH", "PERCENT"} /\ DOMAIN O = 1 .. 10
  BY DEF Operators
<1>2. BinaryOperator = UNION {O[k] : k \in DOMAIN O}
  BY DEF BinaryOperator, ToSet
<1> HIDE DEF O
<1>3. ASSUME NEW k \in 1 .. 10, NEW l \in 1 .. 10, NEW type, type \in O[k], type \in O[l]
      PROVE  k = l
  <2>1. k \in {1, 2, 3, 4, 5, 6, 7, 8, 9, 10} /\ l \in {1, 2, 3, 4, 5, 6, 7, 8, 9, 10}
    OBVIOUS
  <2> QED BY <1>1, <1>3, <2>1
<1>4. ASSUME NEW k \in 1 .. 10, NEW type \in O[k]
      PROVE  type \in BinaryOperator /\ Level(type) = k
  <2>1. type \in BinaryOperator
    BY <1>1, <1>2
  <2>2. Level(type) = CHOOSE l \in 1 .. 10 : type \in O[l]
    BY DEF Level, O
  <2>3. Level(type) \in 1 .. 10 /\ type \in O[Level(type)]
    BY <2>2
  <2> QED BY <1>3, <2>1, <2>3
<1>5. ASSUME NEW type \in BinaryOperator
      PROVE  Level(type) \in 1 .. 10 /\ type \in O[Level(type)]
  <2>1. PICK k \in 1 .. 10 : type \in O[k]
    BY <1>1, <1>2
  <2> QED BY <1>4, <2>1
<1> QED BY <1>4, <1>5 DEF O

(* What is not an operator.                                                *)
LEMMA KindFacts ==
  ASSUME NEW type
  PROVE  /\ type \in BinaryOperator => /\ type \notin EndsOperand /\ Weight(type) = 0
                                       /\ type \notin {"L_PAREN", "R_PAREN"}
         /\ type \in UnaryOperator => type \notin EndsOperand /\ Weight(type) = 0
         /\ type \in {"IDENT", "INT_LITERAL", "KEYWORD_TRUE", "KEYWORD_FALSE"} =>
              /\ type \in EndsOperand /\ Weight(type) = 0
              /\ type \notin BinaryOperator /\ type \notin UnaryOperator
         /\ type \in EndsOperand => type \notin BinaryOperator \cup UnaryOperator
         /\ "L_PAREN" \notin EndsOperand \cup BinaryOperator \cup UnaryOperator
         /\ "R_PAREN" \in EndsOperand /\ Weight("L_PAREN") = 1 /\ Weight("R_PAREN") = -1
         /\ Weight(type) \in Int
<1>1. BinaryOperator = {"OR_OR", "AND_AND", "EQUAL_EQUAL", "EXCLAMATION_EQUAL", "LESS",
        "LESS_EQUAL", "GREATER", "GREATER_EQUAL", "OR", "CARET", "AND", "LESS_LESS",
        "GREATER_GREATER", "PLUS", "MINUS", "ASTERISK", "FORWARD_SLASH", "PERCENT"}
  <2> DEFINE O == Operators
  <2>1. /\ O[1] = {"OR_OR"} /\ O[2] = {"AND_AND"} /\ O[3] = {"EQUAL_EQUAL", "EXCLAMATION_EQUAL"}
        /\ O[4] = {"LESS", "LESS_EQUAL", "GREATER", "GREATER_EQUAL"}
        /\ O[5] = {"OR"} /\ O[6] = {"CARET"} /\ O[7] = {"AND"}
        /\ O[8] = {"LESS_LESS", "GREATER_GREATER"} /\ O[9] = {"PLUS", "MINUS"}
        /\ O[10] = {"ASTERISK", "FORWARD_SLASH", "PERCENT"}
        /\ DOMAIN O = {1, 2, 3, 4, 5, 6, 7, 8, 9, 10}
    <3>1. DOMAIN O = 1 .. 10 /\ 1 .. 10 = {1, 2, 3, 4, 5, 6, 7, 8, 9, 10}
      BY DEF Operators
    <3> QED BY <3>1 DEF Operators
  <2>2. BinaryOperator = UNION {O[k] : k \in DOMAIN O}
    BY DEF BinaryOperator, ToSet
  <2> HIDE DEF O
  <2> QED BY <2>1, <2>2
<1> QED BY <1>1 DEF EndsOperand, UnaryOperator, Weight

-----------------------------------------------------------------------------
(* Expressions.                                                            *)

LEMMA ExpressionTypes ==
  ASSUME NEW h \in Texts, NEW from \in Nat, NEW to \in Nat, NEW level,
         Expression(h, from, to, level)
  PROVE  /\ 1 <= from /\ from <= to /\ to <= Len(h) /\ h[to] \in EndsOperand
         /\ \A k \in from - 1 .. to : Up(h, k) \in Int /\ Up(h, k) >= Up(h, from - 1)
         /\ Up(h, to) = Up(h, from - 1)
         /\ \A k \in from + 1 .. to :
              IsBinary(h, k) /\ Up(h, k) = Up(h, from - 1) => Level(h[k]) >= level
<1>1. /\ 1 <= from /\ from <= to /\ to <= Len(h) /\ h[to] \in EndsOperand
      /\ Up(h, to) = Up(h, from - 1)
      /\ \A k \in from .. to : Up(h, k) >= Up(h, from - 1)
      /\ \A k \in from + 1 .. to :
           IsBinary(h, k) /\ Up(h, k) = Up(h, from - 1) => Level(h[k]) >= level
  BY DEF Expression
<1>2. \A k \in from - 1 .. to : k \in Nat /\ (k = from - 1 \/ k \in from .. to)
  BY <1>1
<1>3. \A k \in from - 1 .. to : Up(h, k) \in Int
  BY <1>2, UpFacts
<1> QED BY <1>1, <1>2, <1>3

LEMMA Weaken ==
  ASSUME NEW h \in Texts, NEW from \in Nat, NEW to \in Nat, NEW level \in Nat, NEW less \in Nat,
         less <= level, Expression(h, from, to, level)
  PROVE  Expression(h, from, to, less)
<1>1. ASSUME NEW k \in from + 1 .. to, IsBinary(h, k), Up(h, k) = Up(h, from - 1)
      PROVE  Level(h[k]) >= less
  <2>1. Level(h[k]) >= level /\ h[k] \in BinaryOperator
    BY <1>1 DEF Expression, IsBinary
  <2>2. Level(h[k]) \in Nat
    BY <2>1, OperatorFacts
  <2> QED BY <2>1, <2>2
<1> QED BY <1>1 DEF Expression

LEMMA ExpressionKept ==
  ASSUME NEW h \in Texts, NEW g \in Texts, Prefix(h, g), NEW from \in Nat, NEW to \in Nat,
         NEW level, Expression(h, from, to, level)
  PROVE  Expression(g, from, to, level)
<1>1. /\ 1 <= from /\ from <= to /\ to <= Len(h) /\ Len(h) <= Len(g)
      /\ Len(h) \in Nat /\ Len(g) \in Nat /\ \A k \in 1 .. Len(h) : g[k] = h[k]
  BY DEF Expression, Prefix, Texts
<1>2. \A k \in from - 1 .. to : Up(g, k) = Up(h, k)
  <2>1. \A k \in from - 1 .. to : k \in 0 .. Len(h)
    BY <1>1
  <2> QED BY <2>1, UpKept
<1>3. ASSUME NEW k \in from + 1 .. to
      PROVE  IsBinary(g, k) = IsBinary(h, k) /\ g[k] = h[k]
  <2>1. k \in 1 .. Len(h) /\ k - 1 \in 1 .. Len(h)
    BY <1>1
  <2>2. g[k] = h[k] /\ g[k - 1] = h[k - 1]
    BY <1>1, <2>1
  <2> QED BY <2>2, Zenon DEF IsBinary
<1>4. g[to] = h[to] /\ to <= Len(g)
  BY <1>1
<1>5. from - 1 \in from - 1 .. to /\ to \in from - 1 .. to /\ \A k \in from .. to : k \in from - 1 .. to
  BY <1>1
<1>6. \A k \in from + 1 .. to : k \in from - 1 .. to
  BY <1>1
<1>7. \A k \in from .. to : Up(g, k) >= Up(g, from - 1)
  BY <1>2, <1>5 DEF Expression
<1>8. Up(g, to) = Up(g, from - 1)
  BY <1>2, <1>5 DEF Expression
<1>9. \A k \in from + 1 .. to : IsBinary(g, k) /\ Up(g, k) = Up(g, from - 1) => Level(g[k]) >= level
  BY <1>2, <1>3, <1>5, <1>6 DEF Expression
<1>10. g[to] \in EndsOperand
  BY <1>4 DEF Expression
<1> QED BY <1>1, <1>4, <1>7, <1>8, <1>9, <1>10 DEF Expression

(* One token.                                                              *)
LEMMA AtomExpression ==
  ASSUME NEW h \in Texts, NEW from \in 1 .. Len(h),
         h[from] \in {"IDENT", "INT_LITERAL", "KEYWORD_TRUE", "KEYWORD_FALSE"}
  PROVE  Expression(h, from, from, 11)
<1>1. Len(h) \in Nat /\ from \in Nat \ {0}
  BY DEF Texts
<1>2. h[from] \in EndsOperand /\ Weight(h[from]) = 0
  BY KindFacts
<1>3. Up(h, from) = Up(h, from - 1) + Weight(h[from]) /\ Up(h, from - 1) \in Int
  <2>1. from - 1 \in Nat
    BY <1>1
  <2> QED BY <1>1, <2>1, UpFacts
<1>4. from + 1 .. from = {} /\ from .. from = {from}
  BY <1>1
<1>5. Up(h, from) = Up(h, from - 1) /\ Up(h, from) >= Up(h, from - 1)
  BY <1>2, <1>3
<1> QED BY <1>1, <1>2, <1>4, <1>5 DEF Expression

(* The binary operators of a stretch that are outside parentheses.         *)
Outer(h, from, to) ==
  {k \in from + 1 .. to : IsBinary(h, k) /\ Up(h, k) = Up(h, from - 1)}

Loosest(h, S, k) ==
  k \in S /\ \A l \in S : Level(h[k]) <= Level(h[l]) /\ (Level(h[k]) = Level(h[l]) => l <= k)

LEMMA SplitsByOuter ==
  ASSUME NEW h, NEW n, NEW from \in Nat, NEW to \in Nat, n.from = from, n.to = to, 1 <= from, NEW k
  PROVE  SplitsAt(h, n, k) <=>
           IF Outer(h, from, to) = {} THEN k = from ELSE Loosest(h, Outer(h, from, to), k)
<1> DEFINE binary == {l \in from .. to : Depth(h, from, l) = 0 /\ IsBinary(h, l) /\ l > from}
<1>1. binary = Outer(h, from, to)
  <2>1. ASSUME NEW l \in from + 1 .. to PROVE Depth(h, from, l) = 0 <=> Up(h, l) = Up(h, from - 1)
    <3>1. l \in Nat /\ from <= l + 1 /\ from - 1 \in Nat
      OBVIOUS
    <3>2. Depth(h, from, l) = Up(h, l) - Up(h, from - 1) /\ Up(h, l) \in Int /\ Up(h, from - 1) \in Int
      BY <3>1, UpFacts
    <3> QED BY <3>2
  <2>2. \A l \in from .. to : l > from <=> l \in from + 1 .. to
    OBVIOUS
  <2>3. \A l \in from + 1 .. to : l \in from .. to
    OBVIOUS
  <2> QED BY <2>1, <2>2, <2>3 DEF Outer
<1>2. SplitsAt(h, n, k) <=>
        IF binary = {} THEN k = from
        ELSE /\ k \in binary
             /\ \A i \in binary : /\ Level(h[k]) <= Level(h[i])
                                  /\ Level(h[k]) = Level(h[i]) => i <= k
  BY Zenon DEF SplitsAt
<1> HIDE DEF binary
<1> QED BY <1>1, <1>2, Zenon DEF Loosest

LEMMA SplitKept ==
  ASSUME NEW h \in Texts, NEW g \in Texts, Prefix(h, g), NEW n, n.from \in Nat, n.to \in Nat,
         1 <= n.from, n.from <= n.to, n.to <= Len(h), NEW k, SplitsAt(h, n, k)
  PROVE  SplitsAt(g, n, k)
<1> DEFINE from == n.from
           to == n.to
<1>1. Len(h) \in Nat /\ \A l \in 1 .. Len(h) : g[l] = h[l]
  BY DEF Prefix, Texts
<1>2. \A l \in from - 1 .. to : Up(g, l) = Up(h, l)
  <2>1. \A l \in from - 1 .. to : l \in 0 .. Len(h)
    BY <1>1
  <2> QED BY <2>1, UpKept
<1>3. ASSUME NEW l \in from + 1 .. to
      PROVE  (IsBinary(g, l) <=> IsBinary(h, l)) /\ g[l] = h[l]
  <2>1. l \in 1 .. Len(h) /\ l - 1 \in 1 .. Len(h)
    BY <1>1
  <2>2. g[l] = h[l] /\ g[l - 1] = h[l - 1]
    BY <1>1, <2>1
  <2> QED BY <2>2, Zenon DEF IsBinary
<1>4. from - 1 \in from - 1 .. to /\ \A l \in from + 1 .. to : l \in from - 1 .. to
  OBVIOUS
<1> HIDE DEF from, to
<1>5. Outer(g, from, to) = Outer(h, from, to)
  BY <1>2, <1>3, <1>4 DEF Outer
<1>6. \A l \in Outer(h, from, to) : g[l] = h[l]
  BY <1>3 DEF Outer
<1>7. SplitsAt(h, n, k) <=>
        IF Outer(h, from, to) = {} THEN k = from ELSE Loosest(h, Outer(h, from, to), k)
  BY SplitsByOuter DEF from, to
<1>8. SplitsAt(g, n, k) <=>
        IF Outer(g, from, to) = {} THEN k = from ELSE Loosest(g, Outer(g, from, to), k)
  BY SplitsByOuter DEF from, to
<1>9. Loosest(h, Outer(h, from, to), k) => Loosest(g, Outer(h, from, to), k)
  BY <1>6, Zenon DEF Loosest
<1> QED BY <1>5, <1>7, <1>8, <1>9

(* A unary operator and its operand.                                       *)
LEMMA UnaryExpression ==
  ASSUME NEW h \in Texts, NEW from \in Nat, 1 <= from, NEW to \in Nat,
         h[from] \in UnaryOperator, Expression(h, from + 1, to, 11),
         NEW n, n.from = from, n.to = to
  PROVE  Expression(h, from, to, 11) /\ SplitsAt(h, n, from)
<1>1. /\ from + 1 <= to /\ to <= Len(h) /\ h[to] \in EndsOperand
      /\ \A k \in from .. to : Up(h, k) \in Int /\ Up(h, k) >= Up(h, from)
      /\ Up(h, to) = Up(h, from)
      /\ \A k \in from + 2 .. to : IsBinary(h, k) /\ Up(h, k) = Up(h, from) => Level(h[k]) >= 11
  <2>1. from + 1 \in Nat /\ from + 1 - 1 = from /\ from + 1 + 1 = from + 2
    OBVIOUS
  <2> QED BY <2>1, ExpressionTypes
<1>2. Up(h, from) = Up(h, from - 1)
  <2>1. from \in Nat \ {0} /\ from - 1 \in Nat
    OBVIOUS
  <2>2. Up(h, from) = Up(h, from - 1) + Weight(h[from]) /\ Up(h, from - 1) \in Int
    BY <2>1, UpFacts
  <2>3. Weight(h[from]) = 0
    BY KindFacts
  <2> QED BY <2>2, <2>3
<1>3. ~IsBinary(h, from + 1)
  <2>1. h[from] \notin EndsOperand /\ from + 1 - 1 = from
    BY KindFacts
  <2> QED BY <2>1 DEF IsBinary
<1>4. \A k \in from + 1 .. to : ~(IsBinary(h, k) /\ Up(h, k) = Up(h, from - 1))
  <2>1. SUFFICES ASSUME NEW k \in from + 1 .. to, IsBinary(h, k), Up(h, k) = Up(h, from - 1)
                 PROVE  FALSE
    OBVIOUS
  <2>2. k = from + 1 \/ k \in from + 2 .. to
    OBVIOUS
  <2>3. Level(h[k]) >= 11
    BY <1>1, <1>2, <1>3, <2>1, <2>2
  <2>4. Level(h[k]) \in 1 .. 10
    BY <2>1, OperatorFacts DEF IsBinary
  <2> QED BY <2>3, <2>4
<1>5. Expression(h, from, to, 11)
  BY <1>1, <1>2, <1>4 DEF Expression
<1>6. Outer(h, from, to) = {}
  BY <1>4 DEF Outer
<1> QED BY <1>5, <1>6, SplitsByOuter

(* A binary operator and its operands.                                     *)
LEMMA BinaryExpression ==
  ASSUME NEW h \in Texts, NEW from \in Nat, NEW to \in Nat, NEW op \in Nat, 1 <= op,
         NEW level \in 1 .. 10, h[op] \in Operators[level],
         Expression(h, from, op - 1, level), Expression(h, op + 1, to, level + 1),
         NEW n, n.from = from, n.to = to
  PROVE  Expression(h, from, to, level) /\ SplitsAt(h, n, op)
<1>inBody. op - 1 \in Nat /\ op + 1 \in Nat /\ op + 1 - 1 = op /\ op + 1 + 1 = op + 2 /\ op - 1 + 1 = op
  OBVIOUS
<1>1. /\ 1 <= from /\ from <= op - 1 /\ h[op - 1] \in EndsOperand
      /\ \A k \in from - 1 .. op - 1 : Up(h, k) \in Int /\ Up(h, k) >= Up(h, from - 1)
      /\ Up(h, op - 1) = Up(h, from - 1)
      /\ \A k \in from + 1 .. op - 1 :
           IsBinary(h, k) /\ Up(h, k) = Up(h, from - 1) => Level(h[k]) >= level
  BY <1>inBody, ExpressionTypes
<1>2. /\ op + 1 <= to /\ to <= Len(h) /\ h[to] \in EndsOperand
      /\ \A k \in op .. to : Up(h, k) \in Int /\ Up(h, k) >= Up(h, op)
      /\ Up(h, to) = Up(h, op)
      /\ \A k \in op + 2 .. to :
           IsBinary(h, k) /\ Up(h, k) = Up(h, op) => Level(h[k]) >= level + 1
  <2> DEFINE f == op + 1
  <2>1. f \in Nat /\ f - 1 = op /\ f + 1 = op + 2 /\ Expression(h, f, to, level + 1)
    BY <1>inBody
  <2> HIDE DEF f
  <2>2. /\ f <= to /\ to <= Len(h) /\ h[to] \in EndsOperand
        /\ \A k \in f - 1 .. to : Up(h, k) \in Int /\ Up(h, k) >= Up(h, f - 1)
        /\ Up(h, to) = Up(h, f - 1)
        /\ \A k \in f + 1 .. to :
             IsBinary(h, k) /\ Up(h, k) = Up(h, f - 1) => Level(h[k]) >= level + 1
    BY <2>1, ExpressionTypes
  <2> QED BY <2>1, <2>2 DEF f
<1>3. h[op] \in BinaryOperator /\ Level(h[op]) = level /\ h[op] \notin EndsOperand /\ Weight(h[op]) = 0
  BY OperatorFacts, KindFacts
<1>4. Up(h, op) = Up(h, from - 1)
  <2>1. op \in Nat \ {0}
    OBVIOUS
  <2>2. Up(h, op) = Up(h, op - 1) + Weight(h[op]) /\ Up(h, op - 1) \in Int
    BY <1>inBody, <2>1, UpFacts
  <2> QED BY <1>1, <1>3, <2>2
<1>5. IsBinary(h, op) /\ ~IsBinary(h, op + 1)
  <2>1. op > 1
    BY <1>1
  <2> QED BY <1>inBody, <1>1, <1>3, <2>1 DEF IsBinary
<1>6. ASSUME NEW k \in from + 1 .. to, IsBinary(h, k), Up(h, k) = Up(h, from - 1)
      PROVE  Level(h[k]) >= level /\ (Level(h[k]) = level => k <= op)
  <2>1. k \in from + 1 .. op - 1 \/ k = op \/ k = op + 1 \/ k \in op + 2 .. to
    BY <1>1, <1>2
  <2>2. Level(h[k]) \in Nat
    BY <1>6, OperatorFacts DEF IsBinary
  <2>3. CASE k \in from + 1 .. op - 1
    BY <1>1, <1>6, <2>3
  <2>4. CASE k = op
    BY <1>3, <2>4
  <2>5. CASE k \in op + 2 .. to
    <3>1. Level(h[k]) >= level + 1
      BY <1>2, <1>4, <1>6, <2>5
    <3> QED BY <2>2, <3>1
  <2> QED BY <1>5, <1>6, <2>1, <2>3, <2>4, <2>5
<1>7. \A k \in from .. to : Up(h, k) >= Up(h, from - 1)
  <2>1. \A k \in from .. to : k \in from - 1 .. op - 1 \/ k \in op .. to
    BY <1>1, <1>2
  <2> QED BY <1>1, <1>2, <1>4, <2>1
<1>8. Expression(h, from, to, level)
  <2>1. 1 <= from /\ from <= to
    BY <1>1, <1>2
  <2> QED BY <1>2, <1>4, <1>6, <1>7, <2>1 DEF Expression
<1>9. op \in Outer(h, from, to)
  <2>1. op \in from + 1 .. to
    BY <1>1, <1>2
  <2> QED BY <1>4, <1>5, <2>1 DEF Outer
<1>10. Loosest(h, Outer(h, from, to), op)
  <2>1. \A k \in Outer(h, from, to) : Level(h[k]) >= level /\ (Level(h[k]) = level => k <= op)
    BY <1>6 DEF Outer
  <2>2. \A k \in Outer(h, from, to) : Level(h[k]) \in Nat
    BY OperatorFacts DEF Outer, IsBinary
  <2> QED BY <1>3, <1>9, <2>1, <2>2 DEF Loosest
<1>11. SplitsAt(h, n, op)
  BY <1>1, <1>9, <1>10, SplitsByOuter
<1> QED BY <1>8, <1>11

(* An expression in parentheses.                                           *)
LEMMA GroupExpression ==
  ASSUME NEW h \in Texts, NEW from \in Nat, NEW to \in Nat, 1 <= from, from + 2 <= to, to <= Len(h),
         h[from] = "L_PAREN", h[to] = "R_PAREN", Expression(h, from + 1, to - 1, 1)
  PROVE  Expression(h, from, to, 11)
<1>inBody. from + 1 \in Nat /\ to - 1 \in Nat /\ from + 1 - 1 = from /\ from \in Nat \ {0} /\ to \in Nat \ {0}
      /\ from - 1 \in Nat
  OBVIOUS
<1>1. /\ \A k \in from .. to - 1 : Up(h, k) \in Int /\ Up(h, k) >= Up(h, from)
      /\ Up(h, to - 1) = Up(h, from)
  BY <1>inBody, ExpressionTypes
<1>2. /\ Up(h, from) = Up(h, from - 1) + Weight("L_PAREN") /\ Up(h, from - 1) \in Int
      /\ Up(h, to) = Up(h, to - 1) + Weight("R_PAREN") /\ Up(h, to) \in Int
  <2>1. /\ \A k \in Nat : Up(h, k) \in Int
        /\ \A k \in Nat \ {0} : Up(h, k) = Up(h, k - 1) + Weight(h[k])
    BY UpFacts, Zenon
  <2>2. Up(h, from) = Up(h, from - 1) + Weight(h[from]) /\ Up(h, to) = Up(h, to - 1) + Weight(h[to])
    BY <1>inBody, <2>1, Zenon
  <2> QED BY <1>inBody, <2>1, <2>2, Zenon
<1>3. Weight("L_PAREN") = 1 /\ Weight("R_PAREN") = -1 /\ "R_PAREN" \in EndsOperand
  BY DEF Weight, EndsOperand
<1>4. Up(h, to) = Up(h, from - 1) /\ Up(h, from) = Up(h, from - 1) + 1
  BY <1>1, <1>2, <1>3
<1>5. \A k \in from .. to : k \in from .. to - 1 \/ k = to
  OBVIOUS
<1>6. \A k \in from .. to : Up(h, k) >= Up(h, from - 1)
  BY <1>1, <1>2, <1>4, <1>5
<1>7. ASSUME NEW k \in from + 1 .. to, IsBinary(h, k), Up(h, k) = Up(h, from - 1)
      PROVE  Level(h[k]) >= 11
  <2>1. k = to
    BY <1>1, <1>2, <1>4, <1>5, <1>7
  <2>2. h[k] \in BinaryOperator
    BY <1>7 DEF IsBinary
  <2> QED BY <1>3, <2>1, <2>2, KindFacts
<1>8. 1 <= from /\ from <= to
  OBVIOUS
<1> QED BY <1>3, <1>4, <1>6, <1>7, <1>8 DEF Expression

(* A call without arguments.                                               *)
LEMMA CallExpression ==
  ASSUME NEW h \in Texts, NEW from \in Nat, NEW to \in Nat, to + 2 <= Len(h),
         h[to + 1] = "L_PAREN", h[to + 2] = "R_PAREN", Expression(h, from, to, 11)
  PROVE  Expression(h, from, to + 2, 11)
<1>1. /\ 1 <= from /\ from <= to
      /\ \A k \in from - 1 .. to : Up(h, k) \in Int /\ Up(h, k) >= Up(h, from - 1)
      /\ Up(h, to) = Up(h, from - 1)
      /\ \A k \in from + 1 .. to :
           IsBinary(h, k) /\ Up(h, k) = Up(h, from - 1) => Level(h[k]) >= 11
  BY ExpressionTypes
<1>2. to + 1 \in Nat \ {0} /\ to + 2 \in Nat \ {0} /\ to + 1 - 1 = to /\ to + 2 - 1 = to + 1
  OBVIOUS
<1>3. /\ Up(h, to + 1) = Up(h, to) + Weight("L_PAREN")
      /\ Up(h, to + 2) = Up(h, to + 1) + Weight("R_PAREN")
      /\ Up(h, to) \in Int /\ Up(h, from - 1) \in Int
  <2>1. \A k \in Nat \ {0} : Up(h, k) = Up(h, k - 1) + Weight(h[k])
    BY UpFacts
  <2>2. to + 1 \in Nat \ {0} /\ to + 2 \in Nat \ {0}
    BY <1>2
  <2>3. Up(h, to + 1) = Up(h, to + 1 - 1) + Weight(h[to + 1])
    BY <2>1, <2>2, SMTT(20)
  <2>4. Up(h, to + 2) = Up(h, to + 2 - 1) + Weight(h[to + 2])
    BY <2>1, <2>2, SMTT(20)
  <2>5. Up(h, to) \in Int /\ Up(h, from - 1) \in Int
    BY <1>1
  <2> QED BY <1>2, <2>3, <2>4, <2>5
<1>4. Weight("L_PAREN") = 1 /\ Weight("R_PAREN") = -1 /\ "R_PAREN" \in EndsOperand
  BY DEF Weight, EndsOperand
<1>5. Up(h, to + 1) = Up(h, from - 1) + 1 /\ Up(h, to + 2) = Up(h, from - 1)
  BY <1>1, <1>3, <1>4
<1>6. \A k \in from .. to + 2 : k \in from - 1 .. to \/ k = to + 1 \/ k = to + 2
  BY <1>1
<1>7. \A k \in from .. to + 2 : Up(h, k) >= Up(h, from - 1)
  BY <1>1, <1>3, <1>5, <1>6
<1>8. ASSUME NEW k \in from + 1 .. to + 2, IsBinary(h, k), Up(h, k) = Up(h, from - 1)
      PROVE  Level(h[k]) >= 11
  <2>1. h[k] \in BinaryOperator
    BY <1>8 DEF IsBinary
  <2>3. k # to + 1 /\ k # to + 2
    BY <1>4, <2>1, KindFacts
  <2>4. k \in from + 1 .. to
    BY <2>3
  <2> QED BY <1>1, <1>8, <2>4
<1>9. 1 <= from /\ from <= to + 2
  BY <1>1
<1> QED BY <1>4, <1>5, <1>7, <1>8, <1>9 DEF Expression

-----------------------------------------------------------------------------
(* The calls and the text.                                                 *)

LEMMA TypesOfTokens ==
  ASSUME NEW s \in Seq(Token)
  PROVE  /\ [k \in DOMAIN s |-> s[k].type] \in Texts
         /\ Len([k \in DOMAIN s |-> s[k].type]) = Len(s) /\ Len(s) \in Nat
         /\ \A k \in 1 .. Len(s) : [l \in DOMAIN s |-> s[l].type][k] = s[k].type
<1>1. \A t \in Token : t.type \in TokenType
  <2>1. \A t \in Literals : t.type = "INT_LITERAL"
    BY LiteralsAssumption
  <2>2. Other \subseteq TokenType
    BY OtherAssumption
  <2>3. "INT_LITERAL" \in TokenType /\ "END_OF_FILE" \in TokenType
    BY DEF TokenType
  <2> QED BY <2>1, <2>2, <2>3 DEF Token, EndOfFile
<1>2. Len(s) \in Nat /\ DOMAIN s = 1 .. Len(s) /\ \A k \in 1 .. Len(s) : s[k].type \in TokenType
  BY <1>1
<1> DEFINE h == [k \in DOMAIN s |-> s[k].type]
<1>3. h \in [1 .. Len(s) -> TokenType] /\ \A k \in 1 .. Len(s) : h[k] = s[k].type
  BY <1>2
<1> HIDE DEF h
<1>4. h \in Seq(TokenType) /\ Len(h) = Len(s)
  BY <1>2, <1>3, TabulatedFacts
<1> QED BY <1>2, <1>3, <1>4 DEF Texts, h

LEMMA HistoryFacts ==
  ASSUME ParserInv
  PROVE  /\ History \in Texts /\ Len(History) = Len(taken) /\ Len(taken) \in Nat
         /\ \A k \in 1 .. Len(taken) : History[k] = taken[k].type
<1>1. taken \in Seq(Token)
  BY DEF ParserInv, TextOK
<1> QED BY <1>1, TypesOfTokens DEF History

LEMMA HistoryGrows ==
  ASSUME ParserInv, ParserInv', Take \/ Stay
  PROVE  /\ History \in Texts /\ History' \in Texts /\ Prefix(History, History')
         /\ Len(History) = Len(taken) /\ Len(History') = Len(taken')
         /\ Len(taken) \in Nat /\ Len(taken') \in Nat
         /\ Stay => History' = History
         /\ Take => Len(taken') = Here /\ History'[Here] = ahead.type
<1>1. /\ History \in Texts /\ Len(History) = Len(taken) /\ Len(taken) \in Nat
      /\ \A k \in 1 .. Len(taken) : History[k] = taken[k].type
  BY HistoryFacts
<1>2. /\ History' \in Texts /\ Len(History') = Len(taken') /\ Len(taken') \in Nat
      /\ \A k \in 1 .. Len(taken') : History'[k] = taken'[k].type
  <2>1. taken' \in Seq(Token)
    BY DEF ParserInv, TextOK
  <2> QED BY <2>1, TypesOfTokens DEF History
<1>3. /\ Len(taken) <= Len(taken') /\ \A k \in 1 .. Len(taken) : taken'[k] = taken[k]
      /\ Take => Len(taken') = Here /\ taken'[Here] = ahead
  BY TextKept
<1>4. Stay => History' = History
  BY DEF Stay, History
<1>5. Take => Here \in 1 .. Len(taken')
  BY <1>1, <1>3 DEF Here
<1>6. Prefix(History, History')
  BY <1>1, <1>2, <1>3 DEF Prefix
<1> QED BY <1>1, <1>2, <1>3, <1>4, <1>5, <1>6

(* What fits depends only on the calls up to there.                        *)
LEMMA StartsAgree ==
  ASSUME NEW calls, NEW more, NEW n \in Nat, \A l \in 1 .. n : more[l] = calls[l], NEW from
  PROVE  StartsAt(calls, n, from) <=> StartsAt(more, n, from)
<1>1. \A j \in 1 .. n : Holder(calls, n, j) <=> Holder(more, n, j)
  BY DEF Holder
<1> QED BY <1>1 DEF StartsAt

LEMMA FitsAgree ==
  ASSUME NEW h, NEW calls, NEW more, NEW n \in Nat, n >= 1,
         \A l \in 1 .. n : more[l] = calls[l], CallFits(h, calls, n)
  PROVE  CallFits(h, more, n)
<1>1. more[n] = calls[n] /\ (n > 1 => more[n - 1] = calls[n - 1])
  OBVIOUS
<1>2. n - 1 \in Nat /\ \A l \in 1 .. n - 1 : more[l] = calls[l]
  OBVIOUS
<1>3. \A from : StartsAt(calls, n - 1, from) <=> StartsAt(more, n - 1, from)
  BY <1>2, StartsAgree
<1> QED BY <1>1, <1>3 DEF CallFits

LEMMA CallTextKept ==
  ASSUME NEW h \in Texts, NEW g \in Texts, Prefix(h, g), NEW call \in Frames, NEW first,
         CallOK(call, first, Len(h)), CallText(h, call)
  PROVE  CallText(g, call)
<1>1. Len(h) \in Nat /\ \A l \in 1 .. Len(h) : g[l] = h[l]
  BY DEF Prefix, Texts
<1>2. call.from \in Nat /\ call.op \in Nat
  BY DEF Frames
<1>3. ASSUME call.op # 0
      PROVE  /\ g[call.op] = h[call.op] /\ call.rule # "group"
             /\ Expression(h, call.from, call.op - 1, call.level) =>
                  Expression(g, call.from, call.op - 1, call.level)
  <2>1. call.op - 1 \in Nat /\ call.op \in 1 .. Len(h)
    BY <1>1, <1>2, <1>3 DEF CallOK, Opened
  <2>2. Expression(h, call.from, call.op - 1, call.level) =>
          Expression(g, call.from, call.op - 1, call.level)
    BY <1>2, <2>1, ExpressionKept
  <2>3. g[call.op] = h[call.op] /\ call.rule # "group"
    BY <1>1, <1>3, <2>1 DEF CallOK
  <2> QED BY <2>2, <2>3
<1>4. ASSUME call.rule = "group" PROVE g[call.from] = h[call.from]
  <2>1. call.from \in 1 .. Len(h)
    BY <1>1, <1>2, <1>4 DEF CallOK, Opened
  <2> QED BY <1>1, <2>1
<1>5. call.rule = "unary" => call.op # 0
  BY DEF CallOK
<1> QED BY <1>3, <1>4, <1>5 DEF CallText

LEMMA CallsFitKept ==
  ASSUME NEW h \in Texts, NEW g \in Texts, Prefix(h, g), NEW calls, CallsOK(calls, Len(h)),
         CallsFit(h, calls)
  PROVE  CallsFit(g, calls)
<1>1. ASSUME NEW k \in 1 .. Len(calls) PROVE CallText(g, calls[k])
  <2>1. calls[k] \in Frames /\ CallOK(calls[k], k = 1, Len(h)) /\ CallText(h, calls[k])
    BY DEF CallsOK, CallsFit, CallFits
  <2> QED BY <2>1, CallTextKept, Zenon
<1> QED BY <1>1 DEF CallsFit, CallFits

LEMMA PushFits ==
  ASSUME NEW h, NEW len, NEW calls, CallsOK(calls, len), CallsFit(h, calls),
         NEW call, CallText(h, call), Yields(call) = Awaits(Last(calls)),
         Opened(call) => StartsAt(calls, Len(calls), call.from)
  PROVE  CallsFit(h, Append(calls, call))
<1> DEFINE all == Append(calls, call)
           n == Len(calls)
<1>1. calls \in Seq(Frames) /\ n \in Nat /\ n >= 1 /\ Last(calls) = calls[n]
  BY DEF CallsOK, Last
<1>2. /\ Len(all) = n + 1 /\ all[n + 1] = call
      /\ \A k \in 1 .. n : all[k] = calls[k]
  BY <1>1
<1>3. \A k \in 1 .. n + 1 : k \in 1 .. n \/ k = n + 1
  BY <1>1
<1> HIDE DEF all
<1>4. ASSUME NEW k \in 1 .. n PROVE CallFits(h, all, k)
  <2>1. CallFits(h, calls, k) /\ k \in Nat /\ k >= 1
    BY DEF CallsFit
  <2>2. \A l \in 1 .. k : all[l] = calls[l]
    BY <1>1, <1>2
  <2> QED BY <2>1, <2>2, FitsAgree
<1>5. CallFits(h, all, n + 1)
  <2>1. n + 1 - 1 = n /\ all[n] = calls[n]
    BY <1>1, <1>2
  <2>2. Opened(call) => StartsAt(all, n, call.from)
    BY <1>1, <1>2, StartsAgree
  <2> QED BY <1>1, <1>2, <2>1, <2>2 DEF CallFits
<1>6. CallsFit(h, all)
  BY <1>2, <1>3, <1>4, <1>5 DEF CallsFit
<1> QED BY <1>6 DEF all

(* Where the expression for a new call begins.                             *)
LEMMA PushStarts ==
  ASSUME NEW len \in Nat, NEW calls, CallsOK(calls, len), NEW call \in Frames, Opened(call),
         call.from <= len, Begin(call) = len + 1
  PROVE  StartsAt(Append(calls, call), Len(Append(calls, call)), len + 1)
<1> DEFINE all == Append(calls, call)
           n == Len(calls)
<1>1. calls \in Seq(Frames) /\ n \in Nat
  BY DEF CallsOK
<1>2. /\ Len(all) = n + 1 /\ all[n + 1] = call
      /\ \A k \in 1 .. n : all[k] = calls[k]
  BY <1>1
<1>3. \A k \in 1 .. n + 1 : k \in 1 .. n \/ k = n + 1
  BY <1>1
<1> HIDE DEF all
<1>4. ~Plain(call)
  BY DEF Opened, Plain
<1>5. ASSUME NEW j \in 1 .. n + 1, Holder(all, n + 1, j) PROVE len + 1 = Begin(all[j])
  <2>1. j \notin 1 .. n
    <3>1. SUFFICES ASSUME j \in 1 .. n PROVE FALSE
      OBVIOUS
    <3>2. n + 1 \in j + 1 .. n + 1
      BY <1>1, <3>1
    <3> QED BY <1>2, <1>4, <1>5, <3>2 DEF Holder
  <2> QED BY <1>2, <1>3, <2>1
<1>6. ASSUME NEW j \in 1 .. n + 1, Opened(all[j]) PROVE all[j].from < len + 1
  <2>1. call.from \in Nat
    BY DEF Frames
  <2>2. CASE j = n + 1
    BY <1>2, <2>1, <2>2
  <2>3. CASE j \in 1 .. n
    <3>1. calls[j] \in Frames /\ CallOK(calls[j], j = 1, len) /\ all[j] = calls[j]
      BY <1>2, <2>3 DEF CallsOK
    <3>2. calls[j].from \in Nat /\ calls[j].from <= len
      BY <1>6, <3>1 DEF CallOK, Frames
    <3> QED BY <3>1, <3>2
  <2> QED BY <1>3, <2>2, <2>3
<1>7. StartsAt(all, n + 1, len + 1)
  BY <1>5, <1>6 DEF StartsAt
<1> QED BY <1>2, <1>7 DEF all

LEMMA PopFits ==
  ASSUME NEW h, NEW len, NEW calls, CallsOK(calls, len), CallsFit(h, calls),
         Last(calls).rule \notin {"return", "body"}
  PROVE  /\ CallsFit(h, Front(calls))
         /\ Awaits(Last(Front(calls))) = Yields(Last(calls))
         /\ Opened(Last(calls)) => StartsAt(Front(calls), Len(Front(calls)), Last(calls).from)
         /\ Plain(Last(calls)) => \A from : StartsAt(calls, Len(calls), from) =>
                                     StartsAt(Front(calls), Len(Front(calls)), from)
         /\ Len(Front(calls)) \in Nat /\ \A k \in 1 .. Len(Front(calls)) : k \in 1 .. Len(calls)
                                           /\ Front(calls)[k] = calls[k]
<1> DEFINE n == Len(calls)
           rest == Front(calls)
           call == Last(calls)
<1>1. calls \in Seq(Frames) /\ n \in Nat /\ n >= 1 /\ call = calls[n] /\ n \in 1 .. n
  BY DEF CallsOK, Last
<1>2. n # 1
  <2>1. CallOK(calls[n], n = 1, len)
    BY <1>1, Zenon DEF CallsOK
  <2> QED BY <1>1, <2>1 DEF CallOK
<1>3. rest \in Seq(Frames) /\ Len(rest) = n - 1 /\ \A k \in 1 .. n - 1 : rest[k] = calls[k]
  <2>1. \A q \in Nat : q >= 1 /\ q # 1 => q >= 2
    OBVIOUS
  <2>2. Len(calls) >= 2
    BY <1>1, <1>2, <2>1, Zenon
  <2> QED BY <1>1, <2>2, FrontFacts
<1>4. Last(rest) = rest[n - 1]
  BY <1>3, Zenon DEF Last
<1>5. CallFits(h, calls, n)
  BY <1>1 DEF CallsFit
<1> HIDE DEF rest, call, n
<1>6. n - 1 \in Nat /\ n - 1 >= 1 /\ n > 1 /\ n - 1 \in 1 .. n - 1
      /\ \A k \in 1 .. n - 1 : k \in 1 .. n /\ k \in Nat /\ k >= 1 /\ \A l \in 1 .. k : l \in 1 .. n - 1
  BY <1>1, <1>2
<1>7. CallsFit(h, rest)
  <2>1. ASSUME NEW k \in 1 .. n - 1 PROVE CallFits(h, rest, k)
    <3>1. CallFits(h, calls, k) /\ k \in Nat /\ k >= 1
      BY <1>6 DEF CallsFit, n
    <3>2. \A l \in 1 .. k : rest[l] = calls[l]
      BY <1>3, <1>6
    <3> QED BY <3>1, <3>2, FitsAgree
  <2> QED BY <1>3, <2>1 DEF CallsFit
<1>8. Awaits(Last(rest)) = Yields(call)
  <2>1. rest[n - 1] = calls[n - 1]
    BY <1>3, <1>6
  <2> QED BY <1>1, <1>4, <1>5, <1>6, <2>1 DEF CallFits
<1>9. Opened(call) => StartsAt(rest, n - 1, call.from)
  <2>1. Opened(call) => StartsAt(calls, n - 1, call.from)
    BY <1>1, <1>5 DEF CallFits
  <2> QED BY <1>3, <1>6, <2>1, StartsAgree
<1>10. ASSUME Plain(call), NEW from, StartsAt(calls, n, from) PROVE StartsAt(rest, n - 1, from)
  <2>1. StartsAt(calls, n - 1, from)
    <3>1. ASSUME NEW j \in 1 .. n - 1, Holder(calls, n - 1, j) PROVE Holder(calls, n, j)
      <4>1. \A l \in j + 1 .. n : l \in j + 1 .. n - 1 \/ l = n
        BY <1>1
      <4> QED BY <1>1, <1>6, <1>10, <3>1, <4>1 DEF Holder
    <3> QED BY <1>6, <1>10, <3>1 DEF StartsAt
  <2> QED BY <1>3, <1>6, <2>1, StartsAgree
<1> QED BY <1>3, <1>6, <1>7, <1>8, <1>9, <1>10 DEF rest, call, n

LEMMA JoinedFacts ==
  ASSUME NEW S, NEW s \in Seq(S), NEW t \in Seq(S)
  PROVE  /\ s \o t \in Seq(S) /\ Len(s \o t) = Len(s) + Len(t)
         /\ \A k \in 1 .. Len(s) : (s \o t)[k] = s[k]
         /\ \A k \in Len(s) + 1 .. Len(s) + Len(t) : (s \o t)[k] = t[k - Len(s)]
OBVIOUS

Waits(level) == [k \in 1 .. 11 - level |-> Waiting(level + k - 1)]

Descended(h, calls, all, from) ==
  /\ CallsFit(h, all) /\ Awaits(Last(all)) = 11
  /\ StartsAt(all, Len(all), from)
  /\ \A k \in 1 .. Len(all) : (Opened(all[k]) \/ all[k].op # 0) =>
       k \in 1 .. Len(calls) /\ all[k] = calls[k]
  /\ \A k \in 1 .. Len(calls) : k \in 1 .. Len(all) /\ all[k] = calls[k]

LEMMA DescentFits ==
  ASSUME NEW h, NEW len, NEW calls, CallsOK(calls, len), CallsFit(h, calls),
         NEW level \in 1 .. 11, Awaits(Last(calls)) = level,
         NEW from, StartsAt(calls, Len(calls), from),
         NEW all, all = calls \o Waits(level)
  PROVE  Descended(h, calls, all, from)
<1> DEFINE waits == Waits(level)
           n == Len(calls)
           m == 11 - level
<1>1. calls \in Seq(Frames) /\ n \in Nat /\ n >= 1 /\ m \in Nat /\ Last(calls) = calls[n]
  BY DEF CallsOK, Last
<1>2. \A k \in 1 .. m : level + k - 1 \in 1 .. 10
  OBVIOUS
<1>3. \A k \in 1 .. m : waits[k] = Waiting(level + k - 1) /\ waits[k] \in Frames
  BY <1>2, WaitingFacts DEF Waits
<1>4. waits \in Seq(Frames) /\ Len(waits) = m
  <2>1. waits \in [1 .. m -> Frames]
    BY <1>3 DEF Waits
  <2> HIDE DEF waits, m
  <2> QED BY <1>1, <2>1, TabulatedFacts
<1>5. all = calls \o waits
  OBVIOUS
<1> HIDE DEF waits
<1>6. /\ all \in Seq(Frames) /\ Len(all) = n + m
      /\ \A k \in 1 .. n : all[k] = calls[k]
      /\ \A k \in n + 1 .. n + m : all[k] = waits[k - n]
  <2>1. calls \in Seq(Frames) /\ waits \in Seq(Frames) /\ n = Len(calls) /\ Len(waits) = m
    BY <1>1, <1>4
  <2> HIDE DEF n, m
  <2>2. /\ all \in Seq(Frames) /\ Len(all) = Len(calls) + Len(waits)
        /\ \A k \in 1 .. Len(calls) : all[k] = calls[k]
        /\ \A k \in Len(calls) + 1 .. Len(calls) + Len(waits) : all[k] = waits[k - Len(calls)]
    <3>1. /\ calls \o waits \in Seq(Frames) /\ Len(calls \o waits) = Len(calls) + Len(waits)
          /\ \A k \in 1 .. Len(calls) : (calls \o waits)[k] = calls[k]
          /\ \A k \in Len(calls) + 1 .. Len(calls) + Len(waits) :
               (calls \o waits)[k] = waits[k - Len(calls)]
      BY <2>1, JoinedFacts, Zenon
    <3> QED BY <1>5, <3>1, Zenon
  <2> QED BY <2>1, <2>2
<1>7. ASSUME NEW k \in n + 1 .. n + m
      PROVE  /\ all[k].rule = "level" /\ all[k].level = level + (k - n) - 1 /\ all[k].op = 0
             /\ ~Opened(all[k]) /\ Plain(all[k])
  <2>1. k - n \in 1 .. m
    BY <1>1
  <2>2. all[k] = Waiting(level + (k - n) - 1)
    BY <1>3, <1>6, <2>1
  <2> QED BY <2>2 DEF Waiting, Opened, Plain
<1>8. \A k \in 1 .. n + m : k \in 1 .. n \/ k \in n + 1 .. n + m
  BY <1>1
<1>9. ASSUME NEW k \in 1 .. n PROVE CallFits(h, all, k)
  <2>1. CallFits(h, calls, k) /\ k \in Nat /\ k >= 1
    BY DEF CallsFit
  <2>2. \A l \in 1 .. k : all[l] = calls[l]
    BY <1>1, <1>6
  <2> QED BY <2>1, <2>2, FitsAgree
<1>10. ASSUME NEW k \in n + 1 .. n + m PROVE CallFits(h, all, k)
  <2>1. CallText(h, all[k]) /\ ~Opened(all[k])
    BY <1>7 DEF CallText
  <2>2. Yields(all[k]) = level + (k - n) - 1
    BY <1>7 DEF Yields
  <2>3. Awaits(all[k - 1]) = level + (k - n) - 1
    <3>1. CASE k = n + 1
      <4>1. k - 1 = n /\ level + (k - n) - 1 = level /\ n \in 1 .. n
        BY <1>1, <3>1
      <4>2. all[k - 1] = calls[n]
        BY <1>6, <4>1
      <4> QED BY <1>1, <4>1, <4>2
    <3>2. CASE k # n + 1
      <4>1. k - 1 \in n + 1 .. n + m /\ k \in Int /\ n \in Int
        BY <1>1, <3>2
      <4>2. all[k - 1].rule = "level" /\ all[k - 1].level = level + (k - 1 - n) - 1
        BY <1>7, <4>1
      <4>3. level + (k - 1 - n) - 1 + 1 = level + (k - n) - 1
        BY <4>1
      <4> QED BY <4>2, <4>3 DEF Awaits
    <3> QED BY <3>1, <3>2
  <2> QED BY <2>1, <2>2, <2>3 DEF CallFits
<1>11. CallsFit(h, all)
  BY <1>6, <1>8, <1>9, <1>10 DEF CallsFit
<1>12. Awaits(Last(all)) = 11
  <2>1. Last(all) = all[n + m]
    BY <1>6, Zenon DEF Last
  <2>2. CASE m = 0
    <3>1. n + m = n /\ n \in 1 .. n /\ level = 11
      BY <1>1, <2>2
    <3> QED BY <1>1, <1>6, <2>1, <3>1
  <2>3. CASE m # 0
    <3> DEFINE last == n + m
    <3>1. last \in n + 1 .. n + m /\ level + (last - n) - 1 + 1 = 11
      BY <1>1, <2>3
    <3> HIDE DEF last
    <3>2. all[last].rule = "level" /\ all[last].level = level + (last - n) - 1
      BY <1>7, <3>1
    <3>3. Awaits(all[last]) = 11
      BY <3>1, <3>2 DEF Awaits
    <3> QED BY <2>1, <3>3 DEF last
  <2> QED BY <2>2, <2>3
<1>13. StartsAt(all, n + m, from)
  <2>1. ASSUME NEW j \in 1 .. n + m, Holder(all, n + m, j) PROVE from = Begin(all[j])
    <3>1. j \in 1 .. n
      BY <1>7, <1>8, <2>1 DEF Holder
    <3>2. \A l \in j + 1 .. n : l \in j + 1 .. n + m /\ l \in 1 .. n
      BY <1>1
    <3>3. Holder(calls, n, j)
      BY <1>6, <2>1, <3>1, <3>2 DEF Holder
    <3> QED BY <1>6, <3>1, <3>3 DEF StartsAt
  <2>2. ASSUME NEW j \in 1 .. n + m, Opened(all[j]) PROVE all[j].from < from
    <3>1. j \in 1 .. n
      BY <1>7, <1>8, <2>2
    <3> QED BY <1>6, <2>2, <3>1 DEF StartsAt
  <2> QED BY <2>1, <2>2 DEF StartsAt
<1>14. \A k \in 1 .. n + m : (Opened(all[k]) \/ all[k].op # 0) => k \in 1 .. n /\ all[k] = calls[k]
  BY <1>6, <1>7, <1>8
<1>15. \A k \in 1 .. n : k \in 1 .. n + m /\ all[k] = calls[k]
  BY <1>1, <1>6
<1> QED BY <1>6, <1>11, <1>12, <1>13, <1>14, <1>15 DEF Descended

-----------------------------------------------------------------------------
(* The nodes and the text.                                                 *)

Spread(nodes, len) ==
  /\ nodes \subseteq [op : Nat, from : Nat, to : Nat]
  /\ \A n \in nodes : 1 <= n.from /\ n.from <= n.op /\ n.op < n.to /\ n.to <= len

LEMMA SpreadTypes ==
  ASSUME NEW len \in Nat, NEW nodes, Spread(nodes, len), NEW n \in nodes
  PROVE  /\ n.op \in Nat /\ n.from \in Nat /\ n.to \in Nat
         /\ 1 <= n.from /\ n.from <= n.op /\ n.op < n.to /\ n.to <= len /\ n.op # 0
<1>1. n \in [op : Nat, from : Nat, to : Nat] /\ 1 <= n.from /\ n.from <= n.op /\ n.op < n.to /\ n.to <= len
  BY DEF Spread
<1> DEFINE p == n.from
           q == n.op
<1>2. p \in Nat /\ q \in Nat /\ n.to \in Nat /\ 1 <= p /\ p <= q
  BY <1>1
<1> HIDE DEF p, q
<1>3. q # 0
  BY <1>2
<1> QED BY <1>1, <1>2, <1>3 DEF p, q

LEMMA NodesFitKept ==
  ASSUME NEW h \in Texts, NEW g \in Texts, Prefix(h, g), NEW nodes, Spread(nodes, Len(h)),
         NodesFit(h, nodes)
  PROVE  NodesFit(g, nodes)
<1>1. ASSUME NEW n \in nodes PROVE 1 <= n.from /\ SplitsAt(g, n, n.op)
  <2>1. Len(h) \in Nat
    BY DEF Texts
  <2>2. n.from \in Nat /\ n.to \in Nat /\ 1 <= n.from /\ n.from <= n.to /\ n.to <= Len(h)
    <3>1. /\ n.op \in Nat /\ n.from \in Nat /\ n.to \in Nat
          /\ 1 <= n.from /\ n.from <= n.op /\ n.op < n.to /\ n.to <= Len(h)
      BY <2>1, SpreadTypes
    <3>2. \A p, q, r \in Nat : p <= q /\ q < r => p <= r
      OBVIOUS
    <3> QED BY <3>1, <3>2
  <2>3. SplitsAt(h, n, n.op)
    BY DEF NodesFit
  <2> QED BY <2>2, <2>3, SplitKept
<1> QED BY <1>1 DEF NodesFit

(* What covers the text covers a longer one, if it has the operators that  *)
(* were added.                                                             *)
LEMMA CoveredKept ==
  ASSUME NEW h \in Texts, NEW g \in Texts, Prefix(h, g),
         NEW nodes, NEW calls, Covered(h, nodes, calls), NEW others, NEW more,
         \A i \in Nat \ {0} : Kept(nodes, calls, i) => Kept(others, more, i),
         \A i \in Len(h) + 1 .. Len(g) : IsBinary(g, i) \/ IsUnary(g, i) => Kept(others, more, i)
  PROVE  Covered(g, others, more)
<1>1. Len(h) \in Nat /\ Len(g) \in Nat /\ \A l \in 1 .. Len(h) : g[l] = h[l]
  BY DEF Prefix, Texts
<1>2. ASSUME NEW i \in 1 .. Len(h), IsBinary(g, i) \/ IsUnary(g, i) PROVE Kept(others, more, i)
  <2>1. g[i] = h[i] /\ i \in Nat \ {0}
    BY <1>1
  <2>2. i > 1 => g[i - 1] = h[i - 1]
    <3>1. i > 1 => i - 1 \in 1 .. Len(h)
      BY <1>1
    <3> QED BY <1>1, <3>1
  <2>3. IsBinary(h, i) \/ IsUnary(h, i)
    BY <1>2, <2>1, <2>2 DEF IsBinary, IsUnary
  <2> QED BY <2>1, <2>3 DEF Covered
<1>3. \A i \in 1 .. Len(g) : i \in 1 .. Len(h) \/ i \in Len(h) + 1 .. Len(g)
  BY <1>1
<1> QED BY <1>2, <1>3 DEF Covered

(* Tokens that are no operators.                                           *)
LEMMA OtherKinds ==
  ASSUME NEW type \in {"KEYWORD_FN", "IDENT", "INT_LITERAL", "KEYWORD_TRUE", "KEYWORD_FALSE",
                       "KEYWORD_RETURN", "SEMICOLON", "L_PAREN", "R_PAREN", "COLON", "THIN_ARROW",
                       "L_CURLY_BRACKET", "R_CURLY_BRACKET", "END_OF_FILE"}
  PROVE  type \notin BinaryOperator \cup UnaryOperator
<1>1. ASSUME type \in BinaryOperator PROVE FALSE
  <2>1. PICK k \in 1 .. 10 : type \in Operators[k]
    BY <1>1, OperatorFacts
  <2>2. k \in {1, 2, 3, 4, 5, 6, 7, 8, 9, 10}
    OBVIOUS
  <2> QED BY <2>1, <2>2 DEF Operators
<1>2. type \notin UnaryOperator
  BY DEF UnaryOperator
<1> QED BY <1>1, <1>2

(* The calls and the nodes.                                                *)
LEMMA SeparateAgree ==
  ASSUME NEW len \in Nat, NEW nodes, Spread(nodes, len), NEW calls, Separate(nodes, calls),
         NEW more,
         \A k \in 1 .. Len(more) : \/ k \in 1 .. Len(calls) /\ more[k] = calls[k]
                                   \/ more[k].op = 0 /\ ~Opened(more[k])
                                   \/ /\ \A n \in nodes : n.op # more[k].op
                                      /\ AllClear(nodes, more[k].from)
  PROVE  Separate(nodes, more)
<1>1. \A n \in nodes : n.op # 0
  BY SpreadTypes
<1>2. ASSUME NEW n \in nodes, NEW k \in 1 .. Len(more)
      PROVE  n.op # more[k].op /\ (Opened(more[k]) => Clear(n, more[k].from))
  <2>1. CASE k \in 1 .. Len(calls) /\ more[k] = calls[k]
    BY <2>1 DEF Separate
  <2>2. CASE more[k].op = 0 /\ ~Opened(more[k])
    BY <1>1, <2>2
  <2>3. CASE (\A l \in nodes : l.op # more[k].op) /\ AllClear(nodes, more[k].from)
    BY <2>3 DEF AllClear
  <2> QED BY <2>1, <2>2, <2>3
<1> QED BY <1>2 DEF Separate

LEMMA BehindAll ==
  ASSUME NEW len \in Nat, NEW nodes, Spread(nodes, len), NEW from, from = len + 1
  PROVE  AllClear(nodes, from) /\ \A n \in nodes : n.op # from
<1>1. ASSUME NEW n \in nodes PROVE n.to < from /\ n.op # from
  <2>1. /\ n.op \in Nat /\ n.to \in Nat /\ n.op < n.to /\ n.to <= len
    BY SpreadTypes
  <2>2. \A p, q \in Nat : p < q /\ q <= len => q < len + 1 /\ p # len + 1
    OBVIOUS
  <2> QED BY <2>1, <2>2
<1> QED BY <1>1 DEF AllClear, Clear

(* A node around all that has been read from a place on.                   *)
LEMMA NodeAdded ==
  ASSUME NEW len \in Nat, NEW nodes, Spread(nodes, len), Nested(nodes),
         NEW calls, Separate(nodes, calls),
         NEW new \in [op : Nat, from : Nat, to : Nat],
         1 <= new.from, new.from <= new.op, new.op < new.to, new.to = len,
         AllClear(nodes, new.from), \A n \in nodes : n.op # new.op,
         \A k \in 1 .. Len(calls) : /\ calls[k] \in Frames /\ calls[k].op < new.from
                                    /\ Opened(calls[k]) => calls[k].from < new.from
  PROVE  /\ Spread(nodes \cup {new}, len) /\ Nested(nodes \cup {new})
         /\ Separate(nodes \cup {new}, calls) /\ AllClear(nodes \cup {new}, new.from)
<1>1. Spread(nodes \cup {new}, len)
  BY DEF Spread
<1>2. new.from \in Nat /\ new.op \in Nat
  OBVIOUS
<1>3. ASSUME NEW n \in nodes PROVE Apart(n, new) /\ Apart(new, n)
  <2>1. n.op # new.op /\ (n.to < new.from \/ new.from <= n.from) /\ n.to <= new.to
    BY DEF AllClear, Clear, Spread
  <2> QED BY <2>1 DEF Apart
<1>4. Nested(nodes \cup {new})
  <2>1. Apart(new, new)
    BY DEF Apart
  <2> QED BY <1>3, <2>1 DEF Nested
<1>5. ASSUME NEW k \in 1 .. Len(calls)
      PROVE  new.op # calls[k].op /\ (Opened(calls[k]) => Clear(new, calls[k].from))
  <2>1. calls[k].op \in Nat /\ calls[k].from \in Nat /\ calls[k].op < new.from
    BY DEF Frames
  <2>2. \A p, q, r \in Nat : p < q /\ q <= r => r # p
    OBVIOUS
  <2>3. new.op # calls[k].op
    BY <1>2, <2>1, <2>2
  <2>4. Opened(calls[k]) => calls[k].from <= new.from
    BY <1>2, <2>1
  <2> QED BY <2>3, <2>4 DEF Clear
<1>6. Separate(nodes \cup {new}, calls)
  BY <1>5 DEF Separate
<1>7. Clear(new, new.from)
  BY <1>2 DEF Clear
<1> QED BY <1>1, <1>4, <1>6, <1>7 DEF AllClear

-----------------------------------------------------------------------------
(* What all steps have in common.                                          *)

LEMMA TreeFacts ==
  ASSUME TreeInv
  PROVE  /\ ParserInv
         /\ Spread(built, Len(taken)) /\ NodesFit(History, built) /\ Nested(built)
         /\ Separate(built, stack) /\ Covered(History, built, stack)
<1>1. /\ built \subseteq [op : Nat, from : Nat, to : Nat]
      /\ \A n \in built : n.from <= n.op /\ n.op < n.to /\ n.to <= Len(taken)
  BY DEF TreeInv, ParserInv, BuiltOK
<1>2. \A n \in built : 1 <= n.from
  BY DEF TreeInv, BuiltFits, NodesFit
<1>3. Spread(built, Len(taken))
  BY <1>1, <1>2 DEF Spread
<1> QED BY <1>3 DEF TreeInv, BuiltFits

(* A step within an expression, to another place in it.                    *)
LEMMA ReadingFits ==
  ASSUME TreeInv, ParserInv', Take \/ Stay, CallsFit(History', stack'),
         NodeFits', NodesFit(History', built'), Nested(built'), Separate(built', stack'),
         Returning' => AllClear(built', node'.from),
         Covered(History', built', stack')
  PROVE  TreeInv'
<1>1. StackFits'
  BY DEF StackFits
<1>2. BuiltFits'
  BY DEF BuiltFits
<1> QED BY <1>1, <1>2 DEF TreeInv

(* The nodes stay as they are.                                             *)
LEMMA BuiltStays ==
  ASSUME TreeInv, ParserInv', Take \/ Stay, built' = built
  PROVE  NodesFit(History', built') /\ Nested(built')
<1>1. /\ History \in Texts /\ History' \in Texts /\ Prefix(History, History')
      /\ Len(History) = Len(taken)
  BY TreeFacts, HistoryGrows
<1> QED BY <1>1, TreeFacts, NodesFitKept

(* A step that keeps all operators: if it takes one, a call waits for it.  *)
LEMMA CoveredStays ==
  ASSUME TreeInv, ParserInv', Take \/ Stay, NEW nodes, NEW calls,
         \A i \in Nat \ {0} : Kept(built, stack, i) => Kept(nodes, calls, i),
         Take => ahead.type \notin BinaryOperator \cup UnaryOperator \/ Kept(nodes, calls, Here)
  PROVE  Covered(History', nodes, calls)
<1>1. /\ History \in Texts /\ History' \in Texts /\ Prefix(History, History')
      /\ Len(History) = Len(taken) /\ Len(History') = Len(taken')
      /\ Len(taken) \in Nat
      /\ Stay => History' = History
      /\ Take => Len(taken') = Here /\ History'[Here] = ahead.type
  BY TreeFacts, HistoryGrows
<1>2. Here = Len(taken) + 1
  BY DEF Here
<1>3. ASSUME NEW i \in Len(History) + 1 .. Len(History'),
             IsBinary(History', i) \/ IsUnary(History', i)
      PROVE  Kept(nodes, calls, i)
  <2>1. History'[i] \in BinaryOperator \cup UnaryOperator
    BY <1>3 DEF IsBinary, IsUnary
  <2>2. CASE Stay /\ ~Take
    <3>1. Len(History') = Len(History)
      BY <1>1, <2>2
    <3> QED BY <1>1, <3>1
  <2>3. CASE Take
    <3>1. i = Here
      BY <1>1, <1>2, <2>3
    <3> QED BY <1>1, <2>1, <2>3, <3>1
  <2> QED BY <2>2, <2>3
<1>4. Covered(History, built, stack)
  BY TreeFacts
<1> QED BY <1>1, <1>3, <1>4, CoveredKept

(* The calls as they are, with what they have read.                        *)
LEMMA CallsStay ==
  ASSUME TreeInv, ParserInv', InExpression, Take \/ Stay
  PROVE  CallsFit(History', stack)
<1>1. /\ History \in Texts /\ History' \in Texts /\ Prefix(History, History')
      /\ Len(History) = Len(taken)
  BY TreeFacts, HistoryGrows
<1>2. CallsOK(stack, Len(taken)) /\ CallsFit(History, stack)
  BY OperandFacts DEF TreeInv, StackFits
<1> QED BY <1>1, <1>2, CallsFitKept

(* The parser fails.                                                       *)
LEMMA FailFits ==
  ASSUME TreeInv, ParserInv', NEW error, Fail(error)
  PROVE  TreeInv'
<1>1. at' = "ended" /\ UNCHANGED <<taken, ahead, stack, node, built, values>>
  BY DEF Fail
<1>2. History' = History
  BY <1>1 DEF History
<1>3. ~InExpression' /\ ~Returning' /\ NodeFits'
  BY <1>1 DEF InExpression, Returning, NodeFits
<1>4. BuiltFits' /\ Covered(History, built, stack)'
  BY <1>1, <1>2, <1>3 DEF TreeInv, BuiltFits
<1> QED BY <1>3, <1>4 DEF TreeInv, StackFits

(* A step between two places outside expressions.                          *)
LEMMA OutsideFits ==
  ASSUME TreeInv, ParserInv', Take \/ Stay, UNCHANGED <<stack, built>>,
         ~InExpression',
         Take => ahead.type \notin BinaryOperator \cup UnaryOperator
  PROVE  TreeInv'
<1>1. NodesFit(History', built') /\ Nested(built')
  BY BuiltStays
<1>2. Covered(History', built', stack')
  BY CoveredStays
<1>3. Separate(built', stack')
  BY TreeFacts
<1>4. ~Returning' /\ NodeFits' /\ StackFits'
  BY DEF InExpression, Returning, NodeFits, StackFits
<1>5. BuiltFits'
  BY <1>1, <1>3, <1>4 DEF BuiltFits
<1> QED BY <1>2, <1>4, <1>5 DEF TreeInv

-----------------------------------------------------------------------------
(* Outside expressions.                                                    *)

LEMMA TopLevelFits ==
  ASSUME TreeInv, ParserInv', TopLevel
  PROVE  TreeInv'
<1>1. (Take \/ Stay) /\ at' \in {"name", "end"} /\ UNCHANGED <<stack, built>>
  BY DEF TopLevel, GoTo
<1>2. Take => ahead.type \notin BinaryOperator \cup UnaryOperator
  <2>1. CASE ahead.type = "KEYWORD_FN"
    BY <2>1, OtherKinds
  <2>2. CASE ahead.type # "KEYWORD_FN"
    <3>1. Stay
      BY <2>2 DEF TopLevel
    <3>2. ~Take
      BY <3>1, TextKept, TreeFacts DEF Stay, Here
    <3> QED BY <3>2
  <2> QED BY <2>1, <2>2
<1>3. ~InExpression'
  BY <1>1 DEF InExpression
<1> QED BY <1>1, <1>2, <1>3, OutsideFits

LEMMA ArgumentsFits ==
  ASSUME TreeInv, ParserInv', Arguments
  PROVE  TreeInv'
<1>1. at' \in {"colon", "arrow"} /\ UNCHANGED <<stack, built>>
  BY DEF Arguments, GoTo
<1>2. (Take /\ ahead.type \in {"IDENT", "R_PAREN"}) \/ Stay
  BY DEF Arguments
<1>3. ~InExpression'
  BY <1>1 DEF InExpression
<1>4. CASE Take /\ ahead.type \in {"IDENT", "R_PAREN"}
  BY <1>1, <1>3, <1>4, OtherKinds, OutsideFits
<1>5. CASE Stay
  <2>1. ~Take
    BY <1>5, TextKept, TreeFacts DEF Stay, Here
  <2> QED BY <1>1, <1>3, <1>5, <2>1, OutsideFits
<1> QED BY <1>2, <1>4, <1>5

LEMMA ReturnTypeFits ==
  ASSUME TreeInv, ParserInv', ReturnType
  PROVE  TreeInv'
<1>1. at' \in {"type", "open"} /\ UNCHANGED <<stack, built>>
  BY DEF ReturnType, GoTo
<1>2. (Take /\ ahead.type = "THIN_ARROW") \/ Stay
  BY DEF ReturnType
<1>3. ~InExpression'
  BY <1>1 DEF InExpression
<1>4. CASE Take /\ ahead.type = "THIN_ARROW"
  BY <1>1, <1>3, <1>4, OtherKinds, OutsideFits
<1>5. CASE Stay
  <2>1. ~Take
    BY <1>5, TextKept, TreeFacts DEF Stay, Here
  <2> QED BY <1>1, <1>3, <1>5, <2>1, OutsideFits
<1> QED BY <1>2, <1>4, <1>5

LEMMA ExpectFits ==
  ASSUME TreeInv, ParserInv', Expect
  PROVE  TreeInv'
<1>1. CASE Fail(UnexpectedToken(ahead.type))
  BY <1>1, FailFits
<1>2. CASE /\ at \in DOMAIN Expected /\ Take /\ at' = Follows[at] /\ ahead.type = Expected[at]
           /\ UNCHANGED <<stack, node, built, values>>
  <2>1. at \in {"name", "l_paren", "colon", "type", "open", "close", "return_end", "end"}
    BY <1>2 DEF Expected
  <2>2. at' \in {"l_paren", "args", "type", "open", "body", "top", "ended"}
    BY <1>2, <2>1 DEF Follows
  <2>3. ahead.type \in {"IDENT", "L_PAREN", "COLON", "L_CURLY_BRACKET", "R_CURLY_BRACKET",
                        "SEMICOLON", "END_OF_FILE"}
    BY <1>2, <2>1 DEF Expected
  <2>4. ahead.type \notin BinaryOperator \cup UnaryOperator
    BY <2>3, OtherKinds
  <2>5. ~InExpression'
    BY <2>2 DEF InExpression
  <2> QED BY <1>2, <2>4, <2>5, OutsideFits
<1> QED BY <1>1, <1>2 DEF Expect

LEMMA CallDescends ==
  ASSUME NEW h, NEW len, NEW calls, CallsOK(calls, len), CallsFit(h, calls),
         NEW level \in 1 .. 11, Awaits(Last(calls)) = level,
         NEW from, StartsAt(calls, Len(calls), from), Call(calls, level)
  PROVE  Descended(h, calls, stack', from)
<1>1. stack' = calls \o Waits(level)
  BY Zenon DEF Call, Waits
<1> QED BY <1>1, DescentFits, Zenon

(* The call of an expression, from a body or from a return.                *)
LEMMA EnterFits ==
  ASSUME TreeInv, ParserInv', ~InExpression, at # "ended", Stay, NEW rule \in {"body", "return"},
         Call(<<Frame(rule)>>, 1), UNCHANGED <<node, built, values>>
  PROVE  TreeInv'
<1> DEFINE calls == <<Frame(rule)>>
<1>1. at' = "operand" /\ Call(calls, 1)
  BY DEF Call, GoTo
<1>2. ParserInv /\ CallsOK(calls, Len(taken)) /\ Len(taken) \in Nat
  BY TreeFacts, FrameFacts, TokenFacts
<1>3. Len(calls) = 1 /\ calls[1] = Frame(rule) /\ Last(calls) = Frame(rule)
  BY DEF Last
<1>4. /\ Frame(rule).rule = rule /\ Frame(rule).op = 0 /\ Frame(rule).from = Here
      /\ ~Opened(Frame(rule)) /\ Begin(Frame(rule)) = Here
      /\ Awaits(Frame(rule)) = 1
  BY DEF Frame, Opened, Begin, Awaits
<1> HIDE DEF calls
<1>5. CallsFit(History, calls)
  <2>1. CallText(History, Frame(rule))
    BY <1>4 DEF CallText
  <2>2. ~(1 > 1)
    OBVIOUS
  <2>3. CallFits(History, calls, 1)
    BY <1>3, <1>4, <2>1, <2>2 DEF CallFits
  <2> QED BY <1>3, <2>3 DEF CallsFit
<1>6. StartsAt(calls, Len(calls), Here)
  <2>1. \A j \in 1 .. 1 : j = 1
    OBVIOUS
  <2> QED BY <1>3, <1>4, <2>1 DEF StartsAt
<1>7. Descended(History, calls, stack', Here)
  <2>1. Awaits(Last(calls)) = 1 /\ 1 \in 1 .. 11
    BY <1>3, <1>4
  <2> QED BY <1>1, <1>2, <1>5, <1>6, <2>1, CallDescends
<1>8. History' = History /\ Here' = Here
  BY DEF Stay, History, Here
<1>9. NodeFits' /\ ~Returning'
  BY <1>1, <1>7, <1>8 DEF NodeFits, Returning, Descended
<1>10. NodesFit(History', built') /\ Nested(built')
  BY BuiltStays
<1>11. \A k \in 1 .. Len(stack') : stack'[k].op = 0 /\ ~Opened(stack'[k])
  BY <1>3, <1>4, <1>7 DEF Descended
<1>12. Separate(built, stack')
  BY <1>2, <1>11, TreeFacts, SeparateAgree
<1>13. Covered(History', built', stack')
  <2>1. Len(stack) = 0
    BY <1>2 DEF ParserInv, StackOK
  <2>2. \A i \in Nat \ {0} : Kept(built, stack, i) => Kept(built', stack', i)
    BY <2>1 DEF Kept
  <2>3. ~Take
    BY <1>2, TextKept DEF Stay, Here
  <2> QED BY <2>2, <2>3, CoveredStays
<1> QED BY <1>7, <1>8, <1>9, <1>10, <1>12, <1>13, ReadingFits DEF Descended

LEMMA StatementFits ==
  ASSUME TreeInv, ParserInv', Statement
  PROVE  TreeInv'
<1>1. UNCHANGED <<node, built, values>> /\ at = "body" /\ ~InExpression /\ at # "ended"
  BY DEF Statement, InExpression
<1>2. CASE ahead.type = "KEYWORD_RETURN" /\ Take /\ GoTo("return_value") /\ UNCHANGED stack
  <2>1. ~InExpression'
    BY <1>2 DEF GoTo, InExpression
  <2> QED BY <1>1, <1>2, <2>1, OtherKinds, OutsideFits
<1>3. CASE Stay /\ Call(<<Frame("body")>>, 1)
  BY <1>1, <1>3, EnterFits
<1> QED BY <1>2, <1>3 DEF Statement

LEMMA ReturnValueFits ==
  ASSUME TreeInv, ParserInv', ReturnValue
  PROVE  TreeInv'
<1>1. UNCHANGED <<node, built, values>> /\ at = "return_value" /\ ~InExpression /\ at # "ended"
  BY DEF ReturnValue, InExpression
<1>2. CASE ahead.type = "SEMICOLON" /\ Take /\ GoTo("body") /\ UNCHANGED stack
  <2>1. ~InExpression'
    BY <1>2 DEF GoTo, InExpression
  <2> QED BY <1>1, <1>2, <2>1, OtherKinds, OutsideFits
<1>3. CASE Stay /\ Call(<<Frame("return")>>, 1)
  BY <1>1, <1>3, EnterFits
<1> QED BY <1>2, <1>3 DEF ReturnValue

-----------------------------------------------------------------------------
(* Operands.                                                               *)

(* A step to the next operand.                                             *)
LEMMA AheadFits ==
  ASSUME TreeInv, ParserInv', Take \/ Stay, at' = "operand",
         CallsFit(History', stack'), Awaits(Last(stack')) = 11,
         StartsAt(stack', Len(stack'), Here'),
         NodesFit(History', built'), Nested(built'), Separate(built', stack'),
         Covered(History', built', stack')
  PROVE  TreeInv'
<1>1. NodeFits' /\ ~Returning'
  BY DEF NodeFits, Returning
<1> QED BY <1>1, ReadingFits

(* A call that begins with the token that is taken is put on the stack.    *)
Pushed(h, nodes, calls, call, all, len, from) ==
  /\ CallsOK(all, len) /\ CallsFit(h, all)
  /\ StartsAt(all, Len(all), from) /\ Last(all) = call
  /\ Separate(nodes, all)
  /\ \A k \in 1 .. Len(calls) : k \in 1 .. Len(all) /\ all[k] = calls[k]
  /\ Len(all) \in 1 .. Len(all) /\ all[Len(all)] = call

LEMMA OpenFits ==
  ASSUME TreeInv, ParserInv', at = "operand", Take, NEW call \in Frames,
         call.rule \in {"unary", "group"}, call.from = Here,
         call.op = IF call.rule = "unary" THEN Here ELSE 0,
         CallText(History', call), NEW all, all = Append(stack, call)
  PROVE  Pushed(History', built, stack, call, all, Len(taken'), Here')
<1>1. ParserInv /\ InExpression
  BY TreeFacts DEF InExpression
<1>2. /\ Len(taken) \in Nat /\ Len(taken') = Len(taken) + 1 /\ Here = Len(taken) + 1
      /\ Here' = Len(taken') + 1 /\ Len(taken') \in Nat
  BY <1>1, TextKept DEF Here
<1>3. CallsOK(all, Len(taken'))
  BY <1>1, OpenFacts
<1>4. CallsOK(stack, Len(taken)) /\ CallsOK(stack, Len(taken'))
  BY <1>1, <1>2, OperandFacts, CallsGrow
<1>5. Opened(call) /\ Yields(call) = 11 /\ Begin(call) = Here + 1 /\ ~(0 # 0)
  <2>1. Here # 0
    BY <1>2
  <2> QED BY <2>1 DEF Opened, Yields, Begin
<1>6. StartsAt(stack, Len(stack), Here) /\ Awaits(Last(stack)) = 11
  BY DEF TreeInv, NodeFits
<1>7. CallsFit(History', all)
  <2>1. CallsFit(History', stack)
    BY <1>1, CallsStay
  <2> QED BY <1>4, <1>5, <1>6, <2>1, PushFits
<1>8. StartsAt(all, Len(all), Here')
  <2>1. call.from <= Len(taken') /\ Begin(call) = Len(taken') + 1
    BY <1>2, <1>5
  <2> QED BY <1>2, <1>4, <1>5, <2>1, PushStarts
<1>9. /\ Len(all) = Len(stack) + 1 /\ Len(stack) \in Nat /\ all[Len(stack) + 1] = call
      /\ \A k \in 1 .. Len(stack) : all[k] = stack[k]
  <2>1. stack \in Seq(Frames)
    BY <1>4 DEF CallsOK
  <2> QED BY <2>1
<1>10. Len(all) \in 1 .. Len(all) /\ all[Len(all)] = call /\ Last(all) = call
  BY <1>9 DEF Last
<1>11. \A k \in 1 .. Len(stack) : k \in 1 .. Len(all) /\ all[k] = stack[k]
  BY <1>9
<1>12. Separate(built, all)
  <2>1. Spread(built, Len(taken)) /\ Separate(built, stack)
    BY TreeFacts
  <2>2. AllClear(built, Here) /\ \A n \in built : n.op # Here /\ n.op # 0
    BY <1>2, <2>1, BehindAll, SpreadTypes
  <2>3. \A n \in built : n.op # call.op
    BY <2>2
  <2>4. \A k \in 1 .. Len(all) : k \in 1 .. Len(stack) \/ k = Len(all)
    BY <1>9
  <2>5. AllClear(built, call.from)
    BY <2>2
  <2>6. \A k \in 1 .. Len(all) : \/ k \in 1 .. Len(stack) /\ all[k] = stack[k]
                                 \/ all[k].op = 0 /\ ~Opened(all[k])
                                 \/ /\ \A n \in built : n.op # all[k].op
                                    /\ AllClear(built, all[k].from)
    BY <1>10, <1>11, <2>3, <2>4, <2>5, Zenon
  <2>7. Len(taken) \in Nat
    BY TreeFacts
  <2> QED BY <2>1, <2>6, <2>7, SeparateAgree, ZenonT(40)
<1> QED BY <1>3, <1>7, <1>8, <1>10, <1>11, <1>12 DEF Pushed

(* A longer stack keeps the operators of the shorter one.                  *)
LEMMA KeptMore ==
  ASSUME NEW nodes, NEW calls, NEW more,
         \A k \in 1 .. Len(calls) : k \in 1 .. Len(more) /\ more[k] = calls[k], NEW i,
         Kept(nodes, calls, i)
  PROVE  Kept(nodes, more, i)
BY Zenon DEF Kept

LEMMA UnaryFits ==
  ASSUME TreeInv, ParserInv', at = "operand", ahead.type \in UnaryOperator,
         stack' = Append(stack, [Frame("unary") EXCEPT !.op = Here]),
         Take, GoTo("operand"), UNCHANGED <<node, built, values>>
  PROVE  TreeInv'
<1> DEFINE call == [Frame("unary") EXCEPT !.op = Here]
<1>1. /\ History' \in Texts /\ Len(taken) \in Nat /\ Here = Len(taken) + 1
      /\ History'[Here] = ahead.type
  BY TreeFacts, HistoryGrows DEF Here
<1>2. call \in Frames /\ call.rule = "unary" /\ call.from = Here /\ call.op = Here
  BY <1>1 DEF Frame, Frames
<1>3. stack' = Append(stack, call)
  OBVIOUS
<1> HIDE DEF call
<1>4. CallText(History', call)
  BY <1>1, <1>2 DEF CallText
<1>5. Pushed(History', built, stack, call, stack', Len(taken'), Here')
  <2>1. /\ call.rule \in {"unary", "group"} /\ call.from = Here
        /\ call.op = IF call.rule = "unary" THEN Here ELSE 0
    BY <1>2
  <2> QED BY <1>2, <1>3, <1>4, <2>1, OpenFits, Zenon
<1>6. Awaits(Last(stack')) = 11
  BY <1>2, <1>5 DEF Awaits, Pushed
<1>7. NodesFit(History', built') /\ Nested(built')
  BY BuiltStays
<1>8. Covered(History', built', stack')
  <2>1. \A i \in Nat \ {0} : Kept(built, stack, i) => Kept(built', stack', i)
    <3>1. \A k \in 1 .. Len(stack) : k \in 1 .. Len(stack') /\ stack'[k] = stack[k]
      BY <1>5 DEF Pushed
    <3>2. \A i \in Nat \ {0} : Kept(built, stack, i) => Kept(built, stack', i)
      BY <3>1, KeptMore, ZenonT(40)
    <3>3. built' = built
      OBVIOUS
    <3> QED BY <3>2, <3>3
  <2>2. Kept(built', stack', Here)
    BY <1>2, <1>5 DEF Kept, Pushed
  <2> QED BY <2>1, <2>2, CoveredStays
<1>9. at' = "operand"
  BY DEF GoTo
<1> QED BY <1>5, <1>6, <1>7, <1>8, <1>9, AheadFits DEF Pushed

LEMMA GroupFits ==
  ASSUME TreeInv, ParserInv', at = "operand", ahead.type = "L_PAREN",
         Call(Append(stack, Frame("group")), 1), Take, UNCHANGED <<node, built, values>>
  PROVE  TreeInv'
<1> DEFINE call == Frame("group")
           calls == Append(stack, call)
<1>1. /\ History' \in Texts /\ Len(taken) \in Nat /\ Here = Len(taken) + 1
      /\ History'[Here] = ahead.type /\ Len(taken') \in Nat
  BY TreeFacts, HistoryGrows DEF Here
<1>2. call \in Frames /\ call.rule = "group" /\ call.from = Here /\ call.op = 0
  BY <1>1 DEF Frame, Frames
<1> HIDE DEF call
<1>3. CallText(History', call)
  BY <1>1, <1>2 DEF CallText
<1>4. /\ CallsOK(calls, Len(taken')) /\ CallsFit(History', calls)
      /\ StartsAt(calls, Len(calls), Here') /\ Last(calls) = call /\ Separate(built, calls)
      /\ \A k \in 1 .. Len(stack) : k \in 1 .. Len(calls) /\ calls[k] = stack[k]
  <2>1. call.rule \in {"unary", "group"} /\ call.op = IF call.rule = "unary" THEN Here ELSE 0
    BY <1>2
  <2>2. calls = Append(stack, call)
    OBVIOUS
  <2> HIDE DEF calls
  <2>3. Pushed(History', built, stack, call, calls, Len(taken'), Here')
    BY <1>2, <1>3, <2>1, <2>2, OpenFits, Zenon
  <2> QED BY <2>3 DEF Pushed
<1>5. Call(calls, 1) /\ at' = "operand"
  BY DEF call, Call, GoTo
<1> HIDE DEF calls
<1>6. Descended(History', calls, stack', Here')
  <2>1. Awaits(Last(calls)) = 1 /\ 1 \in 1 .. 11
    BY <1>2, <1>4 DEF Awaits
  <2> QED BY <1>4, <1>5, <2>1, CallDescends
<1>7. NodesFit(History', built') /\ Nested(built')
  BY BuiltStays
<1>8. Separate(built', stack')
  <2>1. \A k \in 1 .. Len(stack') : \/ k \in 1 .. Len(calls) /\ stack'[k] = calls[k]
                                    \/ stack'[k].op = 0 /\ ~Opened(stack'[k])
    BY <1>6 DEF Descended
  <2>2. Spread(built, Len(taken))
    BY TreeFacts
  <2> QED BY <1>1, <1>4, <2>1, <2>2, SeparateAgree
<1>9. Covered(History', built', stack')
  <2>1. \A k \in 1 .. Len(calls) : k \in 1 .. Len(stack') /\ stack'[k] = calls[k]
    BY <1>6 DEF Descended
  <2>2. \A i \in Nat \ {0} : Kept(built, stack, i) => Kept(built', stack', i)
    BY <1>4, <2>1, KeptMore
  <2> QED BY <2>2, OtherKinds, CoveredStays
<1> QED BY <1>5, <1>6, <1>7, <1>8, <1>9, AheadFits DEF Descended

(* An operand that has been read, or a part of one.                        *)
LEMMA ReadFits ==
  ASSUME TreeInv, ParserInv', InExpression, Take \/ Stay, UNCHANGED <<stack, built>>,
         Take => ahead.type \notin BinaryOperator \cup UnaryOperator,
         NodeFits', Returning' => AllClear(built, node'.from)
  PROVE  TreeInv'
<1>1. NodesFit(History', built') /\ Nested(built')
  BY BuiltStays
<1>2. Covered(History', built', stack')
  BY CoveredStays
<1>3. CallsFit(History', stack') /\ Separate(built', stack')
  BY CallsStay, TreeFacts
<1> QED BY <1>1, <1>2, <1>3, ReadingFits

LEMMA AtomFits ==
  ASSUME TreeInv, ParserInv', at = "operand", NEW value, Atom(value),
         ahead.type \in {"IDENT", "INT_LITERAL", "KEYWORD_TRUE", "KEYWORD_FALSE"}
  PROVE  TreeInv'
<1>1. /\ node' = [from |-> Here, to |-> Here] /\ Take /\ at' = "postfix"
      /\ stack' = stack /\ built' = built /\ InExpression
  BY DEF Atom, GoTo, InExpression
<1>2. /\ History' \in Texts /\ Len(taken) \in Nat /\ Here = Len(taken) + 1
      /\ History'[Here] = ahead.type /\ Len(taken') = Here /\ Len(History') = Len(taken')
  BY <1>1, TreeFacts, HistoryGrows DEF Here
<1>3. Expression(History', Here, Here, 11)
  <2>1. Here \in 1 .. Len(History')
    BY <1>2
  <2> QED BY <1>2, <2>1, AtomExpression
<1>4. StartsAt(stack, Len(stack), Here) /\ Awaits(Last(stack)) = 11
  BY DEF TreeInv, NodeFits
<1>5. node'.from = Here /\ node'.to = Here /\ node'.to = Len(taken')
  BY <1>1, <1>2
<1>6. NodeFits'
  BY <1>1, <1>3, <1>4, <1>5 DEF NodeFits
<1>7. AllClear(built, node'.from)
  BY <1>2, <1>5, TreeFacts, BehindAll
<1> QED BY <1>1, <1>6, <1>7, OtherKinds, ReadFits

LEMMA OperandFits ==
  ASSUME TreeInv, ParserInv', Operand
  PROVE  TreeInv'
<1>1. at = "operand" /\ InExpression
  BY DEF Operand, InExpression
<1>2. CASE /\ ahead.type \in UnaryOperator
           /\ stack' = Append(stack, [Frame("unary") EXCEPT !.op = Here])
           /\ Take /\ GoTo("operand") /\ UNCHANGED <<node, built, values>>
  BY <1>1, <1>2, UnaryFits
<1>3. CASE ahead.type \in {"IDENT", "KEYWORD_TRUE", "KEYWORD_FALSE"} /\ Atom(values)
  BY <1>1, <1>3, AtomFits
<1>4. CASE /\ ahead.type = "INT_LITERAL"
           /\ Atom(values \cup {[at |-> Here, value |-> LiteralValue(ahead)]})
  BY <1>1, <1>4, AtomFits
<1>5. CASE Fail(LiteralError(ahead))
  BY <1>5, FailFits
<1>6. CASE /\ ahead.type = "L_PAREN" /\ Call(Append(stack, Frame("group")), 1) /\ Take
           /\ UNCHANGED <<node, built, values>>
  BY <1>1, <1>6, GroupFits
<1>7. CASE /\ node' = Absent /\ Stay /\ GoTo("returned")
           /\ UNCHANGED <<stack, built, values>>
  <2>1. at' = "returned" /\ Absent' = Absent
    BY <1>7 DEF GoTo, Absent
  <2>2. NodeFits' /\ ~Returning'
    BY <1>7, <2>1 DEF NodeFits, Returning
  <2>3. ~Take
    BY <1>7, TextKept, TreeFacts DEF Stay, Here
  <2> QED BY <1>1, <1>7, <2>2, <2>3, ReadFits
<1> QED BY <1>2, <1>3, <1>4, <1>5, <1>6, <1>7 DEF Operand

-----------------------------------------------------------------------------
(* What comes after an operand.                                            *)

LEMMA NodeFacts ==
  ASSUME TreeInv, Returning
  PROVE  /\ ParserInv /\ InExpression /\ node.from \in Nat /\ node.to \in Nat
         /\ 1 <= node.from /\ node.from <= node.to /\ node.to <= Len(taken)
         /\ Expression(History, node.from, node.to, Awaits(Last(stack)))
         /\ StartsAt(stack, Len(stack), node.from)
         /\ node.to = IF at = "call_end" THEN Len(taken) - 1 ELSE Len(taken)
         /\ AllClear(built, node.from)
<1>1. InExpression /\ ParserInv
  BY TreeFacts DEF Returning, InExpression
<1> QED BY <1>1, OperandFacts DEF TreeInv, NodeFits, BuiltFits, Returning

LEMMA PostfixFits ==
  ASSUME TreeInv, ParserInv', Postfix
  PROVE  TreeInv'
<1>1. /\ at = "postfix" /\ UNCHANGED <<stack, node, built, values>>
      /\ \/ ahead.type = "L_PAREN" /\ Take /\ at' = "call_end"
         \/ Stay /\ at' = "returned"
  BY DEF Postfix, GoTo
<1>2. Returning /\ InExpression
  BY <1>1 DEF Returning, InExpression, TreeInv, ParserInv, NodeOK
<1>3. /\ ParserInv /\ node.from \in Nat /\ node.to \in Nat /\ node.to = Len(taken)
      /\ Expression(History, node.from, node.to, Awaits(Last(stack)))
      /\ StartsAt(stack, Len(stack), node.from)
      /\ AllClear(built, node.from)
  BY <1>1, <1>2, NodeFacts
<1>4. Awaits(Last(stack)) = 11
  BY <1>1 DEF TreeInv, NodeFits
<1>5. /\ History \in Texts /\ History' \in Texts /\ Prefix(History, History')
      /\ Len(taken) \in Nat /\ Here = Len(taken) + 1
      /\ Stay => History' = History
      /\ Take => Len(taken') = Here /\ History'[Here] = ahead.type
  BY <1>1, <1>3, HistoryGrows DEF Here
<1>6. Expression(History', node.from, node.to, Awaits(Last(stack)))
  BY <1>3, <1>5, ExpressionKept
<1>7. CASE ahead.type = "L_PAREN" /\ Take /\ at' = "call_end"
  <2>1. node.to = Len(taken') - 1 /\ History'[Len(taken')] = "L_PAREN"
    BY <1>3, <1>5, <1>7
  <2>2. NodeFits'
    BY <1>1, <1>3, <1>4, <1>6, <1>7, <2>1 DEF NodeFits
  <2> QED BY <1>1, <1>2, <1>3, <1>7, <2>2, OtherKinds, ReadFits
<1>8. CASE Stay /\ at' = "returned"
  <2>1. node.to = Len(taken')
    BY <1>3, <1>8 DEF Stay
  <2>2. NodeFits'
    BY <1>1, <1>3, <1>4, <1>6, <1>8, <2>1 DEF NodeFits
  <2>3. ~Take
    BY <1>3, <1>8, TextKept DEF Stay, Here
  <2> QED BY <1>1, <1>2, <1>3, <1>8, <2>2, <2>3, ReadFits
<1> QED BY <1>1, <1>7, <1>8

LEMMA CallEndFits ==
  ASSUME TreeInv, ParserInv', CallEnd
  PROVE  TreeInv'
<1>1. CASE Fail(UnexpectedToken(ahead.type))
  BY <1>1, FailFits
<1>2. CASE /\ ahead.type = "R_PAREN" /\ node' = [node EXCEPT !.to = Here]
           /\ Take /\ GoTo("returned") /\ UNCHANGED <<stack, built, values>>
  <2>1. at = "call_end" /\ at' = "returned"
    BY <1>2 DEF CallEnd, GoTo
  <2>2. Returning /\ InExpression
    BY <2>1 DEF Returning, InExpression, TreeInv, ParserInv, NodeOK
  <2>3. /\ ParserInv /\ node.from \in Nat /\ node.to \in Nat /\ node.to = Len(taken) - 1
        /\ Expression(History, node.from, node.to, Awaits(Last(stack)))
        /\ StartsAt(stack, Len(stack), node.from)
        /\ AllClear(built, node.from)
    BY <2>1, <2>2, NodeFacts
  <2>4. Awaits(Last(stack)) = 11 /\ History[Len(taken)] = "L_PAREN"
    BY <2>1 DEF TreeInv, NodeFits
  <2>5. /\ History \in Texts /\ History' \in Texts /\ Prefix(History, History')
        /\ Len(taken) \in Nat /\ Here = Len(taken) + 1 /\ Len(History) = Len(taken)
        /\ Len(taken') = Here /\ History'[Here] = ahead.type /\ Len(History') = Here
    BY <1>2, <2>3, HistoryGrows DEF Here
  <2>6. Expression(History', node.from, node.to, 11)
    BY <2>3, <2>4, <2>5, ExpressionKept
  <2>7. /\ node.to + 2 = Here /\ node.to + 1 = Len(taken) /\ History'[node.to + 1] = "L_PAREN"
        /\ History'[node.to + 2] = "R_PAREN" /\ node.to + 2 <= Len(History')
    <3>1. node.to + 2 = Here /\ node.to + 1 = Len(taken) /\ Len(taken) \in 1 .. Len(History)
      BY <2>3, <2>5
    <3>2. History'[Len(taken)] = "L_PAREN"
      BY <2>4, <2>5, <3>1 DEF Prefix
    <3> QED BY <1>2, <2>5, <3>1, <3>2
  <2>8. Expression(History', node.from, node.to + 2, 11)
    BY <2>3, <2>5, <2>6, <2>7, CallExpression
  <2>9. node'.from = node.from /\ node'.to = Here
    <3>1. node \in [from : Nat, to : Nat]
      BY <2>3 DEF ParserInv, NodeOK
    <3> QED BY <1>2, <3>1
  <2>10. NodeFits'
    BY <1>2, <2>1, <2>3, <2>4, <2>5, <2>7, <2>8, <2>9 DEF NodeFits
  <2> QED BY <1>2, <2>2, <2>3, <2>9, <2>10, OtherKinds, ReadFits
<1> QED BY <1>1, <1>2 DEF CallEnd

(* The call that has read something is the last one.                       *)
LEMMA LastStarts ==
  ASSUME NEW len, NEW calls, CallsOK(calls, len), NEW from, StartsAt(calls, Len(calls), from),
         ~Plain(Last(calls))
  PROVE  from = Begin(Last(calls))
<1>1. Len(calls) \in Nat /\ Len(calls) >= 1 /\ Last(calls) = calls[Len(calls)]
  BY DEF CallsOK, Last
<1>2. Len(calls) \in 1 .. Len(calls) /\ \A l \in Len(calls) + 1 .. Len(calls) : FALSE
  BY <1>1
<1>3. Holder(calls, Len(calls), Len(calls))
  BY <1>1, <1>2, Zenon DEF Holder
<1> QED BY <1>1, <1>2, <1>3, Zenon DEF StartsAt

(* The calls below the last one.                                           *)
Below(h, nodes, calls, rest, len) ==
  /\ CallsOK(rest, len) /\ CallsFit(h, rest) /\ Awaits(Last(rest)) = Yields(Last(calls))
  /\ Separate(nodes, rest)
  /\ \A k \in 1 .. Len(rest) : k \in 1 .. Len(calls) /\ rest[k] = calls[k]
  /\ \A k \in 1 .. Len(calls) : k \in 1 .. Len(rest) \/ calls[k] = Last(calls)
  /\ Opened(Last(calls)) =>
       /\ StartsAt(rest, Len(rest), Last(calls).from)
       /\ \A k \in 1 .. Len(rest) : rest[k].op < Last(calls).from
  /\ Plain(Last(calls)) =>
       \A from : StartsAt(calls, Len(calls), from) => StartsAt(rest, Len(rest), from)

LEMMA BelowFacts ==
  ASSUME TreeInv, InExpression, Last(stack).rule \notin {"return", "body"}
  PROVE  Below(History, built, stack, Front(stack), Len(taken))
<1> DEFINE rest == Front(stack)
<1>1. ParserInv /\ CallsOK(stack, Len(taken)) /\ CallsFit(History, stack) /\ Len(taken) \in Nat
  BY TreeFacts, OperandFacts DEF TreeInv, StackFits
<1>2. CallsOK(rest, Len(taken)) /\ (Opened(Last(stack)) => After(rest, Last(stack).from))
  BY <1>1, PopFacts
<1>3. /\ CallsFit(History, rest) /\ Awaits(Last(rest)) = Yields(Last(stack))
      /\ Opened(Last(stack)) => StartsAt(rest, Len(rest), Last(stack).from)
      /\ Plain(Last(stack)) => \A from : StartsAt(stack, Len(stack), from) =>
                                  StartsAt(rest, Len(rest), from)
      /\ \A k \in 1 .. Len(rest) : k \in 1 .. Len(stack) /\ rest[k] = stack[k]
  BY <1>1, PopFits
<1>4. \A k \in 1 .. Len(stack) : k \in 1 .. Len(rest) \/ stack[k] = Last(stack)
  <2>1. stack \in Seq(Frames) /\ Len(stack) \in Nat /\ Len(stack) >= 1
    BY <1>1 DEF CallsOK
  <2>2. Len(rest) = Len(stack) - 1 /\ Last(stack) = stack[Len(stack)]
    <3>1. Last(stack) = stack[Len(stack)]
      BY Zenon DEF Last
    <3>2. Len(stack) # 1
      <4>1. CallOK(Last(stack), Len(stack) = 1, Len(taken))
        BY <1>1, OperandFacts
      <4> QED BY <4>1 DEF CallOK
    <3>3. Len(rest) = Len(stack) - 1
      <4>1. \A q \in Nat : q >= 1 /\ q # 1 => q >= 2
        OBVIOUS
      <4>2. Len(stack) >= 2
        BY <2>1, <3>2, <4>1, Zenon
      <4> QED BY <2>1, <4>2, FrontFacts
    <3> QED BY <3>1, <3>3
  <2> HIDE DEF rest
  <2>3. \A k \in 1 .. Len(stack) : k \in 1 .. Len(stack) - 1 \/ k = Len(stack)
    BY <2>1
  <2> QED BY <2>2, <2>3
<1> HIDE DEF rest
<1>5. Separate(built, rest)
  <2>1. Separate(built, stack)
    BY TreeFacts
  <2> QED BY <1>3, <2>1 DEF Separate
<1>6. Below(History, built, stack, rest, Len(taken))
  BY <1>2, <1>3, <1>4, <1>5 DEF Below, After
<1> QED BY <1>6 DEF rest

LEMMA GroupEndFits ==
  ASSUME TreeInv, ParserInv', GroupEnd
  PROVE  TreeInv'
<1>1. CASE Fail(UnexpectedToken(ahead.type))
  BY <1>1, FailFits
<1>2. CASE /\ ahead.type = "R_PAREN" /\ node' = [from |-> Last(stack).from, to |-> Here]
           /\ stack' = Front(stack)
           /\ Take /\ GoTo("postfix") /\ UNCHANGED <<built, values>>
  <2> DEFINE call == Last(stack)
             rest == Front(stack)
  <2>1. /\ at = "group_end" /\ at' = "postfix" /\ InExpression /\ Returning
        /\ call.rule = "group"
    BY <1>2 DEF GroupEnd, GoTo, InExpression, Returning, TreeInv, NodeFits, ParserInv, StackOK
  <2>2. /\ ParserInv /\ node.from \in Nat /\ node.to \in Nat /\ node.to = Len(taken)
        /\ 1 <= node.from /\ node.from <= node.to
        /\ Expression(History, node.from, node.to, Awaits(call))
        /\ StartsAt(stack, Len(stack), node.from)
    BY <2>1, NodeFacts
  <2>3. /\ CallsOK(stack, Len(taken)) /\ CallsFit(History, stack)
        /\ call \in Frames /\ CallOK(call, Len(stack) = 1, Len(taken))
    BY <2>1, <2>2, OperandFacts DEF TreeInv, StackFits
  <2>4. Below(History, built, stack, rest, Len(taken))
    BY <2>1, BelowFacts
  <2>5. /\ History \in Texts /\ History' \in Texts /\ Prefix(History, History')
        /\ Len(taken) \in Nat /\ Here = Len(taken) + 1 /\ Len(History) = Len(taken)
        /\ Len(taken') = Here /\ History'[Here] = ahead.type /\ Len(History') = Here
    BY <1>2, <2>2, HistoryGrows DEF Here
  <2>6. /\ call.op = 0 /\ Opened(call) /\ ~Plain(call) /\ Awaits(call) = 1 /\ Yields(call) = 11
        /\ Begin(call) = call.from + 1 /\ call.from \in Nat
        /\ 1 <= call.from /\ call.from <= Len(taken)
    <3>1. call.op = 0
      BY <2>1, <2>3 DEF CallOK
    <3> QED BY <2>1, <2>3, <3>1 DEF Opened, Plain, Awaits, Yields, Begin, CallOK, Frames
  <2>7. node.from = call.from + 1
    BY <2>2, <2>3, <2>6, LastStarts
  <2>8. History[call.from] = "L_PAREN"
    <3>1. CallText(History, call)
      <4>1. Len(stack) \in 1 .. Len(stack) /\ call = stack[Len(stack)]
        <5>1. Len(stack) \in Nat /\ Len(stack) >= 1
          BY <2>3 DEF CallsOK
        <5> QED BY <5>1 DEF Last
      <4> QED BY <2>3, <4>1, Zenon DEF CallsFit, CallFits
    <3> QED BY <2>1, <3>1 DEF CallText
  <2> HIDE DEF call, rest
  <2>9. Expression(History', call.from, Here, 11)
    <3>1. Expression(History', node.from, node.to, 1)
      BY <2>2, <2>5, <2>6, ExpressionKept
    <3>2. /\ Here \in Nat /\ node.to = Here - 1 /\ call.from + 2 <= Here /\ Here <= Len(History')
      BY <2>2, <2>5, <2>6, <2>7
    <3>3. History'[call.from] = "L_PAREN" /\ History'[Here] = "R_PAREN"
      BY <1>2, <2>5, <2>6, <2>8 DEF Prefix
    <3>4. Expression(History', call.from + 1, Here - 1, 1)
      BY <2>7, <3>1, <3>2
    <3> QED BY <2>5, <2>6, <3>2, <3>3, <3>4, GroupExpression
  <2>10. node'.from = call.from /\ node'.to = Here /\ stack' = rest
    BY <1>2 DEF call, rest
  <2>11. /\ Awaits(Last(rest)) = 11 /\ StartsAt(rest, Len(rest), call.from)
         /\ CallsOK(rest, Len(taken)) /\ CallsFit(History, rest) /\ Separate(built, rest)
    BY <2>4, <2>6 DEF Below, call
  <2>12. NodeFits'
    BY <2>1, <2>5, <2>9, <2>10, <2>11 DEF NodeFits
  <2>13. AllClear(built, call.from)
    <3>1. Separate(built, stack)
      BY TreeFacts
    <3>2. Len(stack) \in 1 .. Len(stack) /\ call = stack[Len(stack)]
      <4>1. Len(stack) \in Nat /\ Len(stack) >= 1
        BY <2>3 DEF CallsOK
      <4> QED BY <4>1 DEF Last, call
    <3> QED BY <2>6, <3>1, <3>2 DEF Separate, AllClear
  <2>14. CallsFit(History', rest)
    BY <2>5, <2>11, CallsFitKept
  <2>15. Covered(History', built', stack')
    <3>1. ASSUME NEW i \in Nat \ {0}, Kept(built, stack, i) PROVE Kept(built, rest, i)
      <4>1. \A k \in 1 .. Len(stack) : k \in 1 .. Len(rest) \/ stack[k] = call
        BY <2>4 DEF Below, call
      <4>2. \A k \in 1 .. Len(rest) : rest[k] = stack[k]
        BY <2>4 DEF Below
      <4> QED BY <2>6, <3>1, <4>1, <4>2 DEF Kept
    <3>2. \A i \in Nat \ {0} : Kept(built, stack, i) => Kept(built', stack', i)
      BY <1>2, <2>10, <3>1
    <3> QED BY <1>2, <3>2, OtherKinds, CoveredStays
  <2>16. NodesFit(History', built') /\ Nested(built')
    BY <1>2, BuiltStays
  <2>17. Separate(built', stack') /\ CallsFit(History', stack') /\ AllClear(built', node'.from)
    BY <1>2, <2>10, <2>11, <2>13, <2>14
  <2> QED BY <1>2, <2>12, <2>15, <2>16, <2>17, ReadingFits
<1> QED BY <1>1, <1>2 DEF GroupEnd

-----------------------------------------------------------------------------
(* Expressions that return.                                                *)

(* The expression a call has, and the nodes: what the call below gets.     *)
Merged(h, call, rest, whole, nodes, len) ==
  /\ whole.from \in Nat /\ whole.to = len
  /\ Expression(h, whole.from, whole.to, Yields(call))
  /\ CallsOK(rest, len) /\ CallsFit(h, rest) /\ Awaits(Last(rest)) = Yields(call)
  /\ StartsAt(rest, Len(rest), whole.from)
  /\ Spread(nodes, len) /\ NodesFit(h, nodes) /\ Nested(nodes) /\ Separate(nodes, rest)
  /\ AllClear(nodes, whole.from)

(* What a call knows when an operand comes in.                             *)
LEMMA CallFacts ==
  ASSUME TreeInv, at = "returned", node # Absent,
         NEW call, call = Last(stack), call.rule \in {"level", "unary", "group"}
  PROVE  /\ ParserInv /\ InExpression /\ History \in Texts /\ Len(taken) \in Nat
         /\ Len(History) = Len(taken)
         /\ node.from \in Nat /\ node.to \in Nat /\ node.to = Len(taken)
         /\ 1 <= node.from /\ node.from <= node.to
         /\ Expression(History, node.from, node.to, Awaits(call))
         /\ StartsAt(stack, Len(stack), node.from) /\ AllClear(built, node.from)
         /\ call \in Frames /\ CallOK(call, Len(stack) = 1, Len(taken))
         /\ CallText(History, call) /\ CallsOK(stack, Len(taken))
         /\ Len(stack) \in 1 .. Len(stack) /\ call = stack[Len(stack)]
         /\ Below(History, built, stack, Front(stack), Len(taken))
<1>1. Returning /\ InExpression
  BY DEF Returning, InExpression
<1>2. /\ ParserInv /\ node.from \in Nat /\ node.to \in Nat /\ node.to = Len(taken)
      /\ 1 <= node.from /\ node.from <= node.to
      /\ Expression(History, node.from, node.to, Awaits(call))
      /\ StartsAt(stack, Len(stack), node.from) /\ AllClear(built, node.from)
  BY <1>1, NodeFacts
<1>3. /\ call \in Frames /\ CallOK(call, Len(stack) = 1, Len(taken)) /\ CallsOK(stack, Len(taken))
      /\ CallsFit(History, stack)
  BY <1>1, <1>2, OperandFacts DEF TreeInv, StackFits
<1>4. Len(stack) \in 1 .. Len(stack) /\ call = stack[Len(stack)]
  <2>1. Len(stack) \in Nat /\ Len(stack) >= 1
    BY <1>3 DEF CallsOK
  <2> QED BY <2>1 DEF Last
<1>5. CallText(History, call)
  BY <1>3, <1>4, Zenon DEF CallsFit, CallFits
<1>6. Below(History, built, stack, Front(stack), Len(taken))
  BY <1>1, BelowFacts
<1> QED BY <1>1, <1>2, <1>3, <1>4, <1>5, <1>6, HistoryFacts

(* Without an operator of its own a call returns its operand.              *)
LEMMA OperandMerges ==
  ASSUME TreeInv, at = "returned", node # Absent,
         NEW call, call = Last(stack), call.rule = "level", call.op = 0
  PROVE  Merged(History, call, Front(stack), node, built, Len(taken))
<1> DEFINE rest == Front(stack)
<1>1. /\ History \in Texts /\ node.from \in Nat /\ node.to \in Nat /\ node.to = Len(taken)
      /\ Expression(History, node.from, node.to, Awaits(call))
      /\ StartsAt(stack, Len(stack), node.from) /\ AllClear(built, node.from)
      /\ call \in Frames
      /\ Below(History, built, stack, rest, Len(taken))
  BY CallFacts
<1> HIDE DEF rest
<1>2. Plain(call) /\ Awaits(call) = call.level + 1 /\ Yields(call) = call.level /\ call.level \in Nat
  BY <1>1 DEF Plain, Awaits, Yields, Frames
<1>3. Expression(History, node.from, node.to, Yields(call))
  <2>1. call.level + 1 \in Nat /\ call.level <= call.level + 1
    BY <1>2
  <2> QED BY <1>1, <1>2, <2>1, Weaken
<1>4. /\ CallsOK(rest, Len(taken)) /\ CallsFit(History, rest)
      /\ Awaits(Last(rest)) = Yields(call) /\ Separate(built, rest)
      /\ StartsAt(rest, Len(rest), node.from)
  BY <1>1, <1>2 DEF Below
<1>5. Merged(History, call, rest, node, built, Len(taken))
  BY <1>1, <1>3, <1>4, TreeFacts DEF Merged
<1> QED BY <1>5 DEF rest

(* An operator and the operand that completes it are a node.               *)
LEMMA OperatorMerges ==
  ASSUME TreeInv, at = "returned", node # Absent,
         NEW call, call = Last(stack), call.rule \in {"level", "unary"}, call.op # 0,
         NEW whole \in [from : Nat, to : Nat], whole.from = call.from, whole.to = node.to,
         NEW new \in [op : Nat, from : Nat, to : Nat],
         new.op = call.op, new.from = call.from, new.to = node.to
  PROVE  Merged(History, call, Front(stack), whole, built \cup {new}, Len(taken))
<1> DEFINE rest == Front(stack)
<1>1. /\ ParserInv /\ InExpression /\ History \in Texts /\ Len(taken) \in Nat
      /\ node.from \in Nat /\ node.to \in Nat /\ node.to = Len(taken)
      /\ 1 <= node.from /\ node.from <= node.to
      /\ Expression(History, node.from, node.to, Awaits(call))
      /\ StartsAt(stack, Len(stack), node.from) /\ AllClear(built, node.from)
      /\ call \in Frames /\ CallOK(call, Len(stack) = 1, Len(taken))
      /\ CallText(History, call) /\ CallsOK(stack, Len(taken))
      /\ Len(stack) \in 1 .. Len(stack) /\ call = stack[Len(stack)]
      /\ Below(History, built, stack, rest, Len(taken))
  BY CallFacts
<1>2. /\ Opened(call) /\ ~Plain(call) /\ call.from \in Nat /\ call.op \in Nat
      /\ 1 <= call.from /\ call.from <= call.op /\ 1 <= call.op
      /\ Begin(call) = call.op + 1
  <2>1. Opened(call) /\ call.from \in Nat /\ call.op \in Nat /\ 1 <= call.from /\ call.from <= call.op
    BY <1>1 DEF Opened, CallOK, Frames
  <2>2. 1 <= call.op
    BY <2>1
  <2> QED BY <2>1, <2>2 DEF Plain, Begin
<1>3. node.from = call.op + 1
  <2>1. Last(stack) = call
    BY <1>1 DEF Last
  <2>2. /\ CallsOK(stack, Len(taken)) /\ StartsAt(stack, Len(stack), node.from)
        /\ ~Plain(Last(stack))
    BY <1>1, <1>2, <2>1
  <2>3. node.from = Begin(Last(stack))
    BY <2>2, LastStarts, ZenonT(40)
  <2> QED BY <1>2, <2>1, <2>3
<1> HIDE DEF rest
<1>4. Expression(History, call.from, node.to, Yields(call)) /\ SplitsAt(History, new, call.op)
  <2>1. CASE call.rule = "unary"
    <3>1. call.from = call.op /\ History[call.from] \in UnaryOperator /\ Awaits(call) = 11
          /\ Yields(call) = 11
      BY <1>1, <2>1 DEF CallText, Awaits, Yields
    <3>2. Expression(History, call.from + 1, node.to, 11)
      BY <1>1, <1>3, <3>1
    <3> QED BY <1>1, <1>2, <3>1, <3>2, UnaryExpression
  <2>2. CASE call.rule = "level"
    <3>1. /\ Expression(History, call.from, call.op - 1, call.level)
          /\ History[call.op] \in Operators[call.level]
          /\ Awaits(call) = call.level + 1 /\ Yields(call) = call.level /\ call.level \in 1 .. 10
      BY <1>1, <2>2 DEF CallText, Awaits, Yields, CallOK, Frames
    <3>2. Expression(History, call.op + 1, node.to, call.level + 1)
      BY <1>1, <1>3, <3>1
    <3> QED BY <1>1, <1>2, <3>1, <3>2, BinaryExpression
  <2> QED BY <2>1, <2>2
<1>5. /\ CallsOK(rest, Len(taken)) /\ CallsFit(History, rest)
      /\ Awaits(Last(rest)) = Yields(call) /\ Separate(built, rest)
      /\ StartsAt(rest, Len(rest), call.from)
      /\ \A k \in 1 .. Len(rest) : rest[k].op < call.from
  BY <1>1, <1>2 DEF Below
<1>6. \A n \in built : n.op # call.op /\ Clear(n, call.from)
  <2>1. Separate(built, stack)
    BY TreeFacts
  <2> QED BY <1>1, <1>2, <2>1 DEF Separate
<1>7. /\ Spread(built \cup {new}, Len(taken)) /\ Nested(built \cup {new})
      /\ Separate(built \cup {new}, rest) /\ AllClear(built \cup {new}, call.from)
  <2>1. 1 <= new.from /\ new.from <= new.op /\ new.op < new.to /\ new.to = Len(taken)
    BY <1>1, <1>2, <1>3
  <2>2. AllClear(built, new.from) /\ \A n \in built : n.op # new.op
    BY <1>6 DEF AllClear
  <2>3. ASSUME NEW k \in 1 .. Len(rest)
        PROVE  /\ rest[k] \in Frames /\ rest[k].op < new.from
               /\ Opened(rest[k]) => rest[k].from < new.from
    <3>1. rest[k] \in Frames
      BY <1>5 DEF CallsOK
    <3> QED BY <1>5, <3>1 DEF StartsAt
  <2>4. Spread(built, Len(taken)) /\ Nested(built) /\ Separate(built, rest) /\ Len(taken) \in Nat
    BY <1>1, <1>5, TreeFacts
  <2>5. new.from = call.from
    OBVIOUS
  <2>6. \A k \in 1 .. Len(rest) : /\ rest[k] \in Frames /\ rest[k].op < new.from
                                  /\ Opened(rest[k]) => rest[k].from < new.from
    BY <2>3
  <2>7. /\ Spread(built \cup {new}, Len(taken)) /\ Nested(built \cup {new})
        /\ Separate(built \cup {new}, rest) /\ AllClear(built \cup {new}, new.from)
    <3> HIDE DEF rest
    <3> QED BY <2>1, <2>2, <2>4, <2>6, NodeAdded, Zenon
  <2> QED BY <2>5, <2>7
<1>8. NodesFit(History, built \cup {new})
  BY <1>2, <1>4, TreeFacts DEF NodesFit
<1>9. Merged(History, call, rest, whole, built \cup {new}, Len(taken))
  BY <1>1, <1>2, <1>4, <1>5, <1>7, <1>8 DEF Merged
<1> QED BY <1>9 DEF rest

LEMMA CombinedMerges ==
  ASSUME TreeInv, at = "returned", node # Absent,
         NEW call, call = Last(stack), call.rule \in {"level", "unary"}
  PROVE  /\ Merged(History, call, Front(stack), Combined(call), BuiltWith(call), Len(taken))
         /\ \A i \in Nat \ {0} : Kept(built, stack, i) => Kept(BuiltWith(call), Front(stack), i)
<1>1. /\ node.from \in Nat /\ node.to \in Nat /\ call \in Frames
      /\ CallOK(call, Len(stack) = 1, Len(taken))
      /\ Below(History, built, stack, Front(stack), Len(taken))
  BY CallFacts
<1>2. /\ \A k \in 1 .. Len(stack) : k \in 1 .. Len(Front(stack)) \/ stack[k] = call
      /\ \A k \in 1 .. Len(Front(stack)) : Front(stack)[k] = stack[k]
  BY <1>1 DEF Below
<1>3. CASE call.op = 0
  <2>1. call.rule = "level"
    BY <1>1, <1>3 DEF CallOK
  <2>2. Combined(call) = node /\ BuiltWith(call) = built
    BY <1>3 DEF Combined, BuiltWith
  <2>3. ASSUME NEW i \in Nat \ {0}, Kept(built, stack, i) PROVE Kept(built, Front(stack), i)
    BY <1>2, <1>3, <2>3 DEF Kept
  <2> QED BY <1>3, <2>1, <2>2, <2>3, OperandMerges
<1>4. CASE call.op # 0
  <2> DEFINE whole == [from |-> call.from, to |-> node.to]
             new == [op |-> call.op, from |-> call.from, to |-> node.to]
  <2>1. Combined(call) = whole /\ BuiltWith(call) = built \cup {new}
    BY <1>4 DEF Combined, BuiltWith
  <2>2. /\ whole \in [from : Nat, to : Nat] /\ whole.from = call.from /\ whole.to = node.to
        /\ new \in [op : Nat, from : Nat, to : Nat]
        /\ new.op = call.op /\ new.from = call.from /\ new.to = node.to
    BY <1>1 DEF Frames
  <2> HIDE DEF whole, new
  <2>3. Merged(History, call, Front(stack), whole, built \cup {new}, Len(taken))
    BY <1>4, <2>2, OperatorMerges
  <2>4. ASSUME NEW i \in Nat \ {0}, Kept(built, stack, i)
        PROVE  Kept(built \cup {new}, Front(stack), i)
    BY <1>2, <2>2, <2>4 DEF Kept
  <2> QED BY <2>1, <2>3, <2>4
<1> QED BY <1>3, <1>4

(* The expression is returned to the call below.                           *)
LEMMA CombinedFits ==
  ASSUME TreeInv, ParserInv', at = "returned", node # Absent, Stay, Pop, GoTo("returned"),
         NEW call, call = Last(stack), call.rule \in {"level", "unary"},
         node' = Combined(call), built' = BuiltWith(call)
  PROVE  TreeInv'
<1>1. /\ Merged(History, call, stack', node', built', Len(taken))
      /\ \A i \in Nat \ {0} : Kept(built, stack, i) => Kept(built', stack', i)
  BY CombinedMerges DEF Pop
<1>2. at' = "returned" /\ History' = History /\ taken' = taken
  BY DEF GoTo, Stay, History
<1>3. ~Take
  <2>1. ParserInv
    BY TreeFacts
  <2> QED BY <2>1, TextKept DEF Stay, Here
<1>4. Covered(History', built', stack')
  BY <1>1, <1>3, CoveredStays
<1>5. NodeFits'
  BY <1>1, <1>2 DEF Merged, NodeFits
<1> QED BY <1>1, <1>2, <1>4, <1>5, ReadingFits DEF Merged

LEMMA ReturnedToUnaryFits ==
  ASSUME TreeInv, ParserInv', ReturnedToUnary
  PROVE  TreeInv'
<1>1. at = "returned" /\ Last(stack).rule = "unary" /\ InExpression
  BY DEF ReturnedToUnary, Returned, InExpression
<1>2. CASE Fail("SyntaxError")
  BY <1>2, FailFits
<1>3. CASE node # Absent /\ ~Fail("SyntaxError")
  <2>1. Last(stack).op # 0
    BY <1>1, TreeFacts, OperandFacts DEF CallOK
  <2>2. /\ Combined(Last(stack)) = [from |-> Last(stack).from, to |-> node.to]
        /\ BuiltWith(Last(stack)) =
             built \cup {[op |-> Last(stack).op, from |-> Last(stack).from, to |-> node.to]}
    BY <2>1 DEF Combined, BuiltWith
  <2>3. /\ node' = Combined(Last(stack)) /\ built' = BuiltWith(Last(stack))
        /\ Pop /\ Stay /\ GoTo("returned")
    BY <1>3, <2>2 DEF ReturnedToUnary
  <2> QED BY <1>1, <1>3, <2>3, CombinedFits
<1> QED BY <1>2, <1>3 DEF ReturnedToUnary

(* The right operand of an operator is read next.                          *)
LEMMA NextOperandFits ==
  ASSUME TreeInv, ParserInv', at = "returned", node # Absent,
         NEW call, call = Last(stack), call.rule = "level", OperatorAhead(call), NextOperand(call),
         node' = Combined(call), built' = BuiltWith(call)
  PROVE  TreeInv'
<1> DEFINE whole == Combined(call)
           next == [call EXCEPT !.op = Here, !.from = whole.from]
           rest == Front(stack)
           calls == Append(rest, next)
<1>1. /\ Merged(History, call, rest, whole, built', Len(taken))
      /\ \A i \in Nat \ {0} : Kept(built, stack, i) => Kept(built', rest, i)
  BY CombinedMerges
<1>2. Take /\ Call(calls, call.level + 1) /\ at' = "operand"
  BY DEF NextOperand, Call, GoTo
<1>3. /\ ParserInv /\ call \in Frames /\ CallOK(call, Len(stack) = 1, Len(taken))
  BY CallFacts
<1>4. /\ History \in Texts /\ History' \in Texts /\ Prefix(History, History')
      /\ Len(taken) \in Nat /\ Here = Len(taken) + 1 /\ Len(History) = Len(taken)
      /\ Len(taken') = Here /\ History'[Here] = ahead.type /\ Len(History') = Here
      /\ Here' = Here + 1
  BY <1>2, <1>3, HistoryGrows DEF Here
<1>5. call.level \in 1 .. 10 /\ ahead.type \in Operators[call.level] /\ Yields(call) = call.level
  BY <1>3 DEF OperatorAhead, CallOK, Frames, Yields
<1>6. whole.from \in Nat
  BY <1>1 DEF Merged
<1> HIDE DEF whole, rest
<1>7. /\ next \in Frames /\ next.rule = "level" /\ next.level = call.level
      /\ next.op = Here /\ next.from = whole.from
  <2>1. Here \in Nat
    BY <1>4
  <2>2. call \in Frames
    BY <1>3
  <2> QED BY <1>6, <2>1, <2>2 DEF Frames
<1> HIDE DEF next
<1>8. /\ next.op # 0 /\ Opened(next) /\ Begin(next) = Here + 1 /\ Yields(next) = call.level
      /\ Awaits(next) = call.level + 1
  <2>1. Here # 0
    BY <1>4
  <2> QED BY <1>7, <2>1 DEF Opened, Begin, Yields, Awaits
<1>9. /\ Expression(History, whole.from, whole.to, call.level) /\ whole.to = Len(taken)
      /\ CallsOK(rest, Len(taken)) /\ CallsFit(History, rest) /\ Awaits(Last(rest)) = call.level
      /\ StartsAt(rest, Len(rest), whole.from)
      /\ Spread(built', Len(taken)) /\ NodesFit(History, built') /\ Nested(built')
      /\ Separate(built', rest) /\ AllClear(built', whole.from)
  BY <1>1, <1>5 DEF Merged
<1>10. CallText(History', next)
  <2>1. Here - 1 = Len(taken) /\ Len(taken) \in Nat
    BY <1>4
  <2>2. Expression(History', whole.from, Len(taken), call.level)
    BY <1>4, <1>6, <1>9, <2>1, ExpressionKept
  <2> QED BY <1>4, <1>5, <1>7, <2>1, <2>2 DEF CallText
<1>11. whole.from <= Here /\ next.from <= Here /\ next.from >= 1
  <2>1. 1 <= whole.from /\ whole.from <= Len(taken)
    BY <1>9 DEF Expression
  <2> QED BY <1>4, <1>6, <1>7, <2>1
<1>12. CallsOK(rest, Len(taken')) /\ CallsFit(History', rest)
  <2>1. Len(taken') \in Nat /\ Len(taken) <= Len(taken')
    BY <1>4
  <2> QED BY <1>4, <1>9, <2>1, CallsGrow, CallsFitKept
<1>13. CallsOK(calls, Len(taken'))
  <2>1. After(rest, next.from)
    BY <1>3, <1>7, CombinedFacts DEF rest, whole
  <2>2. CallOK(next, FALSE, Len(taken'))
    BY <1>4, <1>5, <1>7, <1>8, <1>11 DEF CallOK
  <2>3. Len(taken') \in Nat
    BY <1>4
  <2> QED BY <1>7, <1>12, <2>1, <2>2, <2>3, PushFacts
<1>14. CallsFit(History', calls)
  <2>1. StartsAt(rest, Len(rest), next.from) /\ Yields(next) = Awaits(Last(rest))
    BY <1>7, <1>8, <1>9
  <2> QED BY <1>10, <1>12, <2>1, PushFits
<1>15. StartsAt(calls, Len(calls), Here')
  <2>1. next.from <= Len(taken') /\ Begin(next) = Len(taken') + 1 /\ Len(taken') \in Nat
        /\ Here' = Len(taken') + 1
    BY <1>4, <1>8, <1>11
  <2> QED BY <1>7, <1>8, <1>12, <2>1, PushStarts
<1>16. /\ \A k \in 1 .. Len(rest) : k \in 1 .. Len(calls) /\ calls[k] = rest[k]
       /\ \A k \in 1 .. Len(calls) : (k \in 1 .. Len(rest) /\ calls[k] = rest[k]) \/ calls[k] = next
       /\ Last(calls) = next /\ \E k \in 1 .. Len(calls) : calls[k] = next
  <2>1. rest \in Seq(Frames) /\ Len(rest) \in Nat
    BY <1>9 DEF CallsOK
  <2>2. /\ Len(calls) = Len(rest) + 1 /\ calls[Len(rest) + 1] = next
        /\ \A k \in 1 .. Len(rest) : calls[k] = rest[k]
    BY <2>1
  <2>3. Last(calls) = next
    BY <2>2, Zenon DEF Last
  <2> HIDE DEF calls
  <2>4. \A k \in 1 .. Len(calls) : k \in 1 .. Len(rest) \/ k = Len(rest) + 1
    BY <2>1, <2>2
  <2>5. Len(rest) + 1 \in 1 .. Len(calls) /\ \A k \in 1 .. Len(rest) : k \in 1 .. Len(calls)
    BY <2>1, <2>2
  <2> QED BY <2>2, <2>3, <2>4, <2>5
<1> HIDE DEF calls
<1>17. Descended(History', calls, stack', Here')
  <2>1. Awaits(Last(calls)) = call.level + 1 /\ call.level + 1 \in 1 .. 11
    BY <1>5, <1>8, <1>16
  <2> QED BY <1>2, <1>13, <1>14, <1>15, <2>1, CallDescends
<1>18. Separate(built', stack')
  <2>1. \A n \in built' : n.op # next.op
    BY <1>4, <1>7, <1>9, BehindAll
  <2>2. AllClear(built', next.from)
    BY <1>7, <1>9
  <2>3. \A k \in 1 .. Len(calls) : \/ k \in 1 .. Len(rest) /\ calls[k] = rest[k]
                                   \/ calls[k].op = 0 /\ ~Opened(calls[k])
                                   \/ /\ \A n \in built' : n.op # calls[k].op
                                      /\ AllClear(built', calls[k].from)
    BY <1>16, <2>1, <2>2
  <2>4. Separate(built', calls)
    BY <1>4, <1>9, <2>3, SeparateAgree
  <2>5. \A k \in 1 .. Len(stack') : \/ k \in 1 .. Len(calls) /\ stack'[k] = calls[k]
                                    \/ stack'[k].op = 0 /\ ~Opened(stack'[k])
    BY <1>17 DEF Descended
  <2> QED BY <1>4, <1>9, <2>4, <2>5, SeparateAgree
<1>19. NodesFit(History', built')
  BY <1>4, <1>9, NodesFitKept
<1>20. Covered(History', built', stack')
  <2>1. \A k \in 1 .. Len(calls) : k \in 1 .. Len(stack') /\ stack'[k] = calls[k]
    BY <1>17 DEF Descended
  <2>2. \A i : Kept(built', rest, i) => Kept(built', calls, i)
    BY <1>16, KeptMore
  <2>3. \A i : Kept(built', calls, i) => Kept(built', stack', i)
    BY <2>1, KeptMore
  <2>4. Kept(built', calls, Here)
    BY <1>7, <1>16 DEF Kept
  <2>5. Kept(built', stack', Here) /\ \A i \in Nat \ {0} : Kept(built, stack, i) => Kept(built', stack', i)
    BY <1>1, <2>2, <2>3, <2>4
  <2> QED BY <1>2, <2>5, CoveredStays
<1> QED BY <1>2, <1>9, <1>17, <1>18, <1>19, <1>20, AheadFits DEF Descended

LEMMA ReturnedToLevelFits ==
  ASSUME TreeInv, ParserInv', ReturnedToLevel
  PROVE  TreeInv'
<1>1. at = "returned" /\ Last(stack).rule = "level" /\ InExpression
  BY DEF ReturnedToLevel, Returned, InExpression
<1> DEFINE call == Last(stack)
<1>2. CASE Fail("SyntaxError")
  BY <1>2, FailFits
<1>3. CASE /\ node = Absent /\ call.op = 0 /\ Pop /\ Stay /\ GoTo("returned")
           /\ UNCHANGED <<node, built, values>>
  <2>1. Below(History, built, stack, stack', Len(taken))
    BY <1>1, <1>3, BelowFacts DEF Pop
  <2>2. at' = "returned" /\ Absent' = Absent /\ History' = History
    BY <1>3 DEF GoTo, Absent, Stay, History
  <2>3. NodeFits' /\ ~Returning'
    BY <1>3, <2>2 DEF NodeFits, Returning
  <2>4. NodesFit(History', built') /\ Nested(built')
    BY <1>3, BuiltStays
  <2>5. Covered(History', built', stack')
    <3>1. ASSUME NEW i \in Nat \ {0}, Kept(built, stack, i) PROVE Kept(built', stack', i)
      BY <1>3, <2>1, <3>1 DEF Kept, Below
    <3>2. ~Take
      BY <1>3, TreeFacts, TextKept DEF Stay, Here
    <3> QED BY <1>3, <3>1, <3>2, CoveredStays
  <2>6. CallsFit(History', stack') /\ Separate(built', stack')
    BY <1>3, <2>1, <2>2 DEF Below
  <2> QED BY <1>3, <2>3, <2>4, <2>5, <2>6, ReadingFits
<1>4. CASE /\ node # Absent /\ node' = Combined(call) /\ built' = BuiltWith(call)
           /\ OperatorAhead(call) /\ NextOperand(call)
  BY <1>1, <1>4, NextOperandFits
<1>5. CASE /\ node # Absent /\ node' = Combined(call) /\ built' = BuiltWith(call)
           /\ Pop /\ Stay /\ GoTo("returned")
  BY <1>1, <1>5, CombinedFits
<1> QED BY <1>2, <1>3, <1>4, <1>5 DEF ReturnedToLevel

LEMMA ReturnedToGroupFits ==
  ASSUME TreeInv, ParserInv', ReturnedToGroup
  PROVE  TreeInv'
<1>1. at = "returned" /\ Last(stack).rule = "group" /\ InExpression
  BY DEF ReturnedToGroup, Returned, InExpression
<1>2. CASE Fail("SyntaxError")
  BY <1>2, FailFits
<1>3. CASE node # Absent /\ Stay /\ GoTo("group_end") /\ UNCHANGED <<stack, node, built, values>>
  <2>1. at' = "group_end" /\ History' = History /\ taken' = taken
    BY <1>3 DEF GoTo, Stay, History
  <2>2. /\ Expression(History, node.from, node.to, Awaits(Last(stack))) /\ node.to = Len(taken)
        /\ StartsAt(stack, Len(stack), node.from) /\ AllClear(built, node.from)
    BY <1>1, <1>3, CallFacts
  <2>3. NodeFits'
    <3>1. Absent' = Absent
      BY DEF Absent
    <3> QED BY <1>3, <2>1, <2>2, <3>1 DEF NodeFits
  <2>4. ~Take
    BY <1>3, TreeFacts, TextKept DEF Stay, Here
  <2> QED BY <1>1, <1>3, <2>2, <2>3, <2>4, ReadFits
<1> QED BY <1>2, <1>3 DEF ReturnedToGroup

(* The whole expression has been read.                                     *)
LEMMA LeaveFits ==
  ASSUME TreeInv, ParserInv', at = "returned", Last(stack).rule \in {"return", "body"}, Pop, Stay,
         at' \in {"return_end", "close"}, UNCHANGED <<node, built, values>>
  PROVE  TreeInv'
<1>1. InExpression /\ ~InExpression' /\ at' # "ended" /\ ParserInv
  BY TreeFacts DEF InExpression
<1>2. Len(stack') = 0
  BY <1>1 DEF ParserInv, StackOK
<1>3. /\ \A k \in 1 .. Len(stack) : stack[k] = Last(stack)
      /\ Last(stack).op = 0
  <2>1. stack \in Seq(Frames) /\ Len(stack) = 1 /\ CallOK(Last(stack), Len(stack) = 1, Len(taken))
    BY <1>1, OperandFacts DEF CallOK, CallsOK
  <2>2. \A k \in 1 .. 1 : k = 1
    OBVIOUS
  <2>3. Last(stack) = stack[1]
    BY <2>1, Zenon DEF Last
  <2> QED BY <2>1, <2>2, <2>3 DEF CallOK
<1>4. History' = History /\ ~Take
  BY <1>1, TextKept DEF Stay, History, Here
<1>5. NodesFit(History', built') /\ Nested(built')
  BY BuiltStays
<1>6. Covered(History', built', stack')
  <2>1. ASSUME NEW i \in Nat \ {0}, Kept(built, stack, i) PROVE Kept(built', stack', i)
    BY <1>3, <2>1 DEF Kept
  <2> QED BY <1>4, <2>1, CoveredStays
<1>7. Separate(built', stack')
  BY <1>2 DEF Separate
<1>8. NodeFits' /\ ~Returning' /\ StackFits'
  BY <1>1 DEF NodeFits, Returning, StackFits
<1>9. BuiltFits'
  BY <1>5, <1>7, <1>8 DEF BuiltFits
<1> QED BY <1>6, <1>8, <1>9 DEF TreeInv

LEMMA ReturnedToReturnFits ==
  ASSUME TreeInv, ParserInv', ReturnedToReturn
  PROVE  TreeInv'
<1>1. at = "returned" /\ Last(stack).rule = "return"
  BY DEF ReturnedToReturn, Returned
<1>2. CASE Fail("SyntaxError")
  BY <1>2, FailFits
<1>3. CASE Pop /\ Stay /\ GoTo("return_end") /\ UNCHANGED <<node, built, values>>
  BY <1>1, <1>3, LeaveFits DEF GoTo
<1> QED BY <1>2, <1>3 DEF ReturnedToReturn

LEMMA ReturnedToBodyFits ==
  ASSUME TreeInv, ParserInv', ReturnedToBody
  PROVE  TreeInv'
BY LeaveFits DEF ReturnedToBody, Returned, GoTo

-----------------------------------------------------------------------------
(* The tree.                                                               *)

LEMMA TreeInit == Init => TreeInv
<1> SUFFICES ASSUME Init PROVE TreeInv
  OBVIOUS
<1>1. ParserInv /\ at = "top" /\ stack = <<>> /\ built = {} /\ taken = <<>>
  BY ParserInit DEF Init
<1>2. StackFits /\ NodeFits /\ ~Returning
  BY <1>1 DEF StackFits, InExpression, NodeFits, Returning
<1>3. BuiltFits
  BY <1>1, <1>2 DEF BuiltFits, NodesFit, Nested, Separate
<1>4. Covered(History, built, stack)
  <2>1. Len(History) = 0
    BY <1>1, HistoryFacts
  <2> QED BY <2>1 DEF Covered
<1> QED BY <1>1, <1>2, <1>3, <1>4 DEF TreeInv

LEMMA TreeStep == TreeInv /\ [Next]_vars => TreeInv'
<1> SUFFICES ASSUME TreeInv, [Next]_vars PROVE TreeInv'
  OBVIOUS
<1>1. ParserInv /\ ParserInv'
  BY TreeFacts, ParserStep
<1>2. CASE UNCHANGED vars
  <2>1. /\ UNCHANGED <<taken, ahead, at, stack, node, built>> /\ History' = History
        /\ Here' = Here
    BY <1>2 DEF vars, History, Here
  <2>2. StackFits' /\ NodeFits' /\ BuiltFits' /\ Covered(History', built', stack')
    BY <2>1 DEF TreeInv, StackFits, InExpression, NodeFits, Returning, BuiltFits, Absent
  <2> QED BY <1>1, <2>2 DEF TreeInv
<1>3. CASE Ended
  BY <1>2, <1>3 DEF Ended
<1>4. CASE TopLevel \/ Arguments \/ ReturnType \/ Expect \/ Statement \/ ReturnValue
  BY <1>1, <1>4, TopLevelFits, ArgumentsFits, ReturnTypeFits, ExpectFits, StatementFits,
     ReturnValueFits
<1>5. CASE Operand \/ Postfix \/ CallEnd \/ GroupEnd
  BY <1>1, <1>5, OperandFits, PostfixFits, CallEndFits, GroupEndFits
<1>6. CASE \/ ReturnedToUnary \/ ReturnedToLevel \/ ReturnedToGroup
           \/ ReturnedToReturn \/ ReturnedToBody
  BY <1>1, <1>6, ReturnedToUnaryFits, ReturnedToLevelFits, ReturnedToGroupFits,
     ReturnedToReturnFits, ReturnedToBodyFits
<1> QED BY <1>2, <1>3, <1>4, <1>5, <1>6 DEF Next, Parse

LEMMA TreeIsRight == TreeInv => TreeFollowsPrecedence
<1> SUFFICES ASSUME TreeInv PROVE TreeFollowsPrecedence
  OBVIOUS
<1>1. /\ ParserInv /\ NodesFit(History, built) /\ Nested(built) /\ Covered(History, built, stack)
      /\ Len(History) = Len(taken) /\ DOMAIN taken = 1 .. Len(taken)
  BY TreeFacts, HistoryFacts, TokenFacts
<1>2. \A n \in built : SplitsAt(History, n, n.op)
  BY <1>1 DEF NodesFit
<1>3. ASSUME at \in {"close", "top"}, NEW i \in DOMAIN taken,
             IsBinary(History, i) \/ IsUnary(History, i)
      PROVE  \E n \in built : n.op = i
  <2>1. Len(stack) = 0
    BY <1>1, <1>3 DEF ParserInv, StackOK, InExpression
  <2> QED BY <1>1, <1>3, <2>1 DEF Covered, Kept
<1>4. \A m, n \in built :
        \/ m = n
        \/ m.to < n.from \/ n.to < m.from
        \/ m.op # n.op /\ n.from <= m.from /\ m.to <= n.to
        \/ m.op # n.op /\ m.from <= n.from /\ n.to <= m.to
  BY <1>1 DEF Nested, Apart
<1> QED BY <1>2, <1>3, <1>4 DEF TreeFollowsPrecedence

(* The calls under way wait for the expressions that the text behind them  *)
(* has, and the nodes that are built fit into each other, in every state.  *)
THEOREM TreeInvariant == Spec => []TreeInv
BY TreeInit, TreeStep, PTL DEF Spec

(* Every node of the tree has the operator that splits its text by         *)
(* precedence and associativity, and a body that is parsed has one node    *)
(* for each of its operators: for programs of any length and nesting, and  *)
(* for every set of tokens offered.                                        *)
THEOREM TreeAlwaysFollowsPrecedence == Spec => []TreeFollowsPrecedence
BY TreeInvariant, TreeIsRight, PTL

-----------------------------------------------------------------------------
(* What may come next.                                                     *)

(* The tokens of an expression.                                            *)
Inner == EndsOperand \cup BinaryOperator \cup UnaryOperator \cup {"L_PAREN"}

(* The text ends in the head of a function, or in its braces.              *)
InHead(h) ==
  \E f \in 1 .. Len(h) :
    h[f] = "KEYWORD_FN" /\ \A i \in f .. Len(h) : h[i] # "L_CURLY_BRACKET"

InBraces(h) ==
  \E c \in 1 .. Len(h) :
    h[c] = "L_CURLY_BRACKET" /\ \A i \in c .. Len(h) : h[i] # "KEYWORD_FN"

(* A statement, behind the token at s that begins it.                      *)
Opener(returns) ==
  IF returns THEN {"KEYWORD_RETURN"} ELSE {"L_CURLY_BRACKET", "SEMICOLON"}

Statements(h, s, returns) ==
  /\ s \in 1 .. Len(h) /\ h[s] \in Opener(returns)
  /\ \A i \in s + 1 .. Len(h) : h[i] \in Inner

(* An operand has ended, and what comes next is neither a call nor an      *)
(* operator that could go on with it.                                      *)
NoCall(h, s, type) ==
  type = "L_PAREN" => h[Len(h)] = "R_PAREN" /\ IsCall(h, Opening(h, s, Len(h)))

NoOperator(h, s, type) == type \in BinaryOperator => Repeats(h, s, type)

Complete(h, s, type) ==
  /\ h[Len(h)] \in EndsOperand /\ Up(h, Len(h)) = Up(h, s)
  /\ NoCall(h, s, type) /\ NoOperator(h, s, type)

(* The end of the text in each place of a function's head: last is the     *)
(* last token, and before the one before it.                               *)
HeadPlaces == {"name", "l_paren", "args", "colon", "arrow", "type", "open"}

EndOfHead(last, before, type) ==
  /\ at = "name" => last = "KEYWORD_FN"
  /\ at = "l_paren" => last = "IDENT" /\ before = "KEYWORD_FN"
  /\ at = "args" => last = "L_PAREN"
  /\ at = "colon" => last = "IDENT" /\ before = "L_PAREN"
  /\ at = "arrow" => last = "R_PAREN" \/ (last = "L_PAREN" /\ type \notin {"IDENT", "R_PAREN"})
  /\ at = "type" => last = "THIN_ARROW"
  /\ at = "open" =>
       \/ last = "IDENT" /\ before = "THIN_ARROW"
       \/ last = "R_PAREN" /\ type # "THIN_ARROW"
       \/ last = "L_PAREN" /\ type \notin {"IDENT", "R_PAREN", "THIN_ARROW"}

HeadEnds ==
  at \in HeadPlaces =>
    /\ InHead(History)
    /\ EndOfHead(History[Len(taken)], History[Len(taken) - 1], ahead.type)

TopEnds ==
  at \in {"top", "end"} =>
    /\ taken # <<>> => InBraces(History) /\ History[Len(taken)] = "R_CURLY_BRACKET"
    /\ at = "end" => ahead.type # "KEYWORD_FN"

BodyEnds ==
  /\ at \in {"body", "return_value", "return_end", "close"} => InBraces(History)
  /\ at = "body" => History[Len(taken)] \in Opener(FALSE)
  /\ at = "return_value" => History[Len(taken)] = "KEYWORD_RETURN"
  /\ at = "return_end" =>
       \E s \in 1 .. Len(taken) : Statements(History, s, TRUE) /\ Complete(History, s, ahead.type)
  /\ at = "close" =>
       \/ /\ History[Len(taken)] \in Opener(FALSE)
          /\ ahead.type \notin StartsOperand \cup {"KEYWORD_RETURN"}
       \/ \E s \in 1 .. Len(taken) : Statements(History, s, FALSE) /\ Complete(History, s, ahead.type)

(* In an expression: where it began, and what has been refused since the   *)
(* last token.                                                             *)
Begun == stack[1].from - 1
Returns == stack[1].rule = "return"

(* A statement can be none.                                                *)
Instead == IF Returns THEN "SEMICOLON" ELSE "KEYWORD_RETURN"

Continues ==
  /\ at = "postfix" /\ History[Len(taken)] = "R_PAREN" =>
       ~IsCall(History, Opening(History, Begun, Len(taken)))
  /\ at = "call_end" => IsCall(History, Len(taken))
  /\ at = "operand" \/ (at = "returned" /\ node = Absent) =>
       /\ StartsAt(stack, Len(stack), Here)
       /\ stack[1].from = Here => ahead.type # Instead
  /\ at = "returned" /\ node = Absent => ahead.type \notin StartsOperand
  /\ at \in {"returned", "group_end"} /\ node # Absent =>
       /\ NoCall(History, Begun, ahead.type)
       /\ \/ NoOperator(History, Begun, ahead.type)
          \/ at = "returned" /\ Level(ahead.type) < Awaits(Last(stack))

ExpressionEnds ==
  InExpression => InBraces(History) /\ Statements(History, Begun, Returns) /\ Continues

LegalInv ==
  /\ TreeInv /\ HeadEnds /\ TopEnds /\ BodyEnds /\ ExpressionEnds
  /\ at # "ended" => outcome = "parsing"
  /\ ErrorsAtFirstIllegal

-----------------------------------------------------------------------------
(* The language.                                                           *)

LEMMA MaxFacts ==
  ASSUME NEW n \in Nat, NEW T, T \subseteq 0 .. n, 0 \in T
  PROVE  Max(T) \in T /\ \A y \in T : y <= Max(T)
<1> DEFINE D == {n - x : x \in T}
<1>1. D \subseteq Nat /\ D # {}
  <2>1. ASSUME NEW x \in T PROVE n - x \in Nat
    <3>1. x \in Nat /\ x <= n
      OBVIOUS
    <3> QED BY <3>1
  <2>2. n - 0 \in D
    OBVIOUS
  <2> QED BY <2>1, <2>2
<1> HIDE DEF D
<1>2. PICK d \in D : \A y \in D : d <= y
  BY <1>1, LeastNumber
<1>3. PICK x \in T : d = n - x
  BY <1>2 DEF D
<1>4. \A y \in T : n - y \in D
  BY DEF D
<1>5. \A y \in T : y \in Int /\ x \in Int /\ n - x <= n - y
  BY <1>2, <1>3, <1>4
<1>6. \A y \in T : x >= y
  BY <1>5
<1>7. Max(T) \in T /\ \A y \in T : Max(T) >= y
  BY <1>6 DEF Max
<1> QED BY <1>7

LEMMA LastOfFacts ==
  ASSUME NEW h \in Texts, NEW types
  PROVE  /\ LastOf(h, types) \in 0 .. Len(h)
         /\ LastOf(h, types) = 0 \/ h[LastOf(h, types)] \in types
         /\ \A k \in 1 .. Len(h) : h[k] \in types => k <= LastOf(h, types)
<1> DEFINE T == {0} \cup {k \in DOMAIN h : h[k] \in types}
<1>1. Len(h) \in Nat /\ DOMAIN h = 1 .. Len(h)
  BY DEF Texts
<1>2. T \subseteq 0 .. Len(h) /\ 0 \in T
  BY <1>1
<1>3. LastOf(h, types) = Max(T)
  BY DEF LastOf
<1>4. \A k \in T : k = 0 \/ h[k] \in types
  OBVIOUS
<1>5. \A k \in 1 .. Len(h) : h[k] \in types => k \in T
  BY <1>1
<1> HIDE DEF T
<1>6. Max(T) \in T /\ \A y \in T : y <= Max(T)
  BY <1>1, <1>2, MaxFacts
<1> QED BY <1>2, <1>3, <1>4, <1>5, <1>6

(* The last of a kind.                                                     *)
LEMMA LastOfIs ==
  ASSUME NEW h \in Texts, NEW types, NEW p \in 1 .. Len(h), h[p] \in types,
         \A k \in p + 1 .. Len(h) : h[k] \notin types
  PROVE  LastOf(h, types) = p
<1>1. Len(h) \in Nat
  BY DEF Texts
<1> DEFINE l == LastOf(h, types)
<1>2. l \in 0 .. Len(h) /\ (l = 0 \/ h[l] \in types) /\ p <= l
  BY LastOfFacts
<1> HIDE DEF l
<1>3. l = p \/ l \in p + 1 .. Len(h)
  BY <1>1, <1>2
<1>4. l # 0
  BY <1>2
<1> QED BY <1>2, <1>3, <1>4 DEF l

(* What the parser takes in either part of the language.                   *)
TakesInBody(h, type) ==
  LegalInBody(h, type) /\ ~SecondCall(h, type) /\ ~SecondOperator(h, type)

TakesInHead(h, type) ==
  \/ LegalInHead(h, type)
  \/ type \in {"THIN_ARROW", "L_CURLY_BRACKET"} /\ Last(h) = "L_PAREN"

(* The departures are where an operand has ended, or in a head.            *)
LEMMA NoDeparture ==
  ASSUME NEW h, NEW type
  PROVE  /\ Last(h) \notin EndsOperand => ~SecondCall(h, type) /\ ~SecondOperator(h, type)
         /\ type \in {"KEYWORD_FN", "END_OF_FILE"} =>
              /\ ~SecondCall(h, type) /\ ~SecondOperator(h, type) /\ ~UnclosedHead(h, type)
         /\ ~EndsInHead(h) => ~UnclosedHead(h, type)
         /\ LegalInHead(h, type) => ~SecondCall(h, type) /\ ~SecondOperator(h, type)
<1>1. Last(h) \notin EndsOperand => ~SecondCall(h, type) /\ ~SecondOperator(h, type)
  BY KindFacts DEF SecondCall, SecondOperator
<1>2. type \in {"KEYWORD_FN", "END_OF_FILE"} =>
        /\ ~SecondCall(h, type) /\ ~SecondOperator(h, type) /\ ~UnclosedHead(h, type)
  BY OtherKinds DEF SecondCall, SecondOperator, UnclosedHead
<1>3. ~EndsInHead(h) => ~UnclosedHead(h, type)
  BY DEF UnclosedHead
<1>4. ASSUME LegalInHead(h, type)
      PROVE  ~SecondCall(h, type) /\ ~SecondOperator(h, type)
  <2>1. /\ type \in {"IDENT", "R_PAREN", "THIN_ARROW", "L_CURLY_BRACKET", "L_PAREN", "COLON"}
        /\ type = "L_PAREN" => Last(h) = "IDENT"
    BY <1>4 DEF LegalInHead
  <2>2. type \notin BinaryOperator
    BY <2>1, OtherKinds
  <2> QED BY <2>1, <2>2 DEF SecondCall, SecondOperator
<1> QED BY <1>1, <1>2, <1>3, <1>4

(* Which part of the language a text is in.                                *)
LEMMA LegalParts ==
  ASSUME NEW h \in Texts, NEW type
  PROVE  /\ h = <<>> => (Takes(h, type) <=> type \in {"KEYWORD_FN", "END_OF_FILE"})
         /\ InBraces(h) /\ h[Len(h)] = "R_CURLY_BRACKET" =>
              (Takes(h, type) <=> type \in {"KEYWORD_FN", "END_OF_FILE"})
         /\ InBraces(h) /\ h[Len(h)] # "R_CURLY_BRACKET" => (Takes(h, type) <=> TakesInBody(h, type))
         /\ InHead(h) /\ h[Len(h)] # "R_CURLY_BRACKET" => (Takes(h, type) <=> TakesInHead(h, type))
<1> DEFINE r == LastOf(h, {"R_CURLY_BRACKET"})
           f == LastOf(h, {"KEYWORD_FN"})
           c == LastOf(h, {"L_CURLY_BRACKET"})
<1>1. Len(h) \in Nat /\ (Len(h) = 0 <=> h = <<>>)
  BY DEF Texts
<1>2. /\ Legal(h, type) = CASE h = <<>> \/ r = Len(h) -> type \in {"KEYWORD_FN", "END_OF_FILE"}
                            [] h # <<>> /\ f > c -> LegalInHead(h, type)
                            [] OTHER -> LegalInBody(h, type)
      /\ EndsInHead(h) <=> f > c
  BY DEF Legal, EndsInHead
<1>3. /\ r \in 0 .. Len(h) /\ f \in 0 .. Len(h) /\ c \in 0 .. Len(h)
      /\ r = 0 \/ h[r] = "R_CURLY_BRACKET"
      /\ f = 0 \/ h[f] = "KEYWORD_FN"
      /\ c = 0 \/ h[c] = "L_CURLY_BRACKET"
      /\ \A k \in 1 .. Len(h) : h[k] = "R_CURLY_BRACKET" => k <= r
      /\ \A k \in 1 .. Len(h) : h[k] = "KEYWORD_FN" => k <= f
      /\ \A k \in 1 .. Len(h) : h[k] = "L_CURLY_BRACKET" => k <= c
  BY LastOfFacts
<1> HIDE DEF r, f, c
<1>4. h # <<>> => (r = Len(h) <=> h[Len(h)] = "R_CURLY_BRACKET")
  <2> SUFFICES ASSUME h # <<>> PROVE r = Len(h) <=> h[Len(h)] = "R_CURLY_BRACKET"
    OBVIOUS
  <2>1. Len(h) \in 1 .. Len(h) /\ Len(h) # 0
    BY <1>1
  <2>2. h[Len(h)] = "R_CURLY_BRACKET" => Len(h) <= r
    BY <1>3, <2>1
  <2>3. Len(h) <= r => r = Len(h)
    BY <1>1, <1>3
  <2> QED BY <1>3, <2>1, <2>2, <2>3
<1>5. InBraces(h) => h # <<>> /\ ~(f > c)
  <2> SUFFICES ASSUME InBraces(h) PROVE h # <<>> /\ ~(f > c)
    OBVIOUS
  <2>1. PICK k \in 1 .. Len(h) :
          h[k] = "L_CURLY_BRACKET" /\ \A l \in k .. Len(h) : h[l] # "KEYWORD_FN"
    BY DEF InBraces
  <2>2. k <= c
    BY <1>3, <2>1
  <2>3. f = 0 \/ ~(f >= k)
    <3>1. f \in k .. Len(h) => h[f] = h[f] /\ f # 0
      BY <2>1
    <3>2. f \notin k .. Len(h) \/ f = 0
      BY <1>3, <2>1, <3>1
    <3> QED BY <1>1, <1>3, <3>2
  <2>4. k \in Nat /\ k # 0 /\ c \in Nat /\ f \in Nat
    BY <1>1, <1>3
  <2> QED BY <1>1, <2>2, <2>3, <2>4
<1>6. InHead(h) => h # <<>> /\ f > c
  <2> SUFFICES ASSUME InHead(h) PROVE h # <<>> /\ f > c
    OBVIOUS
  <2>1. PICK k \in 1 .. Len(h) :
          h[k] = "KEYWORD_FN" /\ \A l \in k .. Len(h) : h[l] # "L_CURLY_BRACKET"
    BY DEF InHead
  <2>2. k <= f
    BY <1>3, <2>1
  <2>3. c = 0 \/ ~(c >= k)
    <3>1. c \in k .. Len(h) => h[c] = h[c] /\ c # 0
      BY <2>1
    <3>2. c \notin k .. Len(h) \/ c = 0
      BY <1>3, <2>1, <3>1
    <3> QED BY <1>1, <1>3, <3>2
  <2>4. k \in Nat /\ k # 0 /\ f \in Nat /\ c \in Nat
    BY <1>1, <1>3
  <2> QED BY <1>1, <2>2, <2>3, <2>4
<1>7. Last(h) = h[Len(h)]
  BY Zenon DEF Last
<1>8. CASE h = <<>>
  <2>1. ~InBraces(h) /\ ~InHead(h)
    BY <1>5, <1>6, <1>8
  <2>2. f = 0 /\ c = 0
    BY <1>1, <1>3, <1>8
  <2>3. Legal(h, type) <=> type \in {"KEYWORD_FN", "END_OF_FILE"}
    BY <1>2, <1>8
  <2>4. ~EndsInHead(h)
    BY <1>2, <2>2
  <2> QED BY <1>8, <2>1, <2>3, <2>4, NoDeparture DEF Takes
<1>9. CASE h # <<>> /\ h[Len(h)] = "R_CURLY_BRACKET"
  <2>1. ~UnclosedHead(h, type)
    BY <1>7, <1>9 DEF UnclosedHead
  <2>2. InBraces(h) => (Legal(h, type) <=> type \in {"KEYWORD_FN", "END_OF_FILE"})
    BY <1>2, <1>4, <1>5, <1>9
  <2> QED BY <1>9, <2>1, <2>2, NoDeparture DEF Takes
<1>10. CASE h # <<>> /\ h[Len(h)] # "R_CURLY_BRACKET"
  <2>1. ASSUME InBraces(h)
        PROVE  Takes(h, type) <=> TakesInBody(h, type)
    <3>1. /\ Legal(h, type) <=> LegalInBody(h, type)
          /\ ~EndsInHead(h)
      BY <1>2, <1>4, <1>5, <1>10, <2>1
    <3> QED BY <3>1, NoDeparture DEF Takes, TakesInBody
  <2>2. ASSUME InHead(h)
        PROVE  Takes(h, type) <=> TakesInHead(h, type)
    <3>1. /\ Legal(h, type) <=> LegalInHead(h, type)
          /\ EndsInHead(h)
      BY <1>2, <1>4, <1>6, <1>10, <2>2
    <3> QED BY <3>1, NoDeparture DEF Takes, TakesInHead, UnclosedHead
  <2> QED BY <1>10, <2>1, <2>2
<1> QED BY <1>8, <1>9, <1>10

(* In the head, by the last token.                                         *)
LEMMA LegalInHeadCases ==
  ASSUME NEW h, NEW type, NEW last, last = h[Len(h)], NEW before, before = h[Len(h) - 1]
  PROVE  /\ last \in {"KEYWORD_FN", "THIN_ARROW"} => (TakesInHead(h, type) <=> type = "IDENT")
         /\ last = "L_PAREN" =>
              (TakesInHead(h, type) <=> type \in {"IDENT", "R_PAREN", "THIN_ARROW", "L_CURLY_BRACKET"})
         /\ last = "R_PAREN" => (TakesInHead(h, type) <=> type \in {"THIN_ARROW", "L_CURLY_BRACKET"})
         /\ last = "IDENT" /\ before = "KEYWORD_FN" => (TakesInHead(h, type) <=> type = "L_PAREN")
         /\ last = "IDENT" /\ before = "THIN_ARROW" =>
              (TakesInHead(h, type) <=> type = "L_CURLY_BRACKET")
         /\ last = "IDENT" /\ before = "L_PAREN" => (TakesInHead(h, type) <=> type = "COLON")
<1>1. Last(h) = last
  BY Zenon DEF Last
<1>2. /\ LegalInHead(h, type) =
           CASE last = "KEYWORD_FN"  -> type = "IDENT"
             [] last = "THIN_ARROW"  -> type = "IDENT"
             [] last = "L_PAREN"     -> type \in {"IDENT", "R_PAREN"}
             [] last = "R_PAREN"     -> type \in {"THIN_ARROW", "L_CURLY_BRACKET"}
             [] last = "IDENT" /\ before = "KEYWORD_FN" -> type = "L_PAREN"
             [] last = "IDENT" /\ before = "THIN_ARROW" -> type = "L_CURLY_BRACKET"
             [] last = "IDENT" /\ before = "L_PAREN" -> type = "COLON"
             [] OTHER -> FALSE
      /\ TakesInHead(h, type) <=>
           \/ LegalInHead(h, type)
           \/ type \in {"THIN_ARROW", "L_CURLY_BRACKET"} /\ last = "L_PAREN"
  BY <1>1 DEF LegalInHead, TakesInHead
<1>3. last \in {"KEYWORD_FN", "THIN_ARROW"} => (TakesInHead(h, type) <=> type = "IDENT")
  BY <1>2
<1>4. last = "L_PAREN" =>
        (TakesInHead(h, type) <=> type \in {"IDENT", "R_PAREN", "THIN_ARROW", "L_CURLY_BRACKET"})
  BY <1>2
<1>5. last = "R_PAREN" => (TakesInHead(h, type) <=> type \in {"THIN_ARROW", "L_CURLY_BRACKET"})
  BY <1>2
<1>6. last = "IDENT" /\ before = "KEYWORD_FN" => (TakesInHead(h, type) <=> type = "L_PAREN")
  BY <1>2
<1>7. last = "IDENT" /\ before = "THIN_ARROW" => (TakesInHead(h, type) <=> type = "L_CURLY_BRACKET")
  BY <1>2
<1>8. last = "IDENT" /\ before = "L_PAREN" => (TakesInHead(h, type) <=> type = "COLON")
  BY <1>2
<1> QED BY <1>3, <1>4, <1>5, <1>6, <1>7, <1>8

(* In the braces, at the beginning of a statement.                         *)
LEMMA LegalAtBeginning ==
  ASSUME NEW h, NEW type, NEW last, last = h[Len(h)]
  PROVE  /\ last \in Opener(FALSE) =>
              (TakesInBody(h, type) <=> type \in StartsOperand \cup {"KEYWORD_RETURN", "R_CURLY_BRACKET"})
         /\ last = "KEYWORD_RETURN" =>
              (TakesInBody(h, type) <=> type \in StartsOperand \cup {"SEMICOLON"})
<1>1. Last(h) = last
  BY Zenon DEF Last
<1>inBody. last \notin EndsOperand => (TakesInBody(h, type) <=> LegalInBody(h, type))
  BY <1>1, NoDeparture DEF TakesInBody
<1>2. Opener(FALSE) = {"L_CURLY_BRACKET", "SEMICOLON"}
  BY DEF Opener
<1>3. last \in {"L_CURLY_BRACKET", "SEMICOLON", "KEYWORD_RETURN"} => last \notin EndsOperand
  BY DEF EndsOperand
<1>4. last \in {"L_CURLY_BRACKET", "SEMICOLON"} =>
        (TakesInBody(h, type) <=> type \in StartsOperand \cup {"KEYWORD_RETURN", "R_CURLY_BRACKET"})
  BY <1>inBody, <1>1, <1>3 DEF LegalInBody
<1>5. last = "KEYWORD_RETURN" =>
        (TakesInBody(h, type) <=> type \in StartsOperand \cup {"SEMICOLON"})
  BY <1>inBody, <1>1, <1>3 DEF LegalInBody
<1> QED BY <1>2, <1>4, <1>5

(* Where a statement began.                                                *)
LEMMA StatementFacts ==
  ASSUME NEW h \in Texts, NEW s, NEW returns \in BOOLEAN, Statements(h, s, returns)
  PROVE  /\ s \in 1 .. Len(h) /\ s \in Nat /\ Len(h) \in Nat
         /\ LastOf(h, {"L_CURLY_BRACKET", "SEMICOLON", "KEYWORD_RETURN"}) = s
         /\ h[s] = "KEYWORD_RETURN" <=> returns
         /\ h[s] \notin Inner
         /\ \A k \in s .. Len(h) : Depth(h, s, k) = Up(h, k) - Up(h, s) /\ Up(h, k) \in Int
<1> DEFINE types == {"L_CURLY_BRACKET", "SEMICOLON", "KEYWORD_RETURN"}
<1>1. s \in 1 .. Len(h) /\ s \in Nat /\ Len(h) \in Nat
  BY DEF Statements, Texts
<1>2. /\ h[s] \in types /\ (h[s] = "KEYWORD_RETURN" <=> returns)
  BY DEF Statements, Opener
<1>3. ASSUME NEW type \in types
      PROVE  type \notin Inner /\ Weight(type) = 0
  <2>1. type \notin BinaryOperator \cup UnaryOperator
    BY OtherKinds
  <2> QED BY <2>1 DEF Inner, EndsOperand, Weight
<1>4. \A k \in s + 1 .. Len(h) : h[k] \notin types
  BY <1>3 DEF Statements
<1>5. LastOf(h, types) = s
  BY <1>1, <1>2, <1>4, LastOfIs
<1>6. ASSUME NEW k \in s .. Len(h)
      PROVE  Depth(h, s, k) = Up(h, k) - Up(h, s) /\ Up(h, k) \in Int
  <2>1. k \in Nat /\ s \in Nat \ {0} /\ 1 <= s /\ s <= k + 1 /\ s - 1 \in Nat
    BY <1>1
  <2>2. Depth(h, s, k) = Up(h, k) - Up(h, s - 1)
    BY <2>1, UpFacts
  <2>3. Up(h, s) = Up(h, s - 1) + Weight(h[s]) /\ Up(h, s - 1) \in Int /\ Up(h, k) \in Int
    BY <2>1, UpFacts
  <2>4. Weight(h[s]) = 0
    BY <1>2, <1>3
  <2> QED BY <2>2, <2>3, <2>4
<1> QED BY <1>1, <1>2, <1>3, <1>5, <1>6

(* Behind an operand.                                                      *)
LEMMA LegalAfterOperand ==
  ASSUME NEW h \in Texts, NEW type, NEW s, NEW returns \in BOOLEAN, Statements(h, s, returns),
         h[Len(h)] \in EndsOperand
  PROVE  TakesInBody(h, type) <=>
           \/ type = "L_PAREN" /\ ~NoCall(h, s, type)
           \/ type = "R_PAREN" /\ Up(h, Len(h)) > Up(h, s)
           \/ type \in BinaryOperator /\ ~Repeats(h, s, type)
           \/ type = "SEMICOLON" /\ Up(h, Len(h)) = Up(h, s) /\ returns
           \/ type = "R_CURLY_BRACKET" /\ Up(h, Len(h)) = Up(h, s) /\ ~returns
<1> DEFINE last == h[Len(h)]
           depth == Depth(h, s, Len(h))
<1>1. /\ LastOf(h, {"L_CURLY_BRACKET", "SEMICOLON", "KEYWORD_RETURN"}) = s
      /\ h[s] = "KEYWORD_RETURN" <=> returns
      /\ s \in 1 .. Len(h) /\ Len(h) \in Nat
      /\ \A k \in s .. Len(h) : Depth(h, s, k) = Up(h, k) - Up(h, s) /\ Up(h, k) \in Int
  BY StatementFacts
<1>2. Last(h) = last
  BY Zenon DEF Last
<1>3. last \notin {"L_CURLY_BRACKET", "SEMICOLON", "KEYWORD_RETURN", "L_PAREN"} /\ last \in EndsOperand
  BY DEF EndsOperand
<1>4. depth = Up(h, Len(h)) - Up(h, s) /\ Up(h, s) \in Int /\ Up(h, Len(h)) \in Int
  <2>1. s \in s .. Len(h) /\ Len(h) \in s .. Len(h)
    BY <1>1
  <2> QED BY <1>1, <2>1
<1> HIDE DEF depth, last
<1>5. LegalInBody(h, type) =
        CASE last \in {"L_CURLY_BRACKET", "SEMICOLON"} ->
              type \in StartsOperand \cup {"KEYWORD_RETURN", "R_CURLY_BRACKET"}
         [] last = "KEYWORD_RETURN" -> type \in StartsOperand \cup {"SEMICOLON"}
         [] last \in EndsOperand ->
              \/ type \in BinaryOperator \cup {"L_PAREN"}
              \/ type = "R_PAREN" /\ depth > 0
              \/ type = "SEMICOLON" /\ depth = 0 /\ h[s] = "KEYWORD_RETURN"
              \/ type = "R_CURLY_BRACKET" /\ depth = 0 /\ h[s] # "KEYWORD_RETURN"
         [] last = "L_PAREN" /\ IsCall(h, Len(h)) -> type = "R_PAREN"
         [] OTHER -> type \in StartsOperand
  BY <1>1, <1>2 DEF LegalInBody, StatementStart, depth
<1>6. LegalInBody(h, type) <=>
        \/ type \in BinaryOperator \cup {"L_PAREN"}
        \/ type = "R_PAREN" /\ depth > 0
        \/ type = "SEMICOLON" /\ depth = 0 /\ h[s] = "KEYWORD_RETURN"
        \/ type = "R_CURLY_BRACKET" /\ depth = 0 /\ h[s] # "KEYWORD_RETURN"
  BY <1>3, <1>5
<1>8. /\ SecondCall(h, type) <=> type = "L_PAREN" /\ ~(type = "L_PAREN" /\ ~NoCall(h, s, type))
      /\ SecondOperator(h, type) <=> type \in BinaryOperator /\ Repeats(h, s, type)
  BY <1>1, <1>2, <1>3 DEF SecondCall, SecondOperator, StatementStart, NoCall, last
<1>9. type \in {"L_PAREN", "R_PAREN", "SEMICOLON", "R_CURLY_BRACKET"} => type \notin BinaryOperator
  BY OtherKinds
<1>7. (depth > 0 <=> Up(h, Len(h)) > Up(h, s)) /\ (depth = 0 <=> Up(h, Len(h)) = Up(h, s))
  BY <1>4
<1> QED BY <1>1, <1>6, <1>7, <1>8, <1>9 DEF TakesInBody

(* Where an operand is missing.                                            *)
LEMMA LegalElsewhere ==
  ASSUME NEW h, NEW type, NEW last, last = h[Len(h)]
  PROVE  /\ last = "L_PAREN" /\ IsCall(h, Len(h)) => (TakesInBody(h, type) <=> type = "R_PAREN")
         /\ last = "L_PAREN" /\ ~IsCall(h, Len(h)) => (TakesInBody(h, type) <=> type \in StartsOperand)
         /\ last \in BinaryOperator \cup UnaryOperator =>
              (TakesInBody(h, type) <=> type \in StartsOperand)
<1>1. Last(h) = last
  BY Zenon DEF Last
<1>inBody. last \notin EndsOperand => (TakesInBody(h, type) <=> LegalInBody(h, type))
  BY <1>1, NoDeparture DEF TakesInBody
<1>2. last = "L_PAREN" => last \notin EndsOperand
  BY DEF EndsOperand
<1>3. last \in BinaryOperator \cup UnaryOperator =>
        /\ last \notin EndsOperand
        /\ last \notin {"L_CURLY_BRACKET", "SEMICOLON", "KEYWORD_RETURN", "L_PAREN"}
  BY KindFacts, OtherKinds
<1>4. last = "L_PAREN" /\ IsCall(h, Len(h)) => (TakesInBody(h, type) <=> type = "R_PAREN")
  BY <1>inBody, <1>1, <1>2 DEF LegalInBody
<1>5. last = "L_PAREN" /\ ~IsCall(h, Len(h)) => (TakesInBody(h, type) <=> type \in StartsOperand)
  BY <1>inBody, <1>1, <1>2 DEF LegalInBody
<1>6. last \in BinaryOperator \cup UnaryOperator =>
        (TakesInBody(h, type) <=> type \in StartsOperand)
  BY <1>inBody, <1>1, <1>3 DEF LegalInBody
<1> QED BY <1>4, <1>5, <1>6

-----------------------------------------------------------------------------
(* The calls and the language.                                             *)

(* The place of the parenthesis that is closed last.                       *)
LEMMA OpeningIs ==
  ASSUME NEW h \in Texts, NEW s, NEW returns \in BOOLEAN, Statements(h, s, returns),
         NEW n \in 1 .. Len(h), NEW k \in s .. n, h[k] = "L_PAREN", Up(h, k) = Up(h, n) + 1,
         \A j \in k .. n - 1 : Up(h, j) > Up(h, n)
  PROVE  Opening(h, s, n) = k
<1>1. /\ s \in Nat /\ Len(h) \in Nat /\ s \in 1 .. Len(h)
      /\ \A j \in s .. Len(h) : Depth(h, s, j) = Up(h, j) - Up(h, s) /\ Up(h, j) \in Int
  BY StatementFacts
<1>2. /\ k \in Int /\ n \in Nat /\ s <= k /\ k <= n /\ n <= Len(h)
      /\ s \in s .. Len(h) /\ n \in s .. Len(h)
      /\ \A j \in s .. n : j \in s .. Len(h)
      /\ \A j \in s .. n : \A l \in j .. n - 1 : l \in s .. Len(h)
  BY <1>1
<1> DEFINE P(j) == /\ h[j] = "L_PAREN" /\ Depth(h, s, j) = Depth(h, s, n) + 1
                   /\ \A l \in j .. n - 1 : Depth(h, s, l) > Depth(h, s, n)
           Q(j) == /\ h[j] = "L_PAREN" /\ Up(h, j) = Up(h, n) + 1
                   /\ \A l \in j .. n - 1 : Up(h, l) > Up(h, n)
<1>3. ASSUME NEW j \in s .. n PROVE P(j) <=> Q(j)
  <2>1. /\ Depth(h, s, j) = Up(h, j) - Up(h, s) /\ Depth(h, s, n) = Up(h, n) - Up(h, s)
        /\ Up(h, j) \in Int /\ Up(h, n) \in Int /\ Up(h, s) \in Int
    BY <1>1, <1>2
  <2>2. \A l \in j .. n - 1 : Depth(h, s, l) = Up(h, l) - Up(h, s) /\ Up(h, l) \in Int
    BY <1>1, <1>2
  <2>3. Depth(h, s, j) = Depth(h, s, n) + 1 <=> Up(h, j) = Up(h, n) + 1
    BY <2>1
  <2>4. \A l \in j .. n - 1 : Depth(h, s, l) > Depth(h, s, n) <=> Up(h, l) > Up(h, n)
    BY <2>1, <2>2
  <2> QED BY <2>3, <2>4
<1>4. Q(k)
  OBVIOUS
<1>5. ASSUME NEW i \in s .. n, NEW j \in s .. n, Q(i), Q(j), i < j PROVE FALSE
  <2>1. j - 1 \in i .. n - 1 /\ j \in Nat \ {0} /\ j - 1 \in Nat
    BY <1>1, <1>2, <1>5
  <2>2. Up(h, j) = Up(h, j - 1) + Weight(h[j]) /\ Up(h, j - 1) \in Int /\ Weight("L_PAREN") = 1
    BY <2>1, UpFacts, KindFacts
  <2>3. Up(h, j - 1) > Up(h, n) /\ Up(h, n) \in Int
    BY <1>1, <1>2, <1>5, <2>1
  <2> QED BY <1>5, <2>2, <2>3
<1>6. \A i, j \in s .. n : Q(i) /\ Q(j) => i = j
  <2>1. \A i, j \in s .. n : i = j \/ i < j \/ j < i
    BY <1>1, <1>2
  <2> HIDE DEF Q
  <2> QED BY <1>5, <2>1
<1>7. Opening(h, s, n) = CHOOSE j \in s .. n : P(j)
  BY DEF Opening
<1> HIDE DEF P, Q
<1>8. k \in s .. n /\ P(k) /\ \A j \in s .. n : P(j) => j = k
  BY <1>3, <1>4, <1>6
<1> QED BY <1>7, <1>8

(* The calls of a statement, against the text.                             *)
Standing(h, calls) ==
  /\ Statements(h, calls[1].from - 1, calls[1].rule = "return")
  /\ CallsOK(calls, Len(h)) /\ CallsFit(h, calls)

LEMMA StandingFacts ==
  ASSUME NEW h \in Texts, NEW calls, Standing(h, calls)
  PROVE  /\ Len(calls) \in Nat /\ Len(calls) >= 1 /\ Len(h) \in Nat
         /\ calls[1].from - 1 \in 1 .. Len(h) /\ calls[1].rule \in {"return", "body"}
         /\ h[calls[1].from - 1] \notin Inner
         /\ \A k \in 1 .. Len(calls) :
              /\ calls[k] \in Frames /\ CallOK(calls[k], k = 1, Len(h)) /\ CallFits(h, calls, k)
              /\ calls[k].from \in Nat /\ calls[k].op \in Nat /\ calls[k].level \in 0 .. 10
<1>1. CallsOK(calls, Len(h)) /\ CallsFit(h, calls)
  BY DEF Standing
<1>2. /\ calls \in Seq(Frames) /\ Len(calls) >= 1 /\ Len(calls) \in Nat
      /\ \A k \in 1 .. Len(calls) : calls[k] \in Frames
  BY <1>1 DEF CallsOK
<1>3. \A k \in 1 .. Len(calls) :
        /\ calls[k] \in Frames /\ CallOK(calls[k], k = 1, Len(h)) /\ CallFits(h, calls, k)
        /\ calls[k].from \in Nat /\ calls[k].op \in Nat /\ calls[k].level \in 0 .. 10
  BY <1>1, <1>2 DEF CallsOK, CallsFit, Frames
<1>4. calls[1].rule \in {"return", "body"}
  <2>1. 1 \in 1 .. Len(calls)
    BY <1>2
  <2>2. CallOK(calls[1], 1 = 1, Len(h))
    BY <1>3, <2>1, Zenon
  <2> QED BY <2>2 DEF CallOK
<1>5. Statements(h, calls[1].from - 1, calls[1].rule = "return")
  BY DEF Standing
<1>6. calls[1].from - 1 \in 1 .. Len(h) /\ h[calls[1].from - 1] \notin Inner /\ Len(h) \in Nat
  BY <1>5, StatementFacts
<1> QED BY <1>2, <1>3, <1>4, <1>6

LEMMA HolderExists ==
  ASSUME NEW h \in Texts, NEW calls, Standing(h, calls), NEW n \in 1 .. Len(calls)
  PROVE  \E j \in 1 .. n : Holder(calls, n, j)
<1> DEFINE T == {0} \cup {j \in 1 .. n : ~Plain(calls[j])}
<1>1. calls[1].rule \in {"return", "body"} /\ Len(calls) \in Nat
  BY StandingFacts
<1>2. n \in Nat /\ 1 \in 1 .. n /\ ~Plain(calls[1])
  BY <1>1 DEF Plain
<1>3. T \subseteq 0 .. n /\ 0 \in T /\ 1 \in T
  BY <1>2
<1>4. \A j \in T : j = 0 \/ (j \in 1 .. n /\ ~Plain(calls[j]))
  OBVIOUS
<1>5. \A j \in 1 .. n : j \in T \/ Plain(calls[j])
  OBVIOUS
<1> HIDE DEF T
<1>6. Max(T) \in T /\ \A j \in T : j <= Max(T)
  BY <1>2, <1>3, MaxFacts
<1> DEFINE m == Max(T)
<1>7. m \in T /\ \A j \in T : j <= m
  BY <1>6
<1> HIDE DEF m
<1>8. m \in 1 .. n /\ ~Plain(calls[m])
  BY <1>3, <1>4, <1>7
<1>9. \A j \in m + 1 .. n : j \in 1 .. n /\ ~(j <= m)
  BY <1>2, <1>8
<1>10. \A j \in m + 1 .. n : Plain(calls[j])
  BY <1>5, <1>7, <1>9
<1> QED BY <1>8, <1>10 DEF Holder

(* What is before an expression.                                           *)
LEMMA HolderFacts ==
  ASSUME NEW h \in Texts, NEW calls, Standing(h, calls), NEW n \in 1 .. Len(calls),
         NEW j \in 1 .. n, Holder(calls, n, j), NEW from, from = Begin(calls[j])
  PROVE  /\ from - 1 \in 1 .. Len(h) /\ h[from - 1] \notin EndsOperand
         /\ j \in 1 .. Len(calls)
         /\ \/ /\ j = 1 /\ calls[j].rule \in {"return", "body"} /\ from = calls[1].from
               /\ ~Opened(calls[j])
            \/ /\ calls[j].rule = "group" /\ from = calls[j].from + 1 /\ h[from - 1] = "L_PAREN"
               /\ Opened(calls[j])
            \/ /\ calls[j].rule = "unary" /\ from = calls[j].op + 1 /\ calls[j].from = calls[j].op
               /\ h[from - 1] \in UnaryOperator /\ Opened(calls[j])
            \/ /\ calls[j].rule = "level" /\ from = calls[j].op + 1 /\ calls[j].op # 0
               /\ h[from - 1] \in Operators[calls[j].level] /\ calls[j].level \in 1 .. 10
               /\ Expression(h, calls[j].from, calls[j].op - 1, calls[j].level)
               /\ Opened(calls[j])
<1> DEFINE call == calls[j]
<1>1. /\ Len(h) \in Nat /\ j \in 1 .. Len(calls)
      /\ calls[1].from - 1 \in 1 .. Len(h) /\ h[calls[1].from - 1] \notin Inner
      /\ call \in Frames /\ CallOK(call, j = 1, Len(h)) /\ CallText(h, call)
      /\ call.from \in Nat /\ call.op \in Nat /\ call.level \in 0 .. 10
  <2>1. Len(calls) \in Nat /\ j \in 1 .. Len(calls)
    BY StandingFacts
  <2>2. CallFits(h, calls, j)
    BY <2>1, StandingFacts
  <2> QED BY <2>1, <2>2, StandingFacts DEF CallFits
<1>2. ~Plain(call)
  BY DEF Holder
<1>3. call.rule \in {"level", "unary", "group", "return", "body"}
  BY <1>1 DEF Frames
<1>4. from = Begin(call)
  OBVIOUS
<1>5. j = 1 => from = calls[1].from \/ call.rule = "group" \/ call.op # 0
  BY <1>4 DEF Begin
<1> HIDE DEF call
<1>6. CASE call.rule \in {"return", "body"}
  <2>1. j = 1 /\ call.op = 0
    BY <1>1, <1>6 DEF CallOK
  <2>2. from = calls[1].from
    BY <1>5, <1>6, <2>1
  <2>3. h[from - 1] \notin EndsOperand
    BY <1>1, <2>2 DEF Inner
  <2> QED BY <1>1, <1>6, <2>1, <2>2, <2>3 DEF Opened, call
<1>7. CASE call.rule = "group"
  <2>1. /\ call.op = 0 /\ Opened(call) /\ call.from >= 1 /\ call.from <= Len(h)
        /\ h[call.from] = "L_PAREN"
    BY <1>1, <1>7 DEF CallOK, CallText, Opened
  <2>2. from = call.from + 1 /\ from - 1 = call.from /\ from - 1 \in 1 .. Len(h)
    <3>1. from = call.from + 1
      BY <1>4, <1>7, <2>1 DEF Begin
    <3> QED BY <1>1, <2>1, <3>1
  <2> QED BY <1>1, <1>7, <2>1, <2>2, KindFacts DEF call
<1>8. CASE call.rule = "unary"
  <2>1. /\ call.op # 0 /\ Opened(call) /\ call.op <= Len(h)
        /\ h[call.op] \in UnaryOperator /\ call.from = call.op
    BY <1>1, <1>8 DEF CallOK, CallText, Opened
  <2>2. from = call.op + 1 /\ from - 1 = call.op /\ from - 1 \in 1 .. Len(h)
    <3>1. from = call.op + 1
      BY <1>4, <2>1 DEF Begin
    <3>2. call.op \in Nat /\ Len(h) \in Nat
      BY <1>1 DEF Frames
    <3> QED BY <2>1, <3>1, <3>2
  <2> QED BY <1>1, <1>8, <2>1, <2>2, KindFacts DEF call
<1>9. CASE call.rule = "level"
  <2>1. /\ call.op # 0 /\ Opened(call) /\ call.op <= Len(h) /\ call.level \in 1 .. 10
        /\ h[call.op] \in Operators[call.level]
        /\ Expression(h, call.from, call.op - 1, call.level)
    BY <1>1, <1>2, <1>9 DEF CallOK, CallText, Opened, Plain
  <2>2. from = call.op + 1 /\ from - 1 = call.op /\ from - 1 \in 1 .. Len(h)
    <3>1. from = call.op + 1
      BY <1>4, <2>1 DEF Begin
    <3>2. call.op \in Nat /\ Len(h) \in Nat
      BY <1>1 DEF Frames
    <3> QED BY <2>1, <3>1, <3>2
  <2>3. h[call.op] \notin EndsOperand
    BY <2>1, OperatorFacts, KindFacts
  <2> QED BY <1>1, <1>9, <2>1, <2>2, <2>3 DEF call
<1> QED BY <1>3, <1>6, <1>7, <1>8, <1>9

(* The levels that wait for a first operand are tighter, one by one.       *)
LEMMA LevelsRise ==
  ASSUME NEW h \in Texts, NEW calls, Standing(h, calls), NEW n \in 1 .. Len(calls),
         NEW j \in 1 .. n, Holder(calls, n, j), j # n
  PROVE  calls[n].level >= Awaits(calls[j])
<1> DEFINE A == Awaits(calls[j])
           Bad == {l \in j + 1 .. n : ~(calls[l].level >= A)}
<1>1. /\ Len(calls) \in Nat
      /\ \A k \in 1 .. Len(calls) :
           calls[k] \in Frames /\ CallFits(h, calls, k) /\ calls[k].level \in 0 .. 10
  BY StandingFacts
<1>2. n \in Nat /\ j \in Nat /\ 1 <= j /\ j < n /\ n \in j + 1 .. n /\ j \in 1 .. Len(calls)
  BY <1>1
<1>3. ASSUME NEW l \in j + 1 .. n
      PROVE  /\ calls[l].level = Awaits(calls[l - 1]) /\ calls[l].level \in 0 .. 10
             /\ l # j + 1 => l - 1 \in j + 1 .. n /\ Awaits(calls[l - 1]) = calls[l - 1].level + 1
             /\ l - 1 \in Nat
  <2>1. l \in 1 .. Len(calls) /\ l > 1 /\ l \in Nat /\ (l # j + 1 => l - 1 \in j + 1 .. n)
    BY <1>1, <1>2
  <2>2. CallFits(h, calls, l) /\ calls[l].rule = "level" /\ calls[l].level \in 0 .. 10
    BY <1>1, <1>3, <2>1 DEF Holder, Plain
  <2>3. calls[l].level = Awaits(calls[l - 1])
    BY <2>1, <2>2 DEF CallFits, Yields
  <2>4. l # j + 1 => Awaits(calls[l - 1]) = calls[l - 1].level + 1
    BY <2>1 DEF Holder, Plain, Awaits
  <2> QED BY <2>1, <2>2, <2>3, <2>4
<1>4. SUFFICES ASSUME ~(calls[n].level >= A) PROVE FALSE
  OBVIOUS
<1>5. Bad \subseteq Nat /\ n \in Bad
  BY <1>2, <1>4
<1>6. PICK l \in Bad : \A k \in Bad : l <= k
  BY <1>5, LeastNumber
<1>7. l \in j + 1 .. n /\ ~(calls[l].level >= A)
  OBVIOUS
<1>8. \A k \in j + 1 .. n : k \in Bad \/ calls[k].level >= A
  OBVIOUS
<1> HIDE DEF Bad
<1>9. A \in Int
  <2>1. calls[j + 1].level = Awaits(calls[j])
    <3>1. j + 1 \in j + 1 .. n /\ j + 1 - 1 = j
      BY <1>2
    <3> QED BY <1>3, <3>1
  <2>2. calls[j + 1].level \in 0 .. 10
    BY <1>2, <1>3
  <2> QED BY <2>1, <2>2
<1>10. CASE l = j + 1
  <2>1. l - 1 = j
    BY <1>2, <1>10
  <2>2. calls[l].level = A
    BY <1>3, <1>7, <2>1
  <2> HIDE DEF A
  <2> QED BY <1>7, <1>9, <2>2
<1>11. CASE l # j + 1
  <2>1. l - 1 \in j + 1 .. n /\ calls[l].level = calls[l - 1].level + 1 /\ l \in Nat
    BY <1>2, <1>3, <1>7, <1>11
  <2>2. ~(l <= l - 1)
    BY <2>1
  <2>3. calls[l - 1].level >= A
    <3>1. l - 1 \in Bad => l <= l - 1
      BY <1>6
    <3> QED BY <1>8, <2>1, <2>2, <3>1
  <2>4. calls[l - 1].level \in Int
    <3>1. calls[l - 1].level \in 0 .. 10
      BY <1>3, <2>1
    <3> QED BY <3>1
  <2> HIDE DEF A
  <2> QED BY <1>7, <1>9, <2>1, <2>3, <2>4
<1> QED BY <1>10, <1>11

(* The depth of what the n-th call reads: the groups that are open.        *)
Deep(h, calls, n, from) ==
  /\ from \in Nat /\ from >= calls[1].from
  /\ (\A k \in 1 .. n : calls[k].rule # "group") => Up(h, from - 1) = Up(h, calls[1].from - 1)
  /\ (\E k \in 1 .. n : calls[k].rule = "group") => Up(h, from - 1) > Up(h, calls[1].from - 1)

LEMMA DeepStep ==
  ASSUME NEW h \in Texts, NEW calls, Standing(h, calls), NEW n \in 1 .. Len(calls),
         NEW from, StartsAt(calls, n, from),
         \A l \in 1 .. n - 1 : \A p : StartsAt(calls, l, p) => Deep(h, calls, l, p)
  PROVE  Deep(h, calls, n, from)
<1> DEFINE base == Up(h, calls[1].from - 1)
<1>1. /\ Len(calls) \in Nat /\ Len(calls) >= 1 /\ Len(h) \in Nat
      /\ calls[1].from - 1 \in 1 .. Len(h) /\ calls[1].rule \in {"return", "body"}
      /\ \A k \in 1 .. Len(calls) :
           CallFits(h, calls, k) /\ calls[k].from \in Nat /\ calls[k].op \in Nat
  BY StandingFacts
<1>2. n \in Nat /\ 1 \in 1 .. Len(calls) /\ calls[1].from \in Nat /\ base \in Int
  <2>1. 1 \in 1 .. Len(calls) /\ calls[1].from - 1 \in Nat
    BY <1>1
  <2>2. base \in Int
    BY <2>1, UpFacts
  <2>3. calls[1].from \in Nat /\ n \in Nat
    BY <1>1, <2>1
  <2> QED BY <2>1, <2>2, <2>3
<1>3. PICK j \in 1 .. n : Holder(calls, n, j)
  BY HolderExists
<1>4. from = Begin(calls[j])
  BY <1>3 DEF StartsAt
<1>5. /\ from - 1 \in 1 .. Len(h) /\ j \in 1 .. Len(calls)
      /\ \/ j = 1 /\ calls[j].rule \in {"return", "body"} /\ from = calls[1].from /\ ~Opened(calls[j])
         \/ /\ calls[j].rule = "group" /\ from = calls[j].from + 1 /\ h[from - 1] = "L_PAREN"
            /\ Opened(calls[j])
         \/ /\ calls[j].rule = "unary" /\ from = calls[j].op + 1 /\ calls[j].from = calls[j].op
            /\ h[from - 1] \in UnaryOperator /\ Opened(calls[j])
         \/ /\ calls[j].rule = "level" /\ from = calls[j].op + 1 /\ calls[j].op # 0
            /\ h[from - 1] \in Operators[calls[j].level] /\ calls[j].level \in 1 .. 10
            /\ Expression(h, calls[j].from, calls[j].op - 1, calls[j].level)
            /\ Opened(calls[j])
  BY <1>3, <1>4, HolderFacts
<1>6. \A k \in 1 .. n : k \in 1 .. j \/ calls[k].rule = "level"
  <2>1. \A k \in 1 .. n : k \in 1 .. j \/ k \in j + 1 .. n
    BY <1>2
  <2> QED BY <1>3, <2>1 DEF Holder, Plain
<1>7. ASSUME NEW f \in Nat, f >= calls[1].from,
             (\A k \in 1 .. j : calls[k].rule # "group") => Up(h, f - 1) = base,
             (\E k \in 1 .. j : calls[k].rule = "group") => Up(h, f - 1) > base,
             f = from
      PROVE  Deep(h, calls, n, from)
  <2>1. \A k \in 1 .. j : k \in 1 .. n
    BY <1>2
  <2>2. (\E k \in 1 .. n : calls[k].rule = "group") <=> (\E k \in 1 .. j : calls[k].rule = "group")
    BY <1>6, <2>1
  <2> QED BY <1>7, <2>2 DEF Deep
<1>8. from \in Nat /\ from - 1 \in Nat \ {0} /\ Up(h, from - 1) \in Int
      /\ Up(h, from - 1) = Up(h, from - 2) + Weight(h[from - 1]) /\ Up(h, from - 2) \in Int
  <2>1. from - 1 \in Nat \ {0} /\ from - 1 - 1 = from - 2 /\ from - 2 \in Nat /\ from \in Nat
    <3>1. from \in Nat
      <4>1. calls[j].from \in Nat /\ calls[j].op \in Nat
        BY <1>1, <1>5
      <4> QED BY <1>4, <4>1 DEF Begin
    <3>2. from - 1 \in 1 .. Len(h)
      BY <1>5
    <3> QED BY <1>1, <3>1, <3>2
  <2> QED BY <2>1, UpFacts
<1>9. CASE j = 1 /\ calls[j].rule \in {"return", "body"} /\ from = calls[1].from
  <2>1. \A k \in 1 .. j : calls[k].rule # "group"
    <3>1. \A k \in 1 .. j : k = 1
      BY <1>9
    <3> QED BY <1>9, <3>1
  <2> QED BY <1>2, <1>7, <1>9, <2>1
<1>10. CASE Opened(calls[j])
  <2> DEFINE f == calls[j].from
  <2>1. j # 1
    BY <1>5, <1>10, <1>1 DEF Opened
  <2>2. j - 1 \in 1 .. n - 1 /\ j \in Nat
    BY <1>2, <2>1
  <2>3. Deep(h, calls, j - 1, f)
    <3>1. CallFits(h, calls, j)
      BY <1>1, <1>5
    <3>2. StartsAt(calls, j - 1, f)
      BY <1>10, <3>1 DEF CallFits
    <3> QED BY <2>2, <3>2
  <2>4. f < from
    <3>1. CallFits(h, calls, j)
      BY <1>1, <1>5
    <3> QED BY <1>3, <1>10 DEF StartsAt
  <2>5. /\ f \in Nat /\ f >= calls[1].from
        /\ (\A k \in 1 .. j - 1 : calls[k].rule # "group") => Up(h, f - 1) = base
        /\ (\E k \in 1 .. j - 1 : calls[k].rule = "group") => Up(h, f - 1) > base
    BY <2>3, Zenon DEF Deep
  <2>6. from >= calls[1].from
    <3>1. f < from /\ f \in Nat /\ f >= calls[1].from
      BY <2>4, <2>5
    <3> HIDE DEF f
    <3> QED BY <1>2, <1>8, <3>1
  <2>7. f \in Nat \ {0} /\ f - 1 \in Nat /\ Up(h, f - 1) \in Int
        /\ Up(h, f) = Up(h, f - 1) + Weight(h[f])
    <3>1. f \in Nat \ {0} /\ f - 1 \in Nat
      <4>1. f \in Nat /\ f >= calls[1].from
        BY <2>5
      <4> HIDE DEF f
      <4> QED BY <1>1, <4>1
    <3> QED BY <3>1, UpFacts
  <2>8. \A k \in 1 .. j : k \in 1 .. j - 1 \/ k = j
    BY <2>2
  <2>9. \A k \in 1 .. j - 1 : k \in 1 .. j
    BY <2>2
  <2>10. Up(h, f - 1) >= base
    <3> HIDE DEF base, f
    <3> QED BY <1>2, <2>5, <2>7
  <2>11. CASE calls[j].rule = "group"
    <3>1. from - 1 = f /\ h[f] = "L_PAREN" /\ Weight("L_PAREN") = 1
      <4>1. from = f + 1 /\ h[from - 1] = "L_PAREN"
        BY <1>5, <2>11, <1>10 DEF Opened
      <4>2. from - 1 = f
        BY <2>7, <4>1
      <4> QED BY <4>1, <4>2, KindFacts
    <3>2. Up(h, from - 1) > base
      BY <1>2, <2>7, <2>10, <3>1
    <3>3. j \in 1 .. j
      BY <2>2
    <3> QED BY <1>7, <1>8, <2>6, <2>11, <3>2, <3>3
  <2>12. CASE calls[j].rule # "group"
    <3>1. Up(h, from - 1) = Up(h, f - 1)
      <4>1. CASE calls[j].rule = "unary"
        <5>1. from - 1 = f /\ h[f] \in UnaryOperator
          <6>1. from = f + 1 /\ h[from - 1] \in UnaryOperator
            BY <1>5, <1>10, <4>1 DEF Opened
          <6>2. from - 1 = f
            BY <2>7, <6>1
          <6> QED BY <6>1, <6>2
        <5>2. Weight(h[f]) = 0
          BY <5>1, KindFacts
        <5> QED BY <2>7, <5>1, <5>2
      <4>2. CASE calls[j].rule = "level"
        <5>1. /\ from = calls[j].op + 1 /\ Expression(h, f, calls[j].op - 1, calls[j].level)
              /\ h[from - 1] \in Operators[calls[j].level] /\ calls[j].level \in 1 .. 10
              /\ calls[j].op \in Nat /\ calls[j].op # 0
          BY <1>1, <1>5, <2>12, <4>2
        <5>2. Weight(h[from - 1]) = 0
          BY <5>1, OperatorFacts, KindFacts
        <5>3. calls[j].op - 1 = from - 2 /\ calls[j].op - 1 \in Nat
          BY <5>1
        <5>4. Up(h, calls[j].op - 1) = Up(h, f - 1)
          BY <2>7, <5>1, <5>3, ExpressionTypes
        <5> QED BY <1>8, <2>7, <5>2, <5>3, <5>4
      <4> QED BY <1>1, <1>5, <1>10, <2>1, <2>12, <4>1, <4>2
    <3>2. (\E k \in 1 .. j : calls[k].rule = "group") <=> (\E k \in 1 .. j - 1 : calls[k].rule = "group")
      BY <2>8, <2>9, <2>12
    <3>3. /\ (\A k \in 1 .. j : calls[k].rule # "group") => Up(h, from - 1) = base
          /\ (\E k \in 1 .. j : calls[k].rule = "group") => Up(h, from - 1) > base
      <4> HIDE DEF base, f
      <4> QED BY <2>5, <3>1, <3>2
    <3> QED BY <1>7, <1>8, <2>6, <3>3
  <2> QED BY <2>11, <2>12
<1> QED BY <1>5, <1>9, <1>10

LEMMA DeepFacts ==
  ASSUME NEW h \in Texts, NEW calls, Standing(h, calls), NEW n \in 1 .. Len(calls),
         NEW from, StartsAt(calls, n, from)
  PROVE  Deep(h, calls, n, from)
<1> DEFINE Good(l) == \A p : StartsAt(calls, l, p) => Deep(h, calls, l, p)
           Bad == {l \in 1 .. n : ~Good(l)}
<1>1. Len(calls) \in Nat /\ n \in Nat /\ n \in 1 .. n
  BY StandingFacts
<1>2. SUFFICES ASSUME ~Good(n) PROVE FALSE
  OBVIOUS
<1>3. Bad \subseteq Nat /\ n \in Bad
  BY <1>1, <1>2
<1>4. PICK l \in Bad : \A k \in Bad : l <= k
  BY <1>3, LeastNumber
<1>5. l \in 1 .. n /\ ~Good(l) /\ \A k \in 1 .. n : k \in Bad \/ Good(k)
  OBVIOUS
<1>6. l \in 1 .. Len(calls) /\ \A k \in 1 .. l - 1 : k \in 1 .. n /\ ~(l <= k)
  BY <1>1, <1>5
<1> HIDE DEF Bad
<1>7. \A k \in 1 .. l - 1 : Good(k)
  BY <1>4, <1>5, <1>6
<1> QED BY <1>5, <1>6, <1>7, DeepStep

-----------------------------------------------------------------------------
(* Operators that are not repeated.                                        *)

ArithmeticOperator == {"PLUS", "MINUS", "ASTERISK", "FORWARD_SLASH", "PERCENT"}

LEMMA ChainFacts ==
  ASSUME NEW level \in 1 .. 10, NEW type \in Operators[level]
  PROVE  Chains(level) <=> type \in ArithmeticOperator
<1>1. Operators[9] = {"PLUS", "MINUS"} /\ Operators[10] = {"ASTERISK", "FORWARD_SLASH", "PERCENT"}
  BY DEF Operators
<1>2. /\ Level(type) = level
      /\ \A t \in Operators[9] : Level(t) = 9
      /\ \A t \in Operators[10] : Level(t) = 10
  BY OperatorFacts
<1>3. type \in ArithmeticOperator <=> type \in Operators[9] \/ type \in Operators[10]
  BY <1>1 DEF ArithmeticOperator
<1>4. /\ type \in Operators[9] => level = 9
      /\ type \in Operators[10] => level = 10
  BY <1>2
<1>5. (level = 9 => type \in Operators[9]) /\ (level = 10 => type \in Operators[10])
  OBVIOUS
<1> QED BY <1>3, <1>4, <1>5 DEF Chains

(* The operator at k keeps type from following.                            *)
Blocks(h, k, type) ==
  /\ IsBinary(h, k) /\ Level(h[k]) = Level(type)
  /\ \A j \in k .. Len(h) : Up(h, j) >= Up(h, Len(h))
  /\ \A j \in k .. Len(h) : IsBinary(h, j) /\ Up(h, j) = Up(h, Len(h)) => Level(h[j]) >= Level(type)
  /\ Up(h, k) = Up(h, Len(h))

LEMMA RepeatsByUp ==
  ASSUME NEW h \in Texts, NEW s, NEW returns \in BOOLEAN, Statements(h, s, returns), NEW type
  PROVE  Repeats(h, s, type) <=> type \notin ArithmeticOperator /\ \E k \in s .. Len(h) : Blocks(h, k, type)
<1>1. /\ s \in Nat /\ Len(h) \in Nat /\ s \in 1 .. Len(h)
      /\ \A k \in s .. Len(h) : Depth(h, s, k) = Up(h, k) - Up(h, s) /\ Up(h, k) \in Int
  BY StatementFacts
<1>2. /\ s \in s .. Len(h) /\ Len(h) \in s .. Len(h)
      /\ \A k \in s .. Len(h) : \A j \in k .. Len(h) : j \in s .. Len(h)
  BY <1>1
<1>3. ASSUME NEW j \in s .. Len(h)
      PROVE  /\ Depth(h, s, j) >= Depth(h, s, Len(h)) <=> Up(h, j) >= Up(h, Len(h))
             /\ Depth(h, s, j) = Depth(h, s, Len(h)) <=> Up(h, j) = Up(h, Len(h))
  <2>1. /\ Depth(h, s, j) = Up(h, j) - Up(h, s) /\ Up(h, j) \in Int
        /\ Depth(h, s, Len(h)) = Up(h, Len(h)) - Up(h, s) /\ Up(h, Len(h)) \in Int
        /\ Up(h, s) \in Int
    BY <1>1, <1>2
  <2> QED BY <2>1
<1> DEFINE P(k) == /\ IsBinary(h, k) /\ Level(h[k]) = Level(type)
                   /\ \A j \in k .. Len(h) : Depth(h, s, j) >= Depth(h, s, Len(h))
                   /\ \A j \in k .. Len(h) :
                        IsBinary(h, j) /\ Depth(h, s, j) = Depth(h, s, Len(h)) =>
                          Level(h[j]) >= Level(type)
                   /\ Depth(h, s, k) = Depth(h, s, Len(h))
<1>4. ASSUME NEW k \in s .. Len(h) PROVE P(k) <=> Blocks(h, k, type)
  <2>1. \A j \in k .. Len(h) : /\ Depth(h, s, j) >= Depth(h, s, Len(h)) <=> Up(h, j) >= Up(h, Len(h))
                               /\ Depth(h, s, j) = Depth(h, s, Len(h)) <=> Up(h, j) = Up(h, Len(h))
    BY <1>2, <1>3
  <2>2. Depth(h, s, k) = Depth(h, s, Len(h)) <=> Up(h, k) = Up(h, Len(h))
    BY <1>3
  <2> QED BY <2>1, <2>2, Zenon DEF Blocks
<1>5. Repeats(h, s, type) <=> type \notin ArithmeticOperator /\ \E k \in s .. Len(h) : P(k)
  BY Zenon DEF Repeats, ArithmeticOperator
<1> HIDE DEF P
<1> QED BY <1>4, <1>5

(* A level that does not chain has an operator already.                    *)
LEMMA Repeated ==
  ASSUME NEW h \in Texts, NEW s, NEW returns \in BOOLEAN, Statements(h, s, returns),
         NEW level \in 1 .. 10, NEW from \in Nat, NEW op \in Nat, op >= s,
         Expression(h, from, op - 1, level), h[op] \in Operators[level],
         Expression(h, op + 1, Len(h), level + 1),
         NEW type \in Operators[level], ~Chains(level)
  PROVE  Repeats(h, s, type)
<1>1. /\ s \in Nat /\ Len(h) \in Nat /\ s \in 1 .. Len(h)
  BY StatementFacts
<1>2. op - 1 \in Nat /\ 1 <= op - 1 /\ h[op - 1] \in EndsOperand
  <2>1. 1 <= from /\ from <= op - 1 /\ h[op - 1] \in EndsOperand
    BY DEF Expression
  <2> QED BY <2>1
<1>3. IsBinary(h, op) /\ Level(h[op]) = level /\ Level(type) = level
  <2>1. h[op] \in BinaryOperator /\ Level(h[op]) = level /\ Level(type) = level
    BY OperatorFacts
  <2> QED BY <1>2, <2>1 DEF IsBinary
<1>4. /\ op + 1 <= Len(h) /\ op + 1 - 1 = op
      /\ \A k \in op .. Len(h) : Up(h, k) \in Int /\ Up(h, k) >= Up(h, op)
      /\ Up(h, Len(h)) = Up(h, op)
      /\ \A k \in op + 2 .. Len(h) :
           IsBinary(h, k) /\ Up(h, k) = Up(h, op) => Level(h[k]) >= level + 1
  <2>1. op + 1 \in Nat /\ op + 1 - 1 = op /\ op + 1 + 1 = op + 2
    OBVIOUS
  <2> QED BY <1>1, <2>1, ExpressionTypes
<1>5. ASSUME NEW j \in op .. Len(h), IsBinary(h, j), Up(h, j) = Up(h, Len(h))
      PROVE  Level(h[j]) >= level
  <2>1. j = op \/ j = op + 1 \/ j \in op + 2 .. Len(h)
    BY <1>1
  <2>2. CASE j = op
    BY <1>3, <2>2
  <2>3. CASE j = op + 1
    <3>1. h[op] \in EndsOperand
      <4>1. j - 1 = op
        BY <2>3
      <4> QED BY <1>5, <4>1 DEF IsBinary
    <3>2. h[op] \notin EndsOperand
      BY OperatorFacts, KindFacts
    <3> QED BY <3>1, <3>2
  <2>4. CASE j \in op + 2 .. Len(h)
    <3>1. Level(h[j]) >= level + 1
      BY <1>4, <1>5, <2>4
    <3>2. Level(h[j]) \in Int
      <4>1. h[j] \in BinaryOperator
        BY <1>5 DEF IsBinary
      <4>2. Level(h[j]) \in 1 .. 10
        BY <4>1, OperatorFacts
      <4> QED BY <4>2
    <3> QED BY <3>1, <3>2
  <2> QED BY <2>1, <2>2, <2>3, <2>4
<1>6. Blocks(h, op, type)
  BY <1>3, <1>4, <1>5 DEF Blocks
<1>7. op \in s .. Len(h) /\ type \notin ArithmeticOperator
  BY <1>1, <1>4, ChainFacts
<1> QED BY <1>6, <1>7, RepeatsByUp

(* A level that waits for its first operand has none.                      *)
LEMMA NotRepeated ==
  ASSUME NEW h \in Texts, NEW calls, Standing(h, calls), NEW call, call = calls[Len(calls)],
         Plain(call), NEW from \in Nat, StartsAt(calls, Len(calls), from),
         Expression(h, from, Len(h), call.level + 1),
         NEW type \in Operators[call.level]
  PROVE  ~Repeats(h, calls[1].from - 1, type)
<1> DEFINE s == calls[1].from - 1
           n == Len(calls)
           d == Up(h, Len(h))
<1>1. /\ n \in 1 .. n /\ n \in Nat /\ Len(h) \in Nat
      /\ call \in Frames /\ call.level \in 1 .. 10 /\ call.rule = "level"
  <2>1. n \in 1 .. n /\ n \in Nat /\ Len(h) \in Nat
    BY StandingFacts
  <2>2. call \in Frames /\ CallOK(call, n = 1, Len(h)) /\ call.level \in 0 .. 10
    BY <2>1, StandingFacts
  <2>3. call.rule = "level"
    BY DEF Plain
  <2> QED BY <2>1, <2>2, <2>3 DEF CallOK
<1>2. Statements(h, s, calls[1].rule = "return") /\ s \in Nat /\ s \in 1 .. Len(h) /\ h[s] \notin Inner
  <2>1. Statements(h, s, calls[1].rule = "return")
    BY DEF Standing
  <2> QED BY <2>1, StatementFacts
<1>3. SUFFICES ASSUME NEW k \in s .. Len(h), Blocks(h, k, type) PROVE FALSE
  BY <1>2, RepeatsByUp
<1>4. Level(type) = call.level
  BY <1>1, OperatorFacts
<1>5. /\ IsBinary(h, k) /\ Level(h[k]) = call.level /\ Up(h, k) = d
      /\ \A j \in k .. Len(h) : Up(h, j) >= d
      /\ \A j \in k .. Len(h) : IsBinary(h, j) /\ Up(h, j) = d => Level(h[j]) >= call.level
  BY <1>3, <1>4 DEF Blocks
<1>6. /\ 1 <= from /\ from <= Len(h) /\ d = Up(h, from - 1)
      /\ \A j \in from + 1 .. Len(h) : IsBinary(h, j) /\ Up(h, j) = d => Level(h[j]) >= call.level + 1
  BY <1>1, ExpressionTypes
<1>7. PICK j \in 1 .. n : Holder(calls, n, j)
  BY <1>1, HolderExists
<1>8. from = Begin(calls[j])
  BY <1>7 DEF StartsAt
<1>9. /\ from - 1 \in 1 .. Len(h) /\ h[from - 1] \notin EndsOperand
      /\ j \in 1 .. Len(calls)
      /\ \/ /\ j = 1 /\ calls[j].rule \in {"return", "body"} /\ from = calls[1].from
            /\ ~Opened(calls[j])
         \/ /\ calls[j].rule = "group" /\ from = calls[j].from + 1 /\ h[from - 1] = "L_PAREN"
            /\ Opened(calls[j])
         \/ /\ calls[j].rule = "unary" /\ from = calls[j].op + 1 /\ calls[j].from = calls[j].op
            /\ h[from - 1] \in UnaryOperator /\ Opened(calls[j])
         \/ /\ calls[j].rule = "level" /\ from = calls[j].op + 1 /\ calls[j].op # 0
            /\ h[from - 1] \in Operators[calls[j].level] /\ calls[j].level \in 1 .. 10
            /\ Expression(h, calls[j].from, calls[j].op - 1, calls[j].level)
            /\ Opened(calls[j])
  BY <1>1, <1>7, <1>8, HolderFacts
<1>10. j # n /\ call.level >= Awaits(calls[j])
  <2>1. j # n
    BY <1>7 DEF Holder
  <2> QED BY <1>1, <1>7, <2>1, LevelsRise
<1> HIDE DEF s, n, d
<1>11. k \in Nat /\ from \in Nat /\ s <= k /\ k <= Len(h) /\ d \in Int
  <2>1. k \in Nat /\ s <= k /\ k <= Len(h)
    BY <1>1, <1>2
  <2> QED BY <1>1, <2>1, UpFacts DEF d
<1>12. k \notin from + 1 .. Len(h)
  <2>1. SUFFICES ASSUME k \in from + 1 .. Len(h) PROVE FALSE
    OBVIOUS
  <2>2. Level(h[k]) >= call.level + 1
    BY <1>5, <1>6, <2>1, Zenon
  <2>3. \A l \in 1 .. 10 : ~(l >= l + 1)
    OBVIOUS
  <2> QED BY <1>1, <1>5, <2>2, <2>3, Zenon
<1>13. k # from
  BY <1>5, <1>9 DEF IsBinary
<1>14. k <= from - 1
  BY <1>1, <1>11, <1>12, <1>13
<1>15. from - 1 \in k .. Len(h) /\ from - 1 \in Nat \ {0}
  BY <1>1, <1>6, <1>9, <1>11, <1>14
<1>16. h[k] \in BinaryOperator
  BY <1>5 DEF IsBinary
<1>17. CASE j = 1 /\ from = calls[1].from
  <2>1. k = s
    BY <1>2, <1>11, <1>14, <1>17 DEF s
  <2> QED BY <1>2, <1>16, <2>1 DEF Inner
<1>18. CASE h[from - 1] = "L_PAREN"
  <2>1. k # from - 1
    BY <1>16, <1>18, KindFacts
  <2>2. from - 2 \in k .. Len(h) /\ from - 2 \in Nat /\ from - 1 - 1 = from - 2
    BY <1>11, <1>14, <1>15, <2>1
  <2>3. Up(h, from - 1) = Up(h, from - 2) + Weight("L_PAREN") /\ Weight("L_PAREN") = 1
        /\ Up(h, from - 2) \in Int
    <3>1. /\ \A i \in Nat : Up(h, i) \in Int
          /\ \A i \in Nat \ {0} : Up(h, i) = Up(h, i - 1) + Weight(h[i])
      BY UpFacts
    <3>2. Up(h, from - 1) = Up(h, from - 1 - 1) + Weight(h[from - 1])
      BY <1>15, <3>1, Zenon
    <3>3. Weight("L_PAREN") = 1
      BY DEF Weight
    <3> QED BY <1>18, <2>2, <3>1, <3>2, <3>3
  <2>4. Up(h, from - 2) >= d
    BY <1>5, <2>2, Zenon
  <2>5. d = Up(h, from - 1)
    BY <1>6
  <2>6. \A a, b, e \in Int : ~(a = b + 1 /\ b >= e /\ e = a)
    OBVIOUS
  <2>7. Up(h, from - 1) \in Int
    BY <1>11, <2>5
  <2> QED BY <1>11, <2>3, <2>4, <2>5, <2>6, <2>7
<1>19. CASE calls[j].rule = "unary"
  <2>1. Awaits(calls[j]) = 11
    BY <1>19 DEF Awaits
  <2>2. \A l \in 1 .. 10 : ~(l >= 11)
    OBVIOUS
  <2>3. call.level >= 11
    BY <1>10, <2>1
  <2> QED BY <1>1, <2>2, <2>3, Zenon
<1>20. CASE /\ calls[j].rule = "level" /\ calls[j].op # 0 /\ from = calls[j].op + 1
            /\ h[from - 1] \in Operators[calls[j].level] /\ calls[j].level \in 1 .. 10
            /\ Expression(h, calls[j].from, calls[j].op - 1, calls[j].level)
  <2>1. Awaits(calls[j]) = calls[j].level + 1
    BY <1>20 DEF Awaits
  <2>2. calls[j].level < call.level
    <3>1. call.level >= calls[j].level + 1
      BY <1>10, <2>1
    <3>2. \A l, m \in 1 .. 10 : l >= m + 1 => m < l
      OBVIOUS
    <3> QED BY <1>1, <1>20, <3>1, <3>2, Zenon
  <2>3. Level(h[from - 1]) = calls[j].level /\ h[from - 1] \in BinaryOperator
    BY <1>20, OperatorFacts
  <2>4. IsBinary(h, from - 1)
    <3>1. calls[j].op \in Nat /\ calls[j].from \in Nat
      BY <1>9, StandingFacts
    <3>2. /\ 1 <= calls[j].from /\ calls[j].from <= calls[j].op - 1
          /\ h[calls[j].op - 1] \in EndsOperand
      BY <1>20 DEF Expression
    <3>3. from - 1 = calls[j].op /\ calls[j].op > 1
      <4>1. from = calls[j].op + 1
        BY <1>20
      <4>2. \A a, b \in Nat : 1 <= a /\ a <= b - 1 => b > 1
        OBVIOUS
      <4>3. calls[j].op > 1
        BY <3>1, <3>2, <4>2, Zenon
      <4>4. \A b \in Nat : from = b + 1 => from - 1 = b
        OBVIOUS
      <4> QED BY <3>1, <4>1, <4>3, <4>4, Zenon
    <3> QED BY <2>3, <3>2, <3>3 DEF IsBinary
  <2>5. Level(h[from - 1]) >= call.level
    BY <1>5, <1>6, <1>15, <2>4
  <2>6. calls[j].level >= call.level
    BY <2>3, <2>5, Zenon
  <2>7. \A l, m \in 1 .. 10 : ~(m < l /\ m >= l)
    OBVIOUS
  <2>8. call.level \in 1 .. 10 /\ calls[j].level \in 1 .. 10
    BY <1>1, <1>20, Zenon
  <2> QED BY <2>2, <2>6, <2>7, <2>8, Zenon
<1> QED BY <1>9, <1>17, <1>18, <1>19, <1>20

-----------------------------------------------------------------------------
(* What all steps have in common.                                          *)

(* One more token.                                                         *)
Longer(h, g, type) ==
  /\ h \in Texts /\ g \in Texts /\ Prefix(h, g) /\ Len(h) \in Nat /\ Len(g) = Len(h) + 1
  /\ g[Len(g)] = type

LEMMA PartsKept ==
  ASSUME NEW h, NEW g, NEW type, Longer(h, g, type)
  PROVE  /\ InBraces(h) /\ type # "KEYWORD_FN" => InBraces(g)
         /\ InHead(h) /\ type # "L_CURLY_BRACKET" => InHead(g)
         /\ type = "KEYWORD_FN" => InHead(g)
         /\ type = "L_CURLY_BRACKET" => InBraces(g)
         /\ \A s, returns : Statements(h, s, returns) /\ type \in Inner => Statements(g, s, returns)
<1>1. /\ Len(h) \in Nat /\ Len(g) = Len(h) + 1 /\ g[Len(g)] = type
      /\ \A k \in 1 .. Len(h) : g[k] = h[k]
  BY DEF Longer, Prefix
<1>2. /\ \A k \in 1 .. Len(g) : k \in 1 .. Len(h) \/ k = Len(g)
      /\ \A k \in 1 .. Len(h) : k \in 1 .. Len(g) /\ k \in Nat
      /\ \A m \in 1 .. Len(h) : \A k \in m .. Len(g) :
           (k \in m .. Len(h) /\ k \in 1 .. Len(h)) \/ k = Len(g)
      /\ Len(g) \in 1 .. Len(g) /\ \A k \in Len(g) .. Len(g) : k = Len(g)
  BY <1>1
<1>3. ASSUME InBraces(h), type # "KEYWORD_FN" PROVE InBraces(g)
  <2>1. PICK c \in 1 .. Len(h) :
          h[c] = "L_CURLY_BRACKET" /\ \A k \in c .. Len(h) : h[k] # "KEYWORD_FN"
    BY <1>3 DEF InBraces
  <2>2. \A k \in c .. Len(g) : g[k] # "KEYWORD_FN"
    BY <1>1, <1>2, <1>3, <2>1
  <2>3. c \in 1 .. Len(g) /\ g[c] = "L_CURLY_BRACKET"
    BY <1>1, <1>2, <2>1
  <2> QED BY <2>2, <2>3, Zenon DEF InBraces
<1>4. ASSUME InHead(h), type # "L_CURLY_BRACKET" PROVE InHead(g)
  <2>1. PICK f \in 1 .. Len(h) :
          h[f] = "KEYWORD_FN" /\ \A k \in f .. Len(h) : h[k] # "L_CURLY_BRACKET"
    BY <1>4 DEF InHead
  <2>2. \A k \in f .. Len(g) : g[k] # "L_CURLY_BRACKET"
    BY <1>1, <1>2, <1>4, <2>1
  <2>3. f \in 1 .. Len(g) /\ g[f] = "KEYWORD_FN"
    BY <1>1, <1>2, <2>1
  <2> QED BY <2>2, <2>3, Zenon DEF InHead
<1>5. ASSUME type = "KEYWORD_FN" PROVE InHead(g)
  <2>1. g[Len(g)] = "KEYWORD_FN" /\ \A k \in Len(g) .. Len(g) : g[k] # "L_CURLY_BRACKET"
    BY <1>1, <1>2, <1>5
  <2> QED BY <1>2, <2>1, Zenon DEF InHead
<1>6. ASSUME type = "L_CURLY_BRACKET" PROVE InBraces(g)
  <2>1. g[Len(g)] = "L_CURLY_BRACKET" /\ \A k \in Len(g) .. Len(g) : g[k] # "KEYWORD_FN"
    BY <1>1, <1>2, <1>6
  <2> QED BY <1>2, <2>1, Zenon DEF InBraces
<1>7. ASSUME NEW s, NEW returns, Statements(h, s, returns), type \in Inner
      PROVE  Statements(g, s, returns)
  <2>1. /\ s \in 1 .. Len(h) /\ h[s] \in Opener(returns)
        /\ \A k \in s + 1 .. Len(h) : h[k] \in Inner
    BY <1>7 DEF Statements
  <2>2. s \in 1 .. Len(g) /\ g[s] \in Opener(returns)
    BY <1>1, <1>2, <2>1
  <2>3. ASSUME NEW k \in s + 1 .. Len(g) PROVE g[k] \in Inner
    <3>1. (k \in s + 1 .. Len(h) /\ k \in 1 .. Len(h)) \/ k = Len(g)
      BY <1>1, <2>1
    <3> QED BY <1>1, <1>7, <2>1, <3>1
  <2> QED BY <2>2, <2>3 DEF Statements
<1> QED BY <1>3, <1>4, <1>5, <1>6, <1>7

LEMMA TakeFacts ==
  ASSUME LegalInv, TreeInv', Take
  PROVE  /\ Longer(History, History', ahead.type) /\ Len(History) = Len(taken)
         /\ Len(taken') = Len(taken) + 1 /\ Len(History') = Len(taken') /\ Here = Len(taken')
         /\ Len(taken) \in Nat
<1>1. ParserInv /\ ParserInv'
  BY DEF LegalInv, TreeInv
<1>2. /\ History \in Texts /\ History' \in Texts /\ Prefix(History, History')
      /\ Len(History) = Len(taken) /\ Len(History') = Len(taken')
      /\ Len(taken) \in Nat /\ Len(taken') \in Nat
      /\ Len(taken') = Here /\ History'[Here] = ahead.type
  BY <1>1, HistoryGrows
<1> QED BY <1>2 DEF Longer, Here

LEMMA StayFacts ==
  ASSUME LegalInv, Stay
  PROVE  /\ History' = History /\ ahead' = ahead /\ taken' = taken /\ Here' = Here
         /\ History \in Texts /\ Len(History) = Len(taken) /\ Len(taken) \in Nat
         /\ Here = Len(taken) + 1
<1>1. ParserInv /\ taken' = taken /\ ahead' = ahead
  BY DEF LegalInv, TreeInv, Stay
<1> QED BY <1>1, HistoryFacts DEF History, Here

(* A step that takes no token, or one that may follow.                     *)
LEMMA ErrorsKept ==
  ASSUME LegalInv, TreeInv', Stay \/ (Take /\ Takes(History, ahead.type)),
         outcome' \in {"parsing", "Success"}
  PROVE  ErrorsAtFirstIllegal'
<1>1. outcome' \notin {"SyntaxError", "Unimplemented"}
  OBVIOUS
<1>2. CASE Stay
  <2>1. taken # <<>> => Takes(Front(History), Last(History))
    BY DEF LegalInv, ErrorsAtFirstIllegal
  <2>2. taken' # <<>> => Takes(Front(History'), Last(History'))
    BY <1>2, <2>1, StayFacts
  <2> QED BY <1>1, <2>2 DEF ErrorsAtFirstIllegal
<1>3. CASE Take /\ Takes(History, ahead.type)
  <2> DEFINE h == History
             g == History'
  <2>1. Longer(h, g, ahead.type)
    BY <1>3, TakeFacts
  <2> HIDE DEF h, g
  <2>2. Last(g) = ahead.type
    BY <2>1, Zenon DEF Last, Longer
  <2>3. Front(g) = h
    <3>1. Front(g) = SubSeq(g, 1, Len(g) - 1)
      BY Zenon DEF Front
    <3>2. /\ h \in Seq(TokenType) /\ g \in Seq(TokenType) /\ Len(h) \in Nat /\ Len(g) - 1 = Len(h)
          /\ \A k \in 1 .. Len(h) : g[k] = h[k]
      BY <2>1 DEF Longer, Prefix, Texts
    <3>3. SubSeq(g, 1, Len(h)) = h
      BY <3>2
    <3> QED BY <3>1, <3>2, <3>3
  <2>4. Takes(Front(g), Last(g))
    BY <1>3, <2>2, <2>3 DEF h
  <2> QED BY <1>1, <2>4 DEF ErrorsAtFirstIllegal, g
<1> QED BY <1>2, <1>3

(* The parser fails where nothing else is left.                            *)
LEMMA FailLegal ==
  ASSUME LegalInv, TreeInv', NEW error, Fail(error),
         error \in {"SyntaxError", "Unimplemented"} => ~Takes(History, ahead.type),
         error = "Unimplemented" => ahead.type \notin Nameable
  PROVE  LegalInv'
<1>1. outcome' = error /\ at' = "ended" /\ taken' = taken /\ ahead' = ahead
  BY DEF Fail
<1>2. History' = History
  BY <1>1 DEF History
<1>3. HeadEnds' /\ TopEnds' /\ BodyEnds' /\ ExpressionEnds'
  BY <1>1 DEF HeadEnds, HeadPlaces, TopEnds, BodyEnds, ExpressionEnds, InExpression
<1>4. ErrorsAtFirstIllegal'
  <2>1. taken # <<>> => Takes(Front(History), Last(History))
    BY DEF LegalInv, ErrorsAtFirstIllegal
  <2>2. taken' # <<>> => Takes(Front(History'), Last(History'))
    BY <1>1, <1>2, <2>1
  <2>3. outcome' \in {"SyntaxError", "Unimplemented"} => ~Takes(History', ahead'.type)
    BY <1>1, <1>2
  <2>4. outcome' = "Unimplemented" => ahead'.type \notin Nameable
    BY <1>1
  <2> QED BY <2>2, <2>3, <2>4 DEF ErrorsAtFirstIllegal
<1> QED BY <1>1, <1>3, <1>4 DEF LegalInv

LEMMA UnexpectedLegal ==
  ASSUME LegalInv, TreeInv', Fail(UnexpectedToken(ahead.type)), ~Takes(History, ahead.type)
  PROVE  LegalInv'
<1>1. UnexpectedToken(ahead.type) = "Unimplemented" => ahead.type \notin Nameable
  BY DEF UnexpectedToken
<1> QED BY <1>1, FailLegal

(* A step within an expression.                                            *)
LEMMA ExpressionFacts ==
  ASSUME LegalInv, InExpression
  PROVE  /\ ParserInv /\ History \in Texts /\ Len(History) = Len(taken) /\ Len(taken) \in Nat
         /\ Here = Len(taken) + 1 /\ outcome = "parsing"
         /\ Standing(History, stack) /\ Returns \in BOOLEAN
         /\ Statements(History, Begun, Returns) /\ InBraces(History) /\ Continues
         /\ \A type : Takes(History, type) <=> TakesInBody(History, type)
<1>1. /\ TreeInv /\ ParserInv /\ CallsFit(History, stack) /\ outcome = "parsing"
      /\ Statements(History, Begun, Returns) /\ InBraces(History) /\ Continues
  <2>1. at # "ended"
    BY DEF InExpression
  <2> QED BY <2>1 DEF LegalInv, TreeInv, StackFits, ExpressionEnds
<1>2. History \in Texts /\ Len(History) = Len(taken) /\ Len(taken) \in Nat
  BY <1>1, HistoryFacts
<1>3. CallsOK(stack, Len(taken))
  BY <1>1 DEF ParserInv, StackOK
<1>4. Standing(History, stack) /\ Returns \in BOOLEAN
  BY <1>1, <1>2, <1>3 DEF Standing, Begun, Returns
<1>5. History[Len(History)] # "R_CURLY_BRACKET"
  <2>1. /\ Begun \in 1 .. Len(History) /\ History[Begun] \in Opener(Returns)
        /\ \A k \in Begun + 1 .. Len(History) : History[k] \in Inner
    BY <1>1 DEF Statements
  <2>2. Begun = Len(History) \/ Len(History) \in Begun + 1 .. Len(History)
    BY <1>2, <2>1
  <2>3. "R_CURLY_BRACKET" \notin Inner
    BY OtherKinds DEF Inner, EndsOperand
  <2> QED BY <2>1, <2>2, <2>3 DEF Opener
<1> QED BY <1>1, <1>2, <1>4, <1>5, LegalParts DEF Here

LEMMA GoesOn ==
  ASSUME LegalInv, TreeInv', InExpression, InExpression', outcome' = outcome,
         Stay \/ (Take /\ ahead.type \in Inner /\ Takes(History, ahead.type)),
         stack'[1] = stack[1], Continues'
  PROVE  LegalInv'
<1>1. /\ outcome = "parsing" /\ InBraces(History) /\ Statements(History, Begun, Returns)
  BY ExpressionFacts
<1>2. Begun' = Begun /\ Returns' = Returns
  BY DEF Begun, Returns
<1>3. InBraces(History') /\ Statements(History', Begun, Returns)
  <2>1. CASE Stay
    BY <1>1, <2>1, StayFacts
  <2>2. CASE Take /\ ahead.type \in Inner
    <3>1. ahead.type # "KEYWORD_FN"
      BY <2>2, OtherKinds DEF Inner, EndsOperand
    <3>2. Longer(History, History', ahead.type)
      BY <2>2, TakeFacts
    <3> QED BY <1>1, <2>2, <3>1, <3>2, PartsKept
  <2> QED BY <2>1, <2>2
<1>4. ExpressionEnds'
  BY <1>2, <1>3 DEF ExpressionEnds
<1>5. HeadEnds' /\ TopEnds' /\ BodyEnds'
  BY DEF InExpression, HeadEnds, HeadPlaces, TopEnds, BodyEnds
<1>6. ErrorsAtFirstIllegal'
  BY <1>1, ErrorsKept
<1> QED BY <1>1, <1>4, <1>5, <1>6 DEF LegalInv

-----------------------------------------------------------------------------
(* Outside of expressions.                                                 *)

LEMMA OutsideFacts ==
  ASSUME LegalInv
  PROVE  /\ ParserInv /\ History \in Texts /\ Len(History) = Len(taken) /\ Len(taken) \in Nat
         /\ (taken = <<>> <=> Len(taken) = 0) /\ (History = <<>> <=> Len(taken) = 0)
         /\ HeadEnds /\ TopEnds /\ BodyEnds /\ (at # "ended" => outcome = "parsing")
<1>1. ParserInv
  BY DEF LegalInv, TreeInv
<1>2. History \in Texts /\ Len(History) = Len(taken) /\ Len(taken) \in Nat
  BY <1>1, HistoryFacts
<1>3. taken \in Seq(Token)
  BY <1>1 DEF ParserInv, TextOK
<1>4. (taken = <<>> <=> Len(taken) = 0) /\ (History = <<>> <=> Len(taken) = 0)
  BY <1>2, <1>3 DEF Texts
<1> QED BY <1>1, <1>2, <1>4 DEF LegalInv

(* Where only one type of token can stand, that is what the language says. *)
LEMMA TopLegal ==
  ASSUME LegalInv, at \in {"top", "end"}
  PROVE  Takes(History, ahead.type) <=> ahead.type \in {"KEYWORD_FN", "END_OF_FILE"}
<1>1. taken # <<>> => InBraces(History) /\ History[Len(taken)] = "R_CURLY_BRACKET"
  BY DEF LegalInv, TopEnds
<1> QED BY <1>1, OutsideFacts, LegalParts

LEMMA HeadLegal ==
  ASSUME LegalInv, at \in HeadPlaces
  PROVE  /\ Takes(History, ahead.type) <=> TakesInHead(History, ahead.type)
         /\ InHead(History) /\ EndOfHead(History[Len(taken)], History[Len(taken) - 1], ahead.type)
<1>1. InHead(History) /\ EndOfHead(History[Len(taken)], History[Len(taken) - 1], ahead.type)
  BY DEF LegalInv, HeadEnds
<1>2. History[Len(taken)] # "R_CURLY_BRACKET"
  BY <1>1 DEF EndOfHead, HeadPlaces
<1> QED BY <1>1, <1>2, OutsideFacts, LegalParts

LEMMA ColonNever ==
  ASSUME LegalInv
  PROVE  ahead.type # "COLON"
<1>1. ahead \in Token
  BY DEF LegalInv, TreeInv, ParserInv, TextOK
<1>2. ahead.type \in TokenType
  <2>1. CASE ahead \in Literals
    <3>1. ahead.type = "INT_LITERAL"
      BY <2>1, LiteralsAssumption
    <3> QED BY <3>1 DEF TokenType
  <2>2. CASE ahead = EndOfFile
    BY <2>2 DEF EndOfFile, TokenType
  <2>3. CASE ahead \in {[type |-> t] : t \in Other}
    BY <2>3, OtherAssumption
  <2> QED BY <1>1, <2>1, <2>2, <2>3 DEF Token
<1> QED BY <1>2 DEF TokenType

(* A statement that is complete.                                           *)
LEMMA CompleteLegal ==
  ASSUME NEW h \in Texts, NEW s, NEW returns \in BOOLEAN, Statements(h, s, returns), NEW type,
         InBraces(h), Complete(h, s, type)
  PROVE  Takes(h, type) <=> type = IF returns THEN "SEMICOLON" ELSE "R_CURLY_BRACKET"
<1>1. /\ h[Len(h)] \in EndsOperand /\ Up(h, Len(h)) = Up(h, s)
      /\ NoCall(h, s, type) /\ NoOperator(h, s, type)
  BY DEF Complete
<1>2. /\ s \in 1 .. Len(h) /\ s \in Nat /\ Len(h) \in Nat
      /\ \A k \in s .. Len(h) : Depth(h, s, k) = Up(h, k) - Up(h, s) /\ Up(h, k) \in Int
  BY StatementFacts
<1>3. h[Len(h)] # "R_CURLY_BRACKET"
  BY <1>1 DEF EndsOperand
<1>4. Takes(h, type) <=> TakesInBody(h, type)
  BY <1>3, LegalParts
<1>5. TakesInBody(h, type) <=>
        \/ type = "L_PAREN" /\ ~NoCall(h, s, type)
        \/ type = "R_PAREN" /\ Up(h, Len(h)) > Up(h, s)
        \/ type \in BinaryOperator /\ ~Repeats(h, s, type)
        \/ type = "SEMICOLON" /\ Up(h, Len(h)) = Up(h, s) /\ returns
        \/ type = "R_CURLY_BRACKET" /\ Up(h, Len(h)) = Up(h, s) /\ ~returns
  BY <1>1, LegalAfterOperand
<1>6. ~(Up(h, Len(h)) > Up(h, s))
  <2>1. Up(h, s) \in Int
    BY <1>2
  <2> QED BY <1>1, <2>1
<1>7. ~(type \in BinaryOperator /\ ~Repeats(h, s, type))
  BY <1>1 DEF NoOperator
<1> QED BY <1>1, <1>4, <1>5, <1>6, <1>7

LEMMA BodyLegal ==
  ASSUME LegalInv
  PROVE  /\ at = "body" => (Takes(History, ahead.type) <=>
              ahead.type \in StartsOperand \cup {"KEYWORD_RETURN", "R_CURLY_BRACKET"})
         /\ at = "return_value" => (Takes(History, ahead.type) <=>
              ahead.type \in StartsOperand \cup {"SEMICOLON"})
         /\ at = "return_end" => (Takes(History, ahead.type) <=> ahead.type = "SEMICOLON")
         /\ at = "close" => (Takes(History, ahead.type) <=> ahead.type = "R_CURLY_BRACKET")
<1> DEFINE h == History
           type == ahead.type
<1>1. /\ h \in Texts /\ Len(h) = Len(taken)
      /\ at \in {"body", "return_value", "return_end", "close"} => InBraces(h)
      /\ at = "body" => h[Len(h)] \in Opener(FALSE)
      /\ at = "return_value" => h[Len(h)] = "KEYWORD_RETURN"
      /\ at = "return_end" => \E s \in 1 .. Len(taken) : Statements(h, s, TRUE) /\ Complete(h, s, type)
      /\ at = "close" =>
           \/ h[Len(h)] \in Opener(FALSE) /\ type \notin StartsOperand \cup {"KEYWORD_RETURN"}
           \/ \E s \in 1 .. Len(taken) : Statements(h, s, FALSE) /\ Complete(h, s, type)
  BY OutsideFacts DEF BodyEnds
<1> HIDE DEF h, type
<1>2. h[Len(h)] \in Opener(FALSE) /\ InBraces(h) =>
        (Takes(h, type) <=> type \in StartsOperand \cup {"KEYWORD_RETURN", "R_CURLY_BRACKET"})
  <2>1. h[Len(h)] \in Opener(FALSE) => h[Len(h)] # "R_CURLY_BRACKET"
    BY DEF Opener
  <2> QED BY <1>1, <2>1, LegalParts, LegalAtBeginning
<1>3. at = "return_value" => (Takes(h, type) <=> type \in StartsOperand \cup {"SEMICOLON"})
  <2> SUFFICES ASSUME at = "return_value"
               PROVE  Takes(h, type) <=> type \in StartsOperand \cup {"SEMICOLON"}
    OBVIOUS
  <2>1. h[Len(h)] = "KEYWORD_RETURN" /\ InBraces(h)
    BY <1>1
  <2>2. Takes(h, type) <=> TakesInBody(h, type)
    BY <1>1, <2>1, LegalParts
  <2> QED BY <2>1, <2>2, LegalAtBeginning
<1>4. at = "return_end" => (Takes(h, type) <=> type = "SEMICOLON")
  <2> SUFFICES ASSUME at = "return_end" PROVE Takes(h, type) <=> type = "SEMICOLON"
    OBVIOUS
  <2>1. PICK s \in 1 .. Len(taken) : Statements(h, s, TRUE) /\ Complete(h, s, type)
    BY <1>1
  <2> QED BY <1>1, <2>1, CompleteLegal
<1>5. at = "close" => (Takes(h, type) <=> type = "R_CURLY_BRACKET")
  <2> SUFFICES ASSUME at = "close" PROVE Takes(h, type) <=> type = "R_CURLY_BRACKET"
    OBVIOUS
  <2>1. CASE h[Len(h)] \in Opener(FALSE) /\ type \notin StartsOperand \cup {"KEYWORD_RETURN"}
    <3>1. InBraces(h)
      BY <1>1
    <3>2. Takes(h, type) <=> type \in StartsOperand \cup {"KEYWORD_RETURN", "R_CURLY_BRACKET"}
      BY <1>2, <2>1, <3>1
    <3> QED BY <2>1, <3>2
  <2>2. CASE \E s \in 1 .. Len(taken) : Statements(h, s, FALSE) /\ Complete(h, s, type)
    <3>1. PICK s \in 1 .. Len(taken) : Statements(h, s, FALSE) /\ Complete(h, s, type)
      BY <2>2
    <3> QED BY <1>1, <3>1, CompleteLegal
  <2> QED BY <1>1, <2>1, <2>2
<1>6. at = "body" =>
        (Takes(h, type) <=> type \in StartsOperand \cup {"KEYWORD_RETURN", "R_CURLY_BRACKET"})
  BY <1>1, <1>2
<1> QED BY <1>3, <1>4, <1>5, <1>6 DEF h, type

(* A step to a place outside of expressions.                               *)
LEMMA GoesOutside ==
  ASSUME LegalInv, TreeInv', at # "ended", ~InExpression',
         Stay \/ (Take /\ Takes(History, ahead.type)),
         outcome' \in {"parsing", "Success"}, at' # "ended" => outcome' = "parsing",
         HeadEnds', TopEnds', BodyEnds'
  PROVE  LegalInv'
<1>1. ErrorsAtFirstIllegal'
  BY ErrorsKept
<1>2. ExpressionEnds'
  BY DEF ExpressionEnds
<1> QED BY <1>1, <1>2 DEF LegalInv

LEMMA TopLevelLegal ==
  ASSUME LegalInv, TreeInv', TopLevel
  PROVE  LegalInv'
<1>1. at = "top" /\ at # "ended" /\ outcome = "parsing"
  BY OutsideFacts DEF TopLevel
<1>2. CASE ahead.type = "KEYWORD_FN" /\ Take /\ GoTo("name")
  <2>1. at' = "name" /\ outcome' = "parsing"
    BY <1>1, <1>2 DEF GoTo
  <2>2. Takes(History, ahead.type)
    BY <1>1, <1>2, TopLegal
  <2>3. Longer(History, History', ahead.type) /\ Len(History') = Len(taken')
    BY <1>2, TakeFacts
  <2>4. InHead(History') /\ History'[Len(taken')] = "KEYWORD_FN"
    BY <1>2, <2>3, PartsKept DEF Longer
  <2>5. HeadEnds' /\ TopEnds' /\ BodyEnds' /\ ~InExpression'
    BY <2>1, <2>4 DEF HeadEnds, EndOfHead, TopEnds, BodyEnds, InExpression
  <2> QED BY <1>1, <1>2, <2>1, <2>2, <2>5, GoesOutside
<1>3. CASE ahead.type # "KEYWORD_FN" /\ Stay /\ GoTo("end")
  <2>1. at' = "end" /\ outcome' = "parsing"
    BY <1>1, <1>3 DEF GoTo
  <2>2. TopEnds'
    BY <1>1, <1>3, <2>1, OutsideFacts, StayFacts DEF TopEnds
  <2>3. HeadEnds' /\ BodyEnds' /\ ~InExpression'
    BY <2>1 DEF HeadEnds, HeadPlaces, BodyEnds, InExpression
  <2> QED BY <1>1, <1>3, <2>1, <2>2, <2>3, GoesOutside
<1> QED BY <1>2, <1>3 DEF TopLevel


(* One more token in a function's head.                                    *)
LEMMA HeadTaken ==
  ASSUME LegalInv, TreeInv', Take, at \in HeadPlaces
  PROVE  /\ ahead.type # "L_CURLY_BRACKET" => InHead(History')
         /\ ahead.type = "L_CURLY_BRACKET" => InBraces(History')
         /\ History'[Len(taken')] = ahead.type
         /\ History'[Len(taken') - 1] = History[Len(taken)]
<1> DEFINE h == History
           g == History'
<1>1. /\ Longer(h, g, ahead.type) /\ Len(h) = Len(taken)
      /\ Len(taken') = Len(taken) + 1 /\ Len(g) = Len(taken') /\ Len(taken) \in Nat
  BY TakeFacts
<1>2. InHead(h)
  BY HeadLegal
<1> HIDE DEF h, g
<1>3. Len(h) \in 1 .. Len(h)
  <2>1. PICK f \in 1 .. Len(h) : h[f] = h[f]
    BY <1>2 DEF InHead
  <2> QED BY <1>1, <2>1
<1>4. g[Len(h)] = h[Len(h)] /\ g[Len(g)] = ahead.type /\ Len(taken') - 1 = Len(h)
  BY <1>1, <1>3 DEF Longer, Prefix
<1>5. /\ ahead.type # "L_CURLY_BRACKET" => InHead(g)
      /\ ahead.type = "L_CURLY_BRACKET" => InBraces(g)
  BY <1>1, <1>2, PartsKept
<1> QED BY <1>1, <1>4, <1>5 DEF h, g

LEMMA ArgumentsLegal ==
  ASSUME LegalInv, TreeInv', Arguments
  PROVE  LegalInv'
<1> DEFINE last == History[Len(taken)]
<1>1. at = "args" /\ at # "ended" /\ outcome = "parsing" /\ at \in HeadPlaces
  BY OutsideFacts DEF Arguments, HeadPlaces
<1>2. /\ InHead(History) /\ last = "L_PAREN"
      /\ Takes(History, ahead.type) <=> ahead.type \in {"IDENT", "R_PAREN", "THIN_ARROW", "L_CURLY_BRACKET"}
  <2>1. /\ Takes(History, ahead.type) <=> TakesInHead(History, ahead.type)
        /\ InHead(History) /\ last = "L_PAREN" /\ Len(History) = Len(taken)
    BY <1>1, HeadLegal, OutsideFacts DEF EndOfHead
  <2> QED BY <2>1, LegalInHeadCases
<1> HIDE DEF last
<1>3. ASSUME at' \in HeadPlaces, HeadEnds', outcome' = outcome,
             Stay \/ (Take /\ Takes(History, ahead.type))
      PROVE  LegalInv'
  <2>1. TopEnds' /\ BodyEnds' /\ ~InExpression'
    BY <1>3 DEF HeadPlaces, TopEnds, BodyEnds, InExpression
  <2> QED BY <1>1, <1>3, <2>1, GoesOutside
<1>4. CASE ahead.type = "IDENT" /\ Take /\ GoTo("colon")
  <2>1. at' = "colon" /\ at' \in HeadPlaces /\ outcome' = outcome /\ Takes(History, ahead.type)
    BY <1>2, <1>4 DEF GoTo, HeadPlaces
  <2>2. InHead(History') /\ History'[Len(taken')] = "IDENT" /\ History'[Len(taken') - 1] = "L_PAREN"
    BY <1>1, <1>2, <1>4, HeadTaken DEF last
  <2>3. HeadEnds'
    BY <2>1, <2>2 DEF HeadEnds, EndOfHead
  <2> QED BY <1>3, <1>4, <2>1, <2>3
<1>5. CASE ahead.type = "R_PAREN" /\ Take /\ GoTo("arrow")
  <2>1. at' = "arrow" /\ at' \in HeadPlaces /\ outcome' = outcome /\ Takes(History, ahead.type)
    BY <1>2, <1>5 DEF GoTo, HeadPlaces
  <2>2. InHead(History') /\ History'[Len(taken')] = "R_PAREN"
    BY <1>1, <1>5, HeadTaken
  <2>3. HeadEnds'
    BY <2>1, <2>2 DEF HeadEnds, EndOfHead
  <2> QED BY <1>3, <1>5, <2>1, <2>3
<1>6. CASE ahead.type \notin {"IDENT", "R_PAREN"} /\ Stay /\ GoTo("arrow")
  <2>1. at' = "arrow" /\ at' \in HeadPlaces /\ outcome' = outcome
    BY <1>6 DEF GoTo, HeadPlaces
  <2>2. InHead(History') /\ History'[Len(taken')] = "L_PAREN" /\ ahead'.type \notin {"IDENT", "R_PAREN"}
    BY <1>2, <1>6, StayFacts DEF last
  <2>3. HeadEnds'
    BY <2>1, <2>2 DEF HeadEnds, EndOfHead
  <2> QED BY <1>3, <1>6, <2>1, <2>3
<1> QED BY <1>4, <1>5, <1>6 DEF Arguments

LEMMA ReturnTypeLegal ==
  ASSUME LegalInv, TreeInv', ReturnType
  PROVE  LegalInv'
<1> DEFINE last == History[Len(taken)]
<1>1. at = "arrow" /\ at # "ended" /\ outcome = "parsing" /\ at \in HeadPlaces
  BY OutsideFacts DEF ReturnType, HeadPlaces
<1>2. /\ InHead(History)
      /\ last = "R_PAREN" \/ (last = "L_PAREN" /\ ahead.type \notin {"IDENT", "R_PAREN"})
      /\ ahead.type = "THIN_ARROW" => Takes(History, ahead.type)
  <2>1. /\ Takes(History, ahead.type) <=> TakesInHead(History, ahead.type)
        /\ InHead(History) /\ Len(History) = Len(taken)
        /\ last = "R_PAREN" \/ (last = "L_PAREN" /\ ahead.type \notin {"IDENT", "R_PAREN"})
    BY <1>1, HeadLegal, OutsideFacts DEF EndOfHead
  <2> QED BY <2>1, LegalInHeadCases
<1> HIDE DEF last
<1>3. CASE ahead.type = "THIN_ARROW" /\ Take /\ GoTo("type")
  <2>1. at' = "type" /\ outcome' = "parsing" /\ Takes(History, ahead.type)
    BY <1>1, <1>2, <1>3 DEF GoTo
  <2>2. InHead(History') /\ History'[Len(taken')] = "THIN_ARROW"
    BY <1>1, <1>3, HeadTaken
  <2>3. HeadEnds' /\ TopEnds' /\ BodyEnds' /\ ~InExpression'
    BY <2>1, <2>2 DEF HeadEnds, EndOfHead, TopEnds, BodyEnds, InExpression
  <2> QED BY <1>1, <1>3, <2>1, <2>3, GoesOutside
<1>4. CASE ahead.type # "THIN_ARROW" /\ Stay /\ GoTo("open")
  <2>1. at' = "open" /\ outcome' = "parsing"
    BY <1>1, <1>4 DEF GoTo
  <2>2. /\ InHead(History') /\ History'[Len(taken')] = last /\ ahead' = ahead
    BY <1>2, <1>4, StayFacts DEF last
  <2>3. HeadEnds'
    BY <1>2, <1>4, <2>1, <2>2 DEF HeadEnds, EndOfHead
  <2>4. TopEnds' /\ BodyEnds' /\ ~InExpression'
    BY <2>1 DEF TopEnds, BodyEnds, InExpression
  <2> QED BY <1>1, <1>4, <2>1, <2>3, <2>4, GoesOutside
<1> QED BY <1>3, <1>4 DEF ReturnType

(* What is expected is what may come next.                                 *)
LEMMA ExpectedLegal ==
  ASSUME LegalInv, at \in DOMAIN Expected
  PROVE  Takes(History, ahead.type) <=> ahead.type = Expected[at]
<1> DEFINE last == History[Len(taken)]
           before == History[Len(taken) - 1]
<1>1. at \in {"name", "l_paren", "colon", "type", "open", "close", "return_end", "end"}
  BY DEF Expected
<1>2. CASE at = "end"
  <2>1. ahead.type # "KEYWORD_FN" /\ Expected[at] = "END_OF_FILE"
    BY <1>2, OutsideFacts DEF TopEnds, Expected
  <2> QED BY <1>2, <2>1, TopLegal
<1>3. CASE at \in {"return_end", "close"}
  BY <1>3, BodyLegal DEF Expected
<1>4. CASE at \in {"name", "l_paren", "colon", "type", "open"}
  <2>1. /\ Takes(History, ahead.type) <=> TakesInHead(History, ahead.type)
        /\ EndOfHead(last, before, ahead.type) /\ Len(History) = Len(taken)
    BY <1>4, HeadLegal, OutsideFacts DEF HeadPlaces
  <2> HIDE DEF last, before
  <2>2. /\ last \in {"KEYWORD_FN", "THIN_ARROW"} => (TakesInHead(History, ahead.type) <=> ahead.type = "IDENT")
        /\ last = "L_PAREN" => (TakesInHead(History, ahead.type)
             <=> ahead.type \in {"IDENT", "R_PAREN", "THIN_ARROW", "L_CURLY_BRACKET"})
        /\ last = "R_PAREN" => (TakesInHead(History, ahead.type)
             <=> ahead.type \in {"THIN_ARROW", "L_CURLY_BRACKET"})
        /\ last = "IDENT" /\ before = "KEYWORD_FN" =>
             (TakesInHead(History, ahead.type) <=> ahead.type = "L_PAREN")
        /\ last = "IDENT" /\ before = "THIN_ARROW" =>
             (TakesInHead(History, ahead.type) <=> ahead.type = "L_CURLY_BRACKET")
        /\ last = "IDENT" /\ before = "L_PAREN" =>
             (TakesInHead(History, ahead.type) <=> ahead.type = "COLON")
    BY <2>1, LegalInHeadCases DEF last, before
  <2>3. CASE at = "name"
    BY <2>1, <2>2, <2>3 DEF EndOfHead, Expected
  <2>4. CASE at = "l_paren"
    BY <2>1, <2>2, <2>4 DEF EndOfHead, Expected
  <2>5. CASE at = "colon"
    BY <2>1, <2>2, <2>5, ColonNever DEF EndOfHead, Expected
  <2>6. CASE at = "type"
    BY <2>1, <2>2, <2>6 DEF EndOfHead, Expected
  <2>7. CASE at = "open"
    BY <2>1, <2>2, <2>7 DEF EndOfHead, Expected
  <2> QED BY <1>4, <2>3, <2>4, <2>5, <2>6, <2>7
<1> QED BY <1>1, <1>2, <1>3, <1>4

LEMMA ExpectLegal ==
  ASSUME LegalInv, TreeInv', Expect
  PROVE  LegalInv'
<1> DEFINE last == History'[Len(taken')]
           before == History'[Len(taken') - 1]
<1>1. /\ at \in {"name", "l_paren", "colon", "type", "open", "close", "return_end", "end"}
      /\ at # "ended" /\ outcome = "parsing" /\ (Takes(History, ahead.type) <=> ahead.type = Expected[at])
  BY OutsideFacts, ExpectedLegal DEF Expect, Expected
<1>2. CASE ahead.type # Expected[at]
  BY <1>1, <1>2, UnexpectedLegal DEF Expect
<1>3. CASE ahead.type = Expected[at]
  <2>1. /\ Take /\ at' = Follows[at] /\ outcome' = IF at = "end" THEN "Success" ELSE "parsing"
        /\ Takes(History, ahead.type)
    BY <1>1, <1>3 DEF Expect
  <2>2. ASSUME HeadEnds', TopEnds', BodyEnds', ~InExpression', at' # "ended" => outcome' = "parsing"
        PROVE  LegalInv'
    <3>1. outcome' \in {"parsing", "Success"}
      BY <2>1
    <3> QED BY <1>1, <2>1, <2>2, <3>1, GoesOutside
  <2>3. CASE at = "end"
    <3>1. at' = "ended"
      BY <2>1, <2>3 DEF Follows
    <3> QED BY <2>2, <3>1 DEF HeadEnds, HeadPlaces, TopEnds, BodyEnds, InExpression
  <2>4. CASE at \in {"name", "l_paren", "colon", "type", "open"}
    <3>1. at \in HeadPlaces
      BY <2>4 DEF HeadPlaces
    <3>2. /\ EndOfHead(before, History[Len(taken) - 1], ahead.type) /\ last = ahead.type
          /\ ahead.type # "L_CURLY_BRACKET" => InHead(History')
          /\ ahead.type = "L_CURLY_BRACKET" => InBraces(History')
      BY <2>1, <3>1, HeadLegal, HeadTaken
    <3> HIDE DEF last, before
    <3>3. CASE at = "name"
      <4>1. at' = "l_paren" /\ outcome' = "parsing" /\ ahead.type = "IDENT"
        BY <1>3, <2>1, <3>3 DEF Follows, Expected
      <4>2. InHead(History') /\ last = "IDENT" /\ before = "KEYWORD_FN"
        BY <3>2, <3>3, <4>1 DEF EndOfHead
      <4>3. HeadEnds'
        BY <4>1, <4>2 DEF HeadEnds, EndOfHead, last, before
      <4> QED BY <2>2, <4>1, <4>3 DEF TopEnds, BodyEnds, InExpression
    <3>4. CASE at = "l_paren"
      <4>1. at' = "args" /\ outcome' = "parsing" /\ ahead.type = "L_PAREN"
        BY <1>3, <2>1, <3>4 DEF Follows, Expected
      <4>2. InHead(History') /\ last = "L_PAREN"
        BY <3>2, <4>1
      <4>3. HeadEnds'
        BY <4>1, <4>2 DEF HeadEnds, EndOfHead, last
      <4> QED BY <2>2, <4>1, <4>3 DEF TopEnds, BodyEnds, InExpression
    <3>5. CASE at = "colon"
      BY <1>3, <3>5, ColonNever DEF Expected
    <3>6. CASE at = "type"
      <4>1. at' = "open" /\ outcome' = "parsing" /\ ahead.type = "IDENT"
        BY <1>3, <2>1, <3>6 DEF Follows, Expected
      <4>2. InHead(History') /\ last = "IDENT" /\ before = "THIN_ARROW"
        BY <3>2, <3>6, <4>1 DEF EndOfHead
      <4>3. HeadEnds'
        BY <4>1, <4>2 DEF HeadEnds, EndOfHead, last, before
      <4> QED BY <2>2, <4>1, <4>3 DEF TopEnds, BodyEnds, InExpression
    <3>7. CASE at = "open"
      <4>1. at' = "body" /\ outcome' = "parsing" /\ ahead.type = "L_CURLY_BRACKET"
        BY <1>3, <2>1, <3>7 DEF Follows, Expected
      <4>2. InBraces(History') /\ last \in Opener(FALSE)
        BY <3>2, <4>1 DEF Opener
      <4>3. BodyEnds'
        BY <4>1, <4>2 DEF BodyEnds, last
      <4> QED BY <2>2, <4>1, <4>3 DEF TopEnds, HeadEnds, HeadPlaces, InExpression
    <3> QED BY <2>4, <3>3, <3>4, <3>5, <3>6, <3>7
  <2>5. CASE at \in {"return_end", "close"}
    <3>1. InBraces(History) /\ ahead.type # "KEYWORD_FN"
      BY <1>3, <2>5, OutsideFacts DEF BodyEnds, Expected
    <3>2. Longer(History, History', ahead.type) /\ Len(History') = Len(taken')
      BY <2>1, TakeFacts
    <3>3. InBraces(History') /\ last = ahead.type
      BY <3>1, <3>2, PartsKept DEF Longer
    <3> HIDE DEF last
    <3>4. CASE at = "return_end"
      <4>1. at' = "body" /\ outcome' = "parsing" /\ ahead.type = "SEMICOLON"
        BY <1>3, <2>1, <3>4 DEF Follows, Expected
      <4>2. last \in Opener(FALSE)
        BY <3>3, <4>1 DEF Opener
      <4>3. BodyEnds'
        BY <3>3, <4>1, <4>2 DEF BodyEnds, last
      <4> QED BY <2>2, <4>1, <4>3 DEF TopEnds, HeadEnds, HeadPlaces, InExpression
    <3>5. CASE at = "close"
      <4>1. at' = "top" /\ outcome' = "parsing" /\ ahead.type = "R_CURLY_BRACKET"
        BY <1>3, <2>1, <3>5 DEF Follows, Expected
      <4>2. TopEnds'
        BY <3>3, <4>1 DEF TopEnds, last
      <4> QED BY <2>2, <4>1, <4>2 DEF BodyEnds, HeadEnds, HeadPlaces, InExpression
    <3> QED BY <2>5, <3>4, <3>5
  <2> QED BY <1>1, <2>3, <2>4, <2>5
<1> QED BY <1>2, <1>3

(* The call at the bottom stays where it is.                               *)
LEMMA CallFirst ==
  ASSUME NEW calls \in Seq(Frames), Len(calls) >= 1, NEW level \in 1 .. 11, Call(calls, level)
  PROVE  stack'[1] = calls[1]
<1>1. stack' = calls \o Waits(level)
  BY DEF Call, Waits
<1>2. Waits(level) \in Seq(Frames)
  <2>1. \A k \in 1 .. 11 - level : level + k - 1 \in 1 .. 10
    OBVIOUS
  <2>2. \A k \in 1 .. 11 - level : Waiting(level + k - 1) \in Frames
    BY <2>1, WaitingFacts
  <2>3. Waits(level) \in [1 .. 11 - level -> Frames]
    BY <2>2, Zenon DEF Waits
  <2>4. 11 - level \in Nat
    OBVIOUS
  <2> QED BY <2>3, <2>4, TabulatedFacts
<1>3. 1 \in 1 .. Len(calls)
  OBVIOUS
<1> QED BY <1>1, <1>2, <1>3, JoinedFacts

(* An expression begins.                                                   *)
LEMMA EnterLegal ==
  ASSUME LegalInv, TreeInv', Stay, NEW rule \in {"body", "return"}, Call(<<Frame(rule)>>, 1),
         InBraces(History), History[Len(taken)] \in Opener(rule = "return"), Len(taken) # 0,
         ahead.type # IF rule = "return" THEN "SEMICOLON" ELSE "KEYWORD_RETURN",
         outcome = "parsing"
  PROVE  LegalInv'
<1> DEFINE calls == <<Frame(rule)>>
<1>1. at' = "operand" /\ outcome' = "parsing" /\ stack' = calls \o Waits(1) /\ InExpression'
  BY DEF Call, GoTo, Waits, InExpression
<1>2. /\ History' = History /\ ahead' = ahead /\ Here' = Here /\ Len(History) = Len(taken)
      /\ Len(taken) \in Nat /\ Here = Len(taken) + 1
  BY StayFacts
<1>3. stack'[1] = Frame(rule)
  <2>1. Len(calls) >= 1 /\ calls \in Seq(Frames) /\ calls[1] = Frame(rule)
    BY <1>2 DEF Frames, Frame
  <2>2. Call(calls, 1)
    OBVIOUS
  <2> HIDE DEF calls
  <2> QED BY <2>1, <2>2, CallFirst
<1>4. Begun' = Len(taken) /\ Returns' = (rule = "return") /\ stack'[1].from = Here
  BY <1>2, <1>3 DEF Begun, Returns, Frame
<1>5. Statements(History, Len(taken), rule = "return")
  <2>1. Len(taken) \in 1 .. Len(History)
    BY <1>2
  <2>2. \A k \in Len(taken) + 1 .. Len(History) : FALSE
    BY <1>2
  <2> QED BY <2>1, <2>2 DEF Statements
<1>6. Continues'
  <2>1. StartsAt(stack', Len(stack'), Here')
    BY <1>1 DEF TreeInv, NodeFits
  <2>2. ahead'.type # Instead'
    BY <1>2, <1>4 DEF Instead
  <2> QED BY <1>1, <2>1, <2>2 DEF Continues
<1>7. ExpressionEnds'
  BY <1>2, <1>4, <1>5, <1>6 DEF ExpressionEnds
<1>8. HeadEnds' /\ TopEnds' /\ BodyEnds'
  BY <1>1 DEF HeadEnds, HeadPlaces, TopEnds, BodyEnds
<1>9. ErrorsAtFirstIllegal'
  BY <1>1, ErrorsKept
<1> QED BY <1>1, <1>7, <1>8, <1>9 DEF LegalInv

LEMMA StatementLegal ==
  ASSUME LegalInv, TreeInv', Statement
  PROVE  LegalInv'
<1>1. /\ at = "body" /\ at # "ended" /\ outcome = "parsing" /\ InBraces(History)
      /\ History[Len(taken)] \in Opener(FALSE) /\ Len(taken) # 0
  <2>1. at = "body" /\ at # "ended" /\ outcome = "parsing" /\ InBraces(History)
        /\ History[Len(taken)] \in Opener(FALSE) /\ Len(History) = Len(taken)
    BY OutsideFacts DEF Statement, BodyEnds
  <2>2. Len(taken) # 0
    BY <2>1 DEF InBraces
  <2> QED BY <2>1, <2>2
<1>2. CASE ahead.type = "KEYWORD_RETURN" /\ Take /\ GoTo("return_value")
  <2>1. at' = "return_value" /\ outcome' = "parsing" /\ Takes(History, ahead.type)
    BY <1>1, <1>2, BodyLegal DEF GoTo
  <2>2. Longer(History, History', ahead.type) /\ Len(History') = Len(taken')
    BY <1>2, TakeFacts
  <2>3. InBraces(History') /\ History'[Len(taken')] = "KEYWORD_RETURN"
    BY <1>1, <1>2, <2>2, PartsKept DEF Longer
  <2>4. BodyEnds'
    BY <2>1, <2>3 DEF BodyEnds
  <2>5. HeadEnds' /\ TopEnds' /\ ~InExpression'
    BY <2>1 DEF HeadEnds, HeadPlaces, TopEnds, InExpression
  <2> QED BY <1>1, <1>2, <2>1, <2>4, <2>5, GoesOutside
<1>3. CASE ahead.type # "KEYWORD_RETURN" /\ Stay /\ Call(<<Frame("body")>>, 1)
  BY <1>1, <1>3, EnterLegal
<1> QED BY <1>2, <1>3 DEF Statement

LEMMA ReturnValueLegal ==
  ASSUME LegalInv, TreeInv', ReturnValue
  PROVE  LegalInv'
<1>1. /\ at = "return_value" /\ at # "ended" /\ outcome = "parsing" /\ InBraces(History)
      /\ History[Len(taken)] = "KEYWORD_RETURN" /\ Len(taken) # 0
  <2>1. at = "return_value" /\ at # "ended" /\ outcome = "parsing" /\ InBraces(History)
        /\ History[Len(taken)] = "KEYWORD_RETURN" /\ Len(History) = Len(taken)
    BY OutsideFacts DEF ReturnValue, BodyEnds
  <2>2. Len(taken) # 0
    BY <2>1 DEF InBraces
  <2> QED BY <2>1, <2>2
<1>2. CASE ahead.type = "SEMICOLON" /\ Take /\ GoTo("body")
  <2>1. at' = "body" /\ outcome' = "parsing" /\ Takes(History, ahead.type)
    BY <1>1, <1>2, BodyLegal DEF GoTo
  <2>2. Longer(History, History', ahead.type) /\ Len(History') = Len(taken')
    BY <1>2, TakeFacts
  <2>3. InBraces(History') /\ History'[Len(taken')] \in Opener(FALSE)
    BY <1>1, <1>2, <2>2, PartsKept DEF Longer, Opener
  <2>4. BodyEnds'
    BY <2>1, <2>3 DEF BodyEnds
  <2>5. HeadEnds' /\ TopEnds' /\ ~InExpression'
    BY <2>1 DEF HeadEnds, HeadPlaces, TopEnds, InExpression
  <2> QED BY <1>1, <1>2, <2>1, <2>4, <2>5, GoesOutside
<1>3. CASE ahead.type # "SEMICOLON" /\ Stay /\ Call(<<Frame("return")>>, 1)
  <2>1. History[Len(taken)] \in Opener("return" = "return")
    BY <1>1 DEF Opener
  <2> QED BY <1>1, <1>3, <2>1, EnterLegal
<1> QED BY <1>2, <1>3 DEF ReturnValue

-----------------------------------------------------------------------------
(* Where an operand is missing.                                            *)

LEMMA NoOperandBehind ==
  ASSUME NEW h \in Texts, NEW calls, Standing(h, calls), NEW n \in 1 .. Len(calls),
         NEW from, StartsAt(calls, n, from)
  PROVE  from - 1 \in 1 .. Len(h) /\ h[from - 1] \notin EndsOperand
<1>1. PICK j \in 1 .. n : Holder(calls, n, j)
  BY HolderExists
<1>2. from = Begin(calls[j])
  BY <1>1 DEF StartsAt
<1> QED BY <1>1, <1>2, HolderFacts

(* A parenthesis that a group begins with is not that of a call.           *)
LEMMA GroupNoCall ==
  ASSUME NEW h \in Texts, NEW calls, Standing(h, calls), NEW n \in 1 .. Len(calls),
         calls[n].rule = "group"
  PROVE  ~IsCall(h, calls[n].from)
<1>1. CallOK(calls[n], n = 1, Len(h)) /\ CallFits(h, calls, n) /\ Len(calls) \in Nat
  BY StandingFacts
<1>2. n # 1
  BY <1>1 DEF CallOK
<1>3. n - 1 \in 1 .. Len(calls)
  BY <1>1, <1>2
<1>4. StartsAt(calls, n - 1, calls[n].from)
  BY <1>1 DEF CallFits, Opened
<1>5. h[calls[n].from - 1] \notin EndsOperand
  BY <1>3, <1>4, NoOperandBehind
<1> QED BY <1>5 DEF IsCall

LEMMA MissingLegal ==
  ASSUME NEW h \in Texts, NEW calls, Standing(h, calls), InBraces(h),
         StartsAt(calls, Len(calls), Len(h) + 1), NEW type
  PROVE  /\ type \in StartsOperand => Takes(h, type)
         /\ Opened(calls[Len(calls)]) /\ type \notin StartsOperand => ~Takes(h, type)
<1> DEFINE n == Len(calls)
           last == h[Len(h)]
<1>1. n \in 1 .. Len(calls) /\ n \in Nat /\ Len(h) \in Nat /\ calls[1].from - 1 \in 1 .. Len(h)
      /\ h[calls[1].from - 1] \notin Inner /\ calls[1].from \in Nat
  <2>1. Len(calls) \in Nat /\ Len(calls) >= 1
    BY StandingFacts
  <2>2. 1 \in 1 .. Len(calls) /\ Len(calls) \in 1 .. Len(calls)
    BY <2>1
  <2> QED BY <2>1, <2>2, StandingFacts
<1>2. PICK j \in 1 .. n : Holder(calls, n, j)
  BY <1>1, HolderExists
<1>3. Len(h) + 1 = Begin(calls[j]) /\ Len(h) + 1 - 1 = Len(h)
  BY <1>1, <1>2 DEF StartsAt
<1>4. /\ last \notin EndsOperand /\ j \in 1 .. Len(calls)
      /\ \/ j = 1 /\ Len(h) + 1 = calls[1].from /\ ~Opened(calls[j])
         \/ calls[j].rule = "group" /\ last = "L_PAREN" /\ Len(h) + 1 = calls[j].from + 1
         \/ last \in UnaryOperator
         \/ calls[j].level \in 1 .. 10 /\ last \in Operators[calls[j].level]
  BY <1>1, <1>2, <1>3, HolderFacts
<1>5. CASE j = 1 /\ Len(h) + 1 = calls[1].from /\ ~Opened(calls[j])
  <2>1. h[Len(h)] \in Opener(calls[1].rule = "return") /\ Len(h) = calls[1].from - 1
    <3>1. Len(h) = calls[1].from - 1
      BY <1>1, <1>5
    <3> QED BY <3>1 DEF Standing, Statements
  <2>2. last # "R_CURLY_BRACKET" /\ (last \in Opener(FALSE) \/ last = "KEYWORD_RETURN")
    BY <2>1 DEF Opener
  <2>3. type \in StartsOperand => Takes(h, type)
    BY <2>2, LegalParts, LegalAtBeginning
  <2>4. ~Opened(calls[n])
    <3>1. n \in Nat /\ n >= 1 /\ j = 1
      BY <1>1, <1>5
    <3> HIDE DEF n
    <3>2. n # 1 => n \in j + 1 .. n
      BY <3>1
    <3>3. n # 1 => Plain(calls[n])
      BY <1>2, <3>2 DEF Holder
    <3>4. n # 1 => ~Opened(calls[n])
      BY <3>3 DEF Plain, Opened
    <3> QED BY <1>5, <3>1, <3>4
  <2> QED BY <2>3, <2>4
<1>6. CASE calls[j].rule = "group" /\ last = "L_PAREN" /\ Len(h) + 1 = calls[j].from + 1
  <2>1. calls[j].from = Len(h)
    <3>1. calls[j].from \in Nat
      BY <1>4, StandingFacts
    <3> QED BY <1>1, <1>6, <3>1
  <2>2. ~IsCall(h, Len(h))
    BY <1>4, <1>6, <2>1, GroupNoCall
  <2>3. last # "R_CURLY_BRACKET"
    BY <1>6
  <2> QED BY <1>6, <2>2, <2>3, LegalParts, LegalElsewhere
<1>7. CASE last \in UnaryOperator \/ (calls[j].level \in 1 .. 10 /\ last \in Operators[calls[j].level])
  <2>1. last \in BinaryOperator \cup UnaryOperator
    BY <1>7, OperatorFacts
  <2>2. last # "R_CURLY_BRACKET"
    BY <2>1, OtherKinds
  <2> QED BY <2>1, <2>2, LegalParts, LegalElsewhere
<1> QED BY <1>4, <1>5, <1>6, <1>7

-----------------------------------------------------------------------------
(* Operands.                                                               *)

(* A step to the next operand.                                             *)
LEMMA GoesToOperand ==
  ASSUME LegalInv, TreeInv', InExpression, at' = "operand", outcome' = outcome,
         Take, ahead.type \in Inner, Takes(History, ahead.type), stack'[1] = stack[1]
  PROVE  LegalInv'
<1>1. StartsAt(stack', Len(stack'), Here') /\ InExpression'
  BY DEF TreeInv, NodeFits, InExpression
<1>2. stack'[1].from # Here'
  <2>1. stack[1].from - 1 \in 1 .. Len(taken) /\ stack[1].from \in Nat /\ Len(taken) \in Nat
    <3>1. /\ Standing(History, stack) /\ History \in Texts /\ Len(History) = Len(taken)
          /\ Len(taken) \in Nat
      BY ExpressionFacts
    <3>2. 1 \in 1 .. Len(stack)
      BY <3>1, StandingFacts
    <3> QED BY <3>1, <3>2, StandingFacts
  <2>2. Len(taken') = Len(taken) + 1 /\ Here' = Len(taken') + 1
    BY TakeFacts DEF Here
  <2> QED BY <2>1, <2>2
<1>3. Continues'
  BY <1>1, <1>2 DEF Continues
<1> QED BY <1>1, <1>3, GoesOn

LEMMA OperandAhead ==
  ASSUME LegalInv, InExpression, at = "operand" \/ (at = "returned" /\ node = Absent)
  PROVE  /\ StartsAt(stack, Len(stack), Here)
         /\ stack[1].from = Here => ahead.type # Instead
         /\ ahead.type \in StartsOperand => Takes(History, ahead.type)
         /\ Opened(Last(stack)) /\ ahead.type \notin StartsOperand => ~Takes(History, ahead.type)
<1>1. /\ StartsAt(stack, Len(stack), Here)
      /\ stack[1].from = Here => ahead.type # Instead
  BY ExpressionFacts DEF Continues
<1>2. /\ Standing(History, stack) /\ History \in Texts /\ Len(History) + 1 = Here
      /\ InBraces(History)
  BY ExpressionFacts
<1>3. Last(stack) = stack[Len(stack)]
  BY Zenon DEF Last
<1>4. /\ ahead.type \in StartsOperand => Takes(History, ahead.type)
      /\ Opened(stack[Len(stack)]) /\ ahead.type \notin StartsOperand => ~Takes(History, ahead.type)
  BY <1>1, <1>2, MissingLegal
<1> QED BY <1>1, <1>3, <1>4

LEMMA AtomLegal ==
  ASSUME LegalInv, TreeInv', at = "operand", NEW value, Atom(value),
         ahead.type \in {"IDENT", "INT_LITERAL", "KEYWORD_TRUE", "KEYWORD_FALSE"}
  PROVE  LegalInv'
<1>1. /\ at' = "postfix" /\ outcome' = outcome /\ Take /\ stack' = stack
      /\ InExpression /\ InExpression'
  BY DEF Atom, GoTo, InExpression
<1>2. Takes(History, ahead.type) /\ ahead.type \in Inner /\ ahead.type # "R_PAREN"
  BY <1>1, OperandAhead DEF StartsOperand, Inner, EndsOperand
<1>3. History'[Len(taken')] = ahead.type
  BY <1>1, TakeFacts DEF Longer
<1>4. Continues'
  BY <1>1, <1>2, <1>3 DEF Continues
<1> QED BY <1>1, <1>2, <1>4, GoesOn

LEMMA OperandLegal ==
  ASSUME LegalInv, TreeInv', Operand
  PROVE  LegalInv'
<1>1. /\ at = "operand" /\ InExpression /\ stack \in Seq(Frames) /\ Len(stack) >= 1
      /\ Frame("group") \in Frames
  <2>1. at = "operand" /\ InExpression
    BY DEF Operand, InExpression
  <2>2. CallsOK(stack, Len(taken)) /\ Here \in Nat
    BY <2>1, ExpressionFacts DEF Standing
  <2> QED BY <2>1, <2>2 DEF CallsOK, Frame, Frames
<1>2. ahead.type \in StartsOperand => Takes(History, ahead.type) /\ ahead.type \in Inner
  BY <1>1, OperandAhead DEF StartsOperand, Inner, EndsOperand
<1>3. CASE /\ ahead.type \in UnaryOperator
           /\ stack' = Append(stack, [Frame("unary") EXCEPT !.op = Here])
           /\ Take /\ GoTo("operand")
  <2>1. stack'[1] = stack[1]
    BY <1>1, <1>3
  <2>2. at' = "operand" /\ outcome' = outcome /\ ahead.type \in StartsOperand
    BY <1>3 DEF GoTo, StartsOperand
  <2> QED BY <1>1, <1>2, <1>3, <2>1, <2>2, GoesToOperand
<1>4. CASE ahead.type \in {"IDENT", "KEYWORD_TRUE", "KEYWORD_FALSE"} /\ Atom(values)
  BY <1>1, <1>4, AtomLegal
<1>5. CASE /\ ahead.type = "INT_LITERAL"
           /\ IF LiteralError(ahead) = "none"
              THEN Atom(values \cup {[at |-> Here, value |-> LiteralValue(ahead)]})
              ELSE Fail(LiteralError(ahead))
  <2>1. CASE LiteralError(ahead) = "none"
    BY <1>1, <1>5, <2>1, AtomLegal
  <2>2. CASE LiteralError(ahead) # "none"
    <3>1. LiteralError(ahead) \in {"TypeError", "UncaughtInternalError"}
      BY <2>2 DEF LiteralError
    <3> QED BY <1>5, <2>2, <3>1, FailLegal
  <2> QED BY <2>1, <2>2
<1>6. CASE ahead.type = "L_PAREN" /\ Call(Append(stack, Frame("group")), 1) /\ Take
  <2> DEFINE calls == Append(stack, Frame("group"))
  <2>1. calls \in Seq(Frames) /\ Len(calls) >= 1 /\ calls[1] = stack[1]
    BY <1>1
  <2>2. Call(calls, 1)
    BY <1>6
  <2> HIDE DEF calls
  <2>3. stack'[1] = stack[1]
    BY <2>1, <2>2, CallFirst
  <2>4. at' = "operand" /\ outcome' = outcome /\ ahead.type \in StartsOperand
    BY <1>6, <2>2 DEF Call, GoTo, StartsOperand
  <2> QED BY <1>1, <1>2, <1>6, <2>3, <2>4, GoesToOperand
<1>7. CASE /\ ahead.type \notin UnaryOperator \cup {"IDENT", "KEYWORD_TRUE", "KEYWORD_FALSE",
                                                    "INT_LITERAL", "L_PAREN"}
           /\ node' = Absent
           /\ Stay /\ GoTo("returned")
           /\ stack' = stack
  <2>1. at' = "returned" /\ outcome' = outcome /\ InExpression'
    BY <1>7 DEF GoTo, InExpression
  <2>2. ahead' = ahead /\ Here' = Here /\ ahead.type \notin StartsOperand
    BY <1>7, StayFacts DEF StartsOperand
  <2>3. StartsAt(stack, Len(stack), Here) /\ (stack[1].from = Here => ahead.type # Instead)
    BY <1>1, OperandAhead
  <2>4. Continues'
    BY <1>7, <2>1, <2>2, <2>3 DEF Continues, Instead, Returns
  <2> QED BY <1>1, <1>7, <2>1, <2>4, GoesOn
<1> QED BY <1>3, <1>4, <1>5, <1>6, <1>7, Zenon DEF Operand

-----------------------------------------------------------------------------
(* What comes after an operand.                                            *)

LEMMA BehindOperand ==
  ASSUME LegalInv, at \in {"postfix", "group_end", "returned"}, node # Absent
  PROVE  /\ InExpression /\ History[Len(taken)] \in EndsOperand
         /\ Takes(History, ahead.type) <=>
              \/ ahead.type = "L_PAREN" /\ ~NoCall(History, Begun, ahead.type)
              \/ ahead.type = "R_PAREN" /\ Up(History, Len(taken)) > Up(History, Begun)
              \/ ahead.type \in BinaryOperator /\ ~Repeats(History, Begun, ahead.type)
              \/ ahead.type = "SEMICOLON" /\ Up(History, Len(taken)) = Up(History, Begun) /\ Returns
              \/ ahead.type = "R_CURLY_BRACKET" /\ Up(History, Len(taken)) = Up(History, Begun)
                   /\ ~Returns
<1>1. InExpression /\ Returning /\ at # "call_end" /\ TreeInv
  BY DEF InExpression, Returning, LegalInv
<1>2. node.to = Len(taken) /\ Expression(History, node.from, node.to, Awaits(Last(stack)))
  BY <1>1, NodeFacts
<1>3. History[Len(taken)] \in EndsOperand
  BY <1>2 DEF Expression
<1>4. /\ History \in Texts /\ Len(History) = Len(taken) /\ Returns \in BOOLEAN
      /\ Statements(History, Begun, Returns)
      /\ Takes(History, ahead.type) <=> TakesInBody(History, ahead.type)
  BY <1>1, ExpressionFacts
<1> DEFINE s == Begun
           returns == Returns
<1> HIDE DEF s, returns
<1>5. Statements(History, s, returns) /\ returns \in BOOLEAN
  BY <1>4 DEF s, returns
<1>6. TakesInBody(History, ahead.type) <=>
        \/ ahead.type = "L_PAREN" /\ ~NoCall(History, s, ahead.type)
        \/ ahead.type = "R_PAREN" /\ Up(History, Len(History)) > Up(History, s)
        \/ ahead.type \in BinaryOperator /\ ~Repeats(History, s, ahead.type)
        \/ ahead.type = "SEMICOLON" /\ Up(History, Len(History)) = Up(History, s) /\ returns
        \/ ahead.type = "R_CURLY_BRACKET" /\ Up(History, Len(History)) = Up(History, s) /\ ~returns
  BY <1>3, <1>4, <1>5, LegalAfterOperand
<1> QED BY <1>1, <1>3, <1>4, <1>6, Zenon DEF s, returns

(* An operator that comes next goes on with an expression of the tightest  *)
(* level.                                                                  *)
LEMMA TightestGoesOn ==
  ASSUME NEW type
  PROVE  type \in BinaryOperator => Level(type) < 11
<1>1. type \in BinaryOperator => Level(type) \in 1 .. 10
  BY OperatorFacts
<1> QED BY <1>1

LEMMA PostfixLegal ==
  ASSUME LegalInv, TreeInv', Postfix
  PROVE  LegalInv'
<1>1. /\ at = "postfix" /\ InExpression /\ node # Absent /\ Awaits(Last(stack)) = 11
      /\ stack' = stack /\ node' = node
  <2>1. at = "postfix" /\ TreeInv /\ ParserInv
    BY DEF Postfix, LegalInv, TreeInv
  <2> QED BY <2>1 DEF Postfix, InExpression, ParserInv, NodeOK, TreeInv, NodeFits
<1>2. CASE ahead.type = "L_PAREN" /\ Take /\ GoTo("call_end")
  <2>1. at' = "call_end" /\ outcome' = outcome /\ InExpression'
    BY <1>2 DEF GoTo, InExpression
  <2>2. ~NoCall(History, Begun, ahead.type)
    <3>1. /\ History[Len(taken)] = "R_PAREN" => ~IsCall(History, Opening(History, Begun, Len(taken)))
          /\ Len(History) = Len(taken)
      BY <1>1, ExpressionFacts DEF Continues
    <3> QED BY <1>2, <3>1, Zenon DEF NoCall
  <2>3. Takes(History, ahead.type) /\ ahead.type \in Inner /\ History[Len(taken)] \in EndsOperand
    BY <1>1, <1>2, <2>2, BehindOperand DEF Inner
  <2>4. /\ Longer(History, History', ahead.type) /\ Len(History) = Len(taken)
        /\ Len(taken') = Len(taken) + 1 /\ Len(History') = Len(taken') /\ Len(taken) \in Nat
    BY <1>2, TakeFacts
  <2>5. Len(taken) \in 1 .. Len(History)
    <3>1. Begun \in 1 .. Len(History)
      BY <1>1, ExpressionFacts DEF Statements
    <3> QED BY <2>4, <3>1
  <2>6. History'[Len(taken')] = "L_PAREN" /\ History'[Len(taken') - 1] \in EndsOperand
    <3>1. History'[Len(taken)] = History[Len(taken)] /\ Len(taken') - 1 = Len(taken)
      BY <2>4, <2>5 DEF Longer, Prefix
    <3> QED BY <1>2, <2>3, <2>4, <3>1 DEF Longer
  <2>7. IsCall(History', Len(taken'))
    BY <2>4, <2>5, <2>6 DEF IsCall
  <2>8. Continues'
    BY <2>1, <2>7 DEF Continues
  <2> QED BY <1>1, <1>2, <2>1, <2>3, <2>8, GoesOn
<1>3. CASE ahead.type # "L_PAREN" /\ Stay /\ GoTo("returned")
  <2>1. at' = "returned" /\ outcome' = outcome /\ InExpression' /\ ahead'.type = ahead.type
    BY <1>3, StayFacts DEF GoTo, InExpression
  <2>2. NoCall(History', Begun', ahead'.type)
    BY <1>3, <2>1 DEF NoCall
  <2>3. NoOperator(History', Begun', ahead'.type) \/ Level(ahead'.type) < Awaits(Last(stack'))
    BY <1>1, TightestGoesOn DEF NoOperator
  <2>4. Continues'
    BY <1>1, <2>1, <2>2, <2>3 DEF Continues
  <2> QED BY <1>1, <1>3, <2>1, <2>4, GoesOn
<1> QED BY <1>1, <1>2, <1>3, Zenon DEF Postfix

(* A parenthesis that has been closed.                                     *)
LEMMA ClosesBehind ==
  ASSUME NEW h \in Texts, NEW g, NEW s, NEW returns \in BOOLEAN, Statements(h, s, returns),
         Longer(h, g, "R_PAREN"), NEW k \in s .. Len(h), h[k] = "L_PAREN",
         Up(h, k) = Up(h, Len(h)), \A j \in k .. Len(h) : Up(h, j) >= Up(h, Len(h))
  PROVE  /\ Opening(g, s, Len(g)) = k
         /\ IsCall(g, k) <=> IsCall(h, k)
<1>1. /\ g \in Texts /\ Prefix(h, g) /\ Len(h) \in Nat /\ Len(g) = Len(h) + 1
      /\ g[Len(g)] = "R_PAREN" /\ s \in 1 .. Len(h) /\ s \in Nat
  BY StatementFacts DEF Longer
<1>2. Statements(g, s, returns)
  <2>1. "R_PAREN" \in Inner
    BY DEF Inner, EndsOperand
  <2> QED BY <2>1, PartsKept
<1>3. k \in 1 .. Len(h) /\ k \in s .. Len(g) /\ Len(g) \in 1 .. Len(g) /\ Len(g) \in Nat \ {0}
  BY <1>1
<1>4. \A j \in 0 .. Len(h) : Up(g, j) = Up(h, j) /\ Up(h, j) \in Int
  BY <1>1, UpKept, UpFacts
<1>5. Up(g, Len(g)) = Up(h, Len(h)) - 1
  <2>1. Up(g, Len(g)) = Up(g, Len(g) - 1) + Weight("R_PAREN")
    <3>1. \A i \in Nat \ {0} : Up(g, i) = Up(g, i - 1) + Weight(g[i])
      BY UpFacts
    <3>2. Up(g, Len(g)) = Up(g, Len(g) - 1) + Weight(g[Len(g)])
      BY <1>3, <3>1, Zenon
    <3> QED BY <1>1, <3>2
  <2>2. Len(g) - 1 = Len(h) /\ Len(h) \in 0 .. Len(h) /\ Weight("R_PAREN") = -1
    BY <1>1 DEF Weight
  <2> QED BY <1>4, <2>1, <2>2
<1>6. g[k] = "L_PAREN" /\ (k > 1 => g[k - 1] = h[k - 1])
  <2>1. k > 1 => k - 1 \in 1 .. Len(h)
    BY <1>1, <1>3
  <2> QED BY <1>1, <1>3, <2>1 DEF Prefix
<1>7. Up(g, k) = Up(g, Len(g)) + 1
  <2>1. k \in 0 .. Len(h) /\ Len(h) \in 0 .. Len(h)
    BY <1>1, <1>3
  <2>2. Up(g, k) = Up(h, Len(h)) /\ Up(h, Len(h)) \in Int
    BY <1>4, <2>1
  <2> QED BY <1>5, <2>2
<1>8. ASSUME NEW j \in k .. Len(g) - 1 PROVE Up(g, j) > Up(g, Len(g))
  <2>1. j \in k .. Len(h) /\ j \in 0 .. Len(h) /\ Len(h) \in 0 .. Len(h)
    BY <1>1, <1>3
  <2>2. Up(h, j) >= Up(h, Len(h)) /\ Up(g, j) = Up(h, j) /\ Up(h, j) \in Int /\ Up(h, Len(h)) \in Int
    BY <1>4, <2>1
  <2> QED BY <1>5, <2>2
<1>9. Opening(g, s, Len(g)) = k
  BY <1>1, <1>2, <1>3, <1>6, <1>7, <1>8, OpeningIs
<1> QED BY <1>6, <1>9 DEF IsCall

LEMMA CallEndLegal ==
  ASSUME LegalInv, TreeInv', CallEnd
  PROVE  LegalInv'
<1> DEFINE h == History
           g == History'
           s == Begun
           returns == Returns
<1>1. /\ at = "call_end" /\ InExpression /\ Awaits(Last(stack)) = 11 /\ h[Len(h)] = "L_PAREN"
      /\ Len(h) = Len(taken)
  <2>1. at = "call_end" /\ TreeInv /\ InExpression
    BY DEF CallEnd, LegalInv, InExpression
  <2>2. Len(h) = Len(taken)
    BY <2>1, ExpressionFacts
  <2> QED BY <2>1, <2>2 DEF TreeInv, NodeFits
<1>2. /\ h \in Texts /\ returns \in BOOLEAN /\ Statements(h, s, returns) /\ IsCall(h, Len(h))
      /\ Takes(h, ahead.type) <=> TakesInBody(h, ahead.type)
  BY <1>1, ExpressionFacts DEF Continues
<1>3. Takes(h, ahead.type) <=> ahead.type = "R_PAREN"
  <2> HIDE DEF h, s, returns
  <2> QED BY <1>1, <1>2, LegalElsewhere
<1>4. CASE ahead.type = "R_PAREN" /\ Take /\ GoTo("returned") /\ node' = [node EXCEPT !.to = Here]
           /\ stack' = stack
  <2>1. at' = "returned" /\ outcome' = outcome /\ InExpression'
    BY <1>4 DEF GoTo, InExpression
  <2>2. Longer(h, g, "R_PAREN") /\ Len(g) = Len(taken')
    BY <1>4, TakeFacts
  <2>3. Begun' = s /\ Takes(History, ahead.type) /\ ahead.type \in Inner
    BY <1>3, <1>4 DEF Begun, Inner, EndsOperand
  <2>4. Opening(g, s, Len(g)) = Len(h) /\ IsCall(g, Len(h))
    <3> HIDE DEF h, g, s, returns
    <3>1. s \in 1 .. Len(h) /\ Len(h) \in Nat
      BY <1>2, StatementFacts
    <3>2. Len(h) \in s .. Len(h) /\ \A j \in Len(h) .. Len(h) : j = Len(h)
      BY <3>1
    <3>3. Up(h, Len(h)) \in Int
      BY <3>1, UpFacts
    <3>4. \A j \in Len(h) .. Len(h) : Up(h, j) >= Up(h, Len(h))
      BY <3>2, <3>3
    <3>5. PICK k \in s .. Len(h) : k = Len(h)
      BY <3>2
    <3>6. h[k] = "L_PAREN" /\ Up(h, k) = Up(h, Len(h)) /\ \A j \in k .. Len(h) : Up(h, j) >= Up(h, Len(h))
      BY <1>1, <3>4, <3>5
    <3>7. Opening(g, s, Len(g)) = k /\ (IsCall(g, k) <=> IsCall(h, k))
      BY <1>2, <2>2, <3>6, ClosesBehind
    <3> QED BY <1>2, <3>5, <3>7
  <2>5. NoCall(g, s, ahead'.type)
    BY <2>2, <2>4 DEF NoCall, Longer
  <2>6. NoOperator(g, s, ahead'.type) \/ Level(ahead'.type) < Awaits(Last(stack'))
    BY <1>1, <1>4, TightestGoesOn DEF NoOperator
  <2>7. node' # Absent
    <3>1. node \in [from : Nat, to : Nat] /\ Here # 0
      <4>1. ParserInv /\ Here = Len(taken) + 1 /\ Len(taken) \in Nat
        BY <1>1, ExpressionFacts
      <4> QED BY <4>1 DEF ParserInv, NodeOK
    <3>2. node'.to = Here
      BY <1>4, <3>1
    <3> QED BY <3>1, <3>2 DEF Absent
  <2>8. Continues'
    BY <2>1, <2>3, <2>5, <2>6, <2>7 DEF Continues
  <2> QED BY <1>1, <1>4, <2>1, <2>3, <2>8, GoesOn
<1>5. CASE ahead.type # "R_PAREN"
  BY <1>3, <1>5, UnexpectedLegal DEF CallEnd
<1> QED BY <1>4, <1>5 DEF CallEnd

(* A group that has read its expression.                                   *)
LEMMA GroupStands ==
  ASSUME LegalInv, at = "group_end", NEW k, k = Last(stack).from
  PROVE  /\ History[k] = "L_PAREN" /\ k \in Begun .. Len(taken) /\ k \in Nat
         /\ ~IsCall(History, k) /\ Up(History, k) = Up(History, Len(taken))
         /\ \A j \in k .. Len(taken) : Up(History, j) >= Up(History, Len(taken))
         /\ Up(History, Len(taken)) > Up(History, Begun)
         /\ Last(stack).rule = "group" /\ Len(stack) \in 1 .. Len(stack)
<1> DEFINE h == History
           n == Len(stack)
<1>1. /\ InExpression /\ Returning /\ TreeInv /\ Last(stack).rule = "group"
  <2>1. TreeInv /\ ParserInv
    BY DEF LegalInv, TreeInv
  <2> QED BY <2>1 DEF InExpression, Returning, TreeInv, NodeFits, ParserInv, StackOK
<1>2. /\ h \in Texts /\ Len(h) = Len(taken) /\ Len(taken) \in Nat /\ Standing(h, stack)
      /\ Begun = stack[1].from - 1
  BY <1>1, ExpressionFacts DEF Begun
<1>3. /\ node.from \in Nat /\ node.to = Len(taken) /\ node.to \in Nat
      /\ Expression(h, node.from, node.to, Awaits(Last(stack)))
      /\ StartsAt(stack, n, node.from)
  BY <1>1, NodeFacts
<1>4. Last(stack) = stack[n] /\ n \in 1 .. Len(stack) /\ stack[1].from \in Nat /\ k \in Nat
      /\ CallText(h, stack[n])
  <2>1. Last(stack) = stack[n]
    BY Zenon DEF Last
  <2> HIDE DEF h
  <2>2. n \in Nat /\ n >= 1
    BY <1>2, StandingFacts
  <2>3. n \in 1 .. Len(stack) /\ 1 \in 1 .. Len(stack)
    BY <2>2
  <2> QED BY <1>2, <2>1, <2>3, StandingFacts DEF CallFits
<1> HIDE DEF h, n
<1>5. node.from = k + 1
  <2>1. ~Plain(Last(stack)) /\ CallsOK(stack, Len(h))
    BY <1>1, <1>2 DEF Plain, Standing
  <2>2. node.from = Begin(Last(stack))
    BY <1>2, <1>3, <2>1, LastStarts DEF n
  <2>3. Last(stack).op = 0
    <3>1. CallOK(stack[n], n = 1, Len(h))
      BY <1>2, <1>4, StandingFacts
    <3> QED BY <1>1, <1>4, <3>1 DEF CallOK
  <2> QED BY <1>1, <2>2, <2>3 DEF Begin
<1>6. Deep(h, stack, n, node.from)
  BY <1>2, <1>3, <1>4, DeepFacts
<1>7. k >= stack[1].from - 1 /\ Up(h, k) > Up(h, stack[1].from - 1)
  <2>1. node.from >= stack[1].from /\ node.from - 1 = k
    BY <1>4, <1>5, <1>6 DEF Deep
  <2>2. n \in 1 .. n
    BY <1>4 DEF n
  <2>3. Up(h, node.from - 1) > Up(h, stack[1].from - 1)
    BY <1>1, <1>4, <1>6, <2>2 DEF Deep
  <2> QED BY <1>3, <1>4, <2>1, <2>3
<1>8. /\ 1 <= node.from /\ node.from <= Len(taken)
      /\ \A j \in node.from - 1 .. Len(taken) : Up(h, j) >= Up(h, node.from - 1)
      /\ Up(h, Len(taken)) = Up(h, node.from - 1)
  BY <1>2, <1>3, ExpressionTypes
<1>9. /\ Up(h, k) = Up(h, Len(taken)) /\ k \in stack[1].from - 1 .. Len(taken)
      /\ \A j \in k .. Len(taken) : Up(h, j) >= Up(h, Len(taken))
      /\ h[k] = "L_PAREN"
  <2>1. node.from - 1 = k
    BY <1>4, <1>5
  <2>2. h[k] = "L_PAREN"
    BY <1>1, <1>4 DEF CallText
  <2> QED BY <1>2, <1>4, <1>5, <1>7, <1>8, <2>1, <2>2
<1>10. ~IsCall(h, k)
  BY <1>1, <1>2, <1>4, GroupNoCall
<1> QED BY <1>1, <1>2, <1>4, <1>7, <1>9, <1>10 DEF h, n

(* The call at the bottom stays when another one returns.                  *)
LEMMA FrontFirst ==
  ASSUME LegalInv, InExpression, Last(stack).rule \notin {"return", "body"}
  PROVE  /\ Front(stack) \in Seq(Frames) /\ Len(Front(stack)) >= 1
         /\ Front(stack)[1] = stack[1]
<1> DEFINE rest == Front(stack)
<1>1. Below(History, built, stack, rest, Len(taken))
  BY BelowFacts DEF LegalInv
<1> HIDE DEF rest
<1>2. rest \in Seq(Frames) /\ Len(rest) >= 1
  BY <1>1 DEF Below, CallsOK
<1>3. 1 \in 1 .. Len(rest)
  BY <1>2
<1>4. rest[1] = stack[1]
  BY <1>1, <1>3 DEF Below
<1> QED BY <1>2, <1>4 DEF rest

LEMMA GroupEndLegal ==
  ASSUME LegalInv, TreeInv', GroupEnd
  PROVE  LegalInv'
<1> DEFINE h == History
           g == History'
           s == Begun
           k == Last(stack).from
<1>1. at = "group_end" /\ InExpression /\ node # Absent
  <2>1. at = "group_end" /\ TreeInv
    BY DEF GroupEnd, LegalInv
  <2> QED BY <2>1 DEF TreeInv, NodeFits, InExpression
<1>2. /\ h[k] = "L_PAREN" /\ k \in s .. Len(taken) /\ k \in Nat
      /\ ~IsCall(h, k) /\ Up(h, k) = Up(h, Len(taken))
      /\ \A j \in k .. Len(taken) : Up(h, j) >= Up(h, Len(taken))
      /\ Up(h, Len(taken)) > Up(h, s)
      /\ Last(stack).rule = "group" /\ Len(stack) \in 1 .. Len(stack)
  BY <1>1, GroupStands
<1>3. /\ h \in Texts /\ Len(h) = Len(taken) /\ Returns \in BOOLEAN /\ Statements(h, s, Returns)
      /\ NoCall(h, s, ahead.type) /\ NoOperator(h, s, ahead.type)
  BY <1>1, ExpressionFacts DEF Continues
<1>4. Takes(h, ahead.type) <=> ahead.type = "R_PAREN"
  <2>1. Up(h, s) \in Int
    <3>1. s \in Nat
      BY <1>3, StatementFacts
    <3> QED BY <3>1, UpFacts
  <2>2. ~(Up(h, Len(taken)) = Up(h, s))
    BY <1>2, <2>1
  <2>3. ahead.type \in BinaryOperator => Repeats(h, s, ahead.type)
    BY <1>3 DEF NoOperator
  <2> QED BY <1>1, <1>2, <1>3, <2>2, <2>3, BehindOperand
<1>5. CASE /\ ahead.type = "R_PAREN" /\ Take /\ GoTo("postfix")
           /\ stack' = Front(stack)
  <2>1. at' = "postfix" /\ outcome' = outcome /\ InExpression'
    BY <1>5 DEF GoTo, InExpression
  <2>2. Longer(h, g, "R_PAREN") /\ Len(g) = Len(taken')
    BY <1>5, TakeFacts
  <2>3. stack'[1] = stack[1] /\ Begun' = s
    BY <1>1, <1>2, <1>5, FrontFirst DEF Begun
  <2>4. Takes(History, ahead.type) /\ ahead.type \in Inner
    BY <1>4, <1>5 DEF Inner, EndsOperand
  <2>5. Opening(g, s, Len(g)) = k /\ ~IsCall(g, k)
    <3> DEFINE returns == Returns
    <3>1. returns \in BOOLEAN /\ Statements(h, s, returns)
      BY <1>3
    <3> HIDE DEF h, g, s, k, returns
    <3>2. /\ k \in s .. Len(h) /\ h[k] = "L_PAREN" /\ Up(h, k) = Up(h, Len(h))
          /\ \A j \in k .. Len(h) : Up(h, j) >= Up(h, Len(h))
      BY <1>2, <1>3
    <3>3. Opening(g, s, Len(g)) = k /\ (IsCall(g, k) <=> IsCall(h, k))
      BY <1>3, <2>2, <3>1, <3>2, ClosesBehind, SMTT(20)
    <3> QED BY <1>2, <3>3
  <2>6. Continues'
    BY <2>1, <2>2, <2>3, <2>5 DEF Continues
  <2> QED BY <1>1, <1>5, <2>1, <2>3, <2>4, <2>6, GoesOn
<1>6. CASE ahead.type # "R_PAREN"
  BY <1>4, <1>6, UnexpectedLegal DEF GroupEnd
<1> QED BY <1>5, <1>6 DEF GroupEnd

-----------------------------------------------------------------------------
(* Expressions that return.                                                *)

(* No operand where one has to be.                                         *)
LEMMA MissingFails ==
  ASSUME LegalInv, TreeInv', at = "returned", node = Absent, Opened(Last(stack)), Fail("SyntaxError")
  PROVE  LegalInv'
<1>1. InExpression /\ ahead.type \notin StartsOperand
  <2>1. InExpression
    BY DEF InExpression
  <2> QED BY <2>1, ExpressionFacts DEF Continues
<1>2. ~Takes(History, ahead.type)
  BY <1>1, OperandAhead
<1> QED BY <1>2, FailLegal

(* An expression is returned to the call below.                            *)
LEMMA ReturnLegal ==
  ASSUME LegalInv, TreeInv', at = "returned", node # Absent, Stay, Pop, GoTo("returned"),
         NEW call, call = Last(stack), call.rule \in {"level", "unary"}, node'.to = node.to,
         NoOperator(History, Begun, ahead.type) \/ Level(ahead.type) < Yields(call)
  PROVE  LegalInv'
<1>1. /\ InExpression /\ InExpression' /\ at' = "returned" /\ outcome' = outcome
      /\ stack' = Front(stack)
  BY DEF InExpression, GoTo, Pop
<1>2. stack'[1] = stack[1]
  BY <1>1, FrontFirst
<1>3. Awaits(Last(stack')) = Yields(call) /\ node'.to # 0
  <2>1. /\ Below(History, built, stack, Front(stack), Len(taken))
        /\ node.to \in Nat /\ 1 <= node.from /\ node.from <= node.to /\ node.from \in Nat
    BY CallFacts DEF LegalInv
  <2> QED BY <1>1, <2>1 DEF Below
<1>4. NoCall(History, Begun, ahead.type)
  BY <1>1, ExpressionFacts DEF Continues
<1>5. Continues'
  <2>1. node' # Absent
    BY <1>3 DEF Absent
  <2>2. Begun' = Begun /\ History' = History /\ ahead' = ahead
    BY <1>2, StayFacts DEF Begun
  <2> QED BY <1>1, <1>3, <1>4, <2>1, <2>2 DEF Continues
<1> QED BY <1>1, <1>2, <1>5, GoesOn

LEMMA ReturnedToUnaryLegal ==
  ASSUME LegalInv, TreeInv', ReturnedToUnary
  PROVE  LegalInv'
<1> DEFINE call == Last(stack)
<1>1. at = "returned" /\ call.rule = "unary"
  BY DEF ReturnedToUnary, Returned
<1>2. CASE node = Absent
  <2>1. Fail("SyntaxError") /\ Opened(Last(stack))
    BY <1>1, <1>2 DEF ReturnedToUnary, Opened
  <2> QED BY <1>1, <1>2, <2>1, MissingFails
<1>3. CASE node # Absent
  <2>1. /\ Stay /\ Pop /\ GoTo("returned")
        /\ node' = [from |-> Last(stack).from, to |-> node.to]
    BY <1>3 DEF ReturnedToUnary
  <2>2. Yields(call) = 11
    BY <1>1 DEF Yields
  <2>3. NoOperator(History, Begun, ahead.type) \/ Level(ahead.type) < Yields(call)
    BY <2>2, TightestGoesOn DEF NoOperator
  <2>4. node'.to = node.to
    BY <2>1
  <2> HIDE DEF call
  <2>5. call.rule \in {"level", "unary"} /\ call = Last(stack)
    BY <1>1 DEF call
  <2> QED BY <1>1, <1>3, <2>1, <2>3, <2>4, <2>5, ReturnLegal
<1> QED BY <1>2, <1>3

(* An operator that a level goes on with may come next.                    *)
LEMMA OperatorLegal ==
  ASSUME LegalInv, at = "returned", node # Absent, NEW call, call = Last(stack),
         call.rule = "level", OperatorAhead(call)
  PROVE  Takes(History, ahead.type) /\ ahead.type \in Inner
<1> DEFINE h == History
           type == ahead.type
           level == call.level
           from == node.from
<1>1. /\ InExpression /\ h \in Texts /\ Len(h) = Len(taken) /\ Len(taken) \in Nat
      /\ from \in Nat /\ node.to = Len(taken) /\ Expression(h, from, node.to, Awaits(call))
      /\ StartsAt(stack, Len(stack), from) /\ CallOK(call, Len(stack) = 1, Len(taken))
      /\ call = stack[Len(stack)] /\ call \in Frames
  BY CallFacts DEF LegalInv
<1>2. level \in 1 .. 10
  BY <1>1 DEF CallOK, Frames
<1>3. type \in Operators[level] /\ (call.op = 0 \/ Chains(level))
  BY DEF OperatorAhead
<1>4. /\ Standing(h, stack) /\ Returns \in BOOLEAN /\ Statements(h, Begun, Returns)
      /\ Begun = stack[1].from - 1
  BY <1>1, ExpressionFacts DEF Begun
<1>5. type \in BinaryOperator /\ Awaits(call) = level + 1
  BY <1>2, <1>3, OperatorFacts DEF Awaits
<1>6. ~Repeats(h, Begun, type)
  <2>1. CASE Chains(level)
    <3>1. type \in ArithmeticOperator
      BY <1>2, <1>3, <2>1, ChainFacts
    <3> QED BY <3>1, Zenon DEF Repeats, ArithmeticOperator
  <2>2. CASE call.op = 0
    <3>1. Plain(call) /\ Expression(h, from, Len(h), level + 1)
      BY <1>1, <1>5, <2>2 DEF Plain
    <3> HIDE DEF h, type, from
    <3>2. ~Repeats(h, stack[1].from - 1, type)
      BY <1>1, <1>3, <1>4, <3>1, NotRepeated
    <3> QED BY <1>4, <3>2
  <2> QED BY <1>3, <2>1, <2>2
<1>7. Takes(h, type)
  BY <1>5, <1>6, BehindOperand
<1> QED BY <1>5, <1>7 DEF Inner

(* An operator that a level does not go on with is left to the looser ones *)
(* or may not follow.                                                      *)
LEMMA OperatorRefused ==
  ASSUME LegalInv, at = "returned", node # Absent, NEW call, call = Last(stack),
         call.rule = "level", ~OperatorAhead(call)
  PROVE  NoOperator(History, Begun, ahead.type) \/ Level(ahead.type) < Yields(call)
<1> DEFINE h == History
           type == ahead.type
           level == call.level
           from == node.from
           s == Begun
           returns == Returns
           op == call.op
<1>1. /\ InExpression /\ h \in Texts /\ Len(h) = Len(taken) /\ Len(taken) \in Nat
      /\ from \in Nat /\ node.to = Len(taken) /\ Expression(h, from, node.to, Awaits(call))
      /\ StartsAt(stack, Len(stack), from) /\ CallOK(call, Len(stack) = 1, Len(taken))
      /\ call = stack[Len(stack)] /\ call \in Frames /\ CallText(h, call)
      /\ Len(stack) \in 1 .. Len(stack) /\ CallsOK(stack, Len(taken))
  BY CallFacts DEF LegalInv
<1>2. level \in 1 .. 10 /\ op \in Nat /\ call.from \in Nat
  BY <1>1 DEF CallOK, Frames
<1>3. /\ Standing(h, stack) /\ returns \in BOOLEAN /\ Statements(h, s, returns)
      /\ s = stack[1].from - 1
      /\ NoOperator(h, s, type) \/ Level(type) < Awaits(call)
  BY <1>1, ExpressionFacts DEF Begun, Continues
<1>4. Awaits(call) = level + 1 /\ Yields(call) = level
  BY DEF Awaits, Yields
<1>5. type \in Operators[level] => op # 0 /\ ~Chains(level)
  BY DEF OperatorAhead
<1> HIDE DEF h, type, level, from, s, returns, op
<1>6. SUFFICES ASSUME ~NoOperator(h, s, type) PROVE Level(type) < level
  BY <1>4 DEF h, s, type, level
<1>7. type \in BinaryOperator /\ ~Repeats(h, s, type)
  BY <1>6 DEF NoOperator
<1>8. Level(type) \in 1 .. 10 /\ type \in Operators[Level(type)]
  BY <1>7, OperatorFacts
<1>9. Level(type) # level
  <2> SUFFICES ASSUME Level(type) = level PROVE FALSE
    OBVIOUS
  <2>1. type \in Operators[level] /\ op # 0 /\ ~Chains(level)
    BY <1>5, <1>8
  <2>2. Expression(h, call.from, op - 1, level) /\ h[op] \in Operators[level]
    BY <1>1, <2>1 DEF CallText, op, level
  <2>3. from = op + 1
    <3>1. ~Plain(Last(stack)) /\ Begin(call) = op + 1
      BY <2>1 DEF Plain, Begin, op
    <3>2. from = Begin(Last(stack))
      BY <1>1, <3>1, LastStarts
    <3> QED BY <3>1, <3>2
  <2>4. Expression(h, op + 1, Len(h), level + 1)
    BY <1>1, <1>4, <2>3
  <2>5. op >= s
    <3>1. Deep(h, stack, Len(stack), from)
      BY <1>1, <1>3, DeepFacts
    <3>2. from >= stack[1].from
      BY <3>1 DEF Deep
    <3>3. stack[1].from \in Nat
      <4>1. 1 \in 1 .. Len(stack)
        BY <1>1
      <4> QED BY <1>1, <1>3, <4>1, StandingFacts
    <3> QED BY <1>2, <1>3, <2>3, <3>2, <3>3
  <2>6. Repeats(h, s, type)
    BY <1>1, <1>2, <1>3, <2>1, <2>2, <2>4, <2>5, Repeated
  <2> QED BY <1>7, <2>6
<1> QED BY <1>2, <1>3, <1>4, <1>6, <1>8, <1>9

LEMMA ReturnedToLevelLegal ==
  ASSUME LegalInv, TreeInv', ReturnedToLevel
  PROVE  LegalInv'
<1> DEFINE call == Last(stack)
<1>1. at = "returned" /\ call.rule = "level" /\ InExpression
  BY DEF ReturnedToLevel, Returned, InExpression
<1>2. CASE node = Absent /\ call.op # 0 /\ Fail("SyntaxError")
  <2>1. Opened(Last(stack))
    BY <1>2 DEF Opened
  <2> QED BY <1>1, <1>2, <2>1, MissingFails
<1>3. CASE node = Absent /\ call.op = 0 /\ Pop /\ Stay /\ GoTo("returned") /\ node' = node
  <2>1. at' = "returned" /\ outcome' = outcome /\ InExpression' /\ stack' = Front(stack)
    BY <1>3 DEF GoTo, InExpression, Pop
  <2>2. stack'[1] = stack[1]
    BY <1>1, <2>1, FrontFirst
  <2>3. /\ StartsAt(stack, Len(stack), Here) /\ (stack[1].from = Here => ahead.type # Instead)
        /\ ahead.type \notin StartsOperand
    BY <1>1, <1>3, ExpressionFacts DEF Continues
  <2>4. StartsAt(stack', Len(stack'), Here)
    <3>1. Plain(Last(stack))
      BY <1>1, <1>3 DEF Plain
    <3>2. Below(History, built, stack, Front(stack), Len(taken))
      BY <1>1, BelowFacts DEF LegalInv
    <3> QED BY <2>1, <2>3, <3>1, <3>2 DEF Below
  <2>5. Here' = Here /\ ahead' = ahead /\ Instead' = Instead
    BY <1>3, <2>2, StayFacts DEF Instead, Returns
  <2>6. Continues'
    BY <1>3, <2>1, <2>2, <2>3, <2>4, <2>5 DEF Continues
  <2> QED BY <1>1, <1>3, <2>1, <2>2, <2>6, GoesOn
<1>4. CASE node # Absent /\ node' = Combined(call) /\ OperatorAhead(call) /\ NextOperand(call)
  <2> DEFINE next == [call EXCEPT !.op = Here, !.from = Combined(call).from]
             calls == Append(Front(stack), next)
  <2>1. Take /\ Call(calls, call.level + 1)
    BY <1>4 DEF NextOperand
  <2>2. at' = "operand" /\ outcome' = outcome
    BY <2>1 DEF Call, GoTo
  <2>3. Front(stack) \in Seq(Frames) /\ Len(Front(stack)) >= 1 /\ Front(stack)[1] = stack[1]
    BY <1>1, FrontFirst
  <2>4. next \in Frames /\ call.level + 1 \in 1 .. 11
    <3>1. ParserInv /\ call \in Frames /\ CallOK(call, Len(stack) = 1, Len(taken))
      BY <1>1, <1>4, CallFacts DEF LegalInv
    <3>2. Here \in Nat
      BY <1>1, ExpressionFacts
    <3>3. Combined(call).from \in Nat
      <4>1. Combined(call) \in [from : Nat, to : Nat]
        BY <1>1, <1>4, <3>1, CombinedFacts
      <4> QED BY <4>1
    <3>4. next \in Frames
      BY <3>1, <3>2, <3>3 DEF Frames
    <3>5. call.level \in 1 .. 10
      BY <1>1, <3>1 DEF CallOK, Frames
    <3> QED BY <3>4, <3>5
  <2> HIDE DEF next
  <2>5. calls \in Seq(Frames) /\ Len(calls) >= 1 /\ calls[1] = stack[1]
    BY <2>3, <2>4
  <2> HIDE DEF calls
  <2>6. stack'[1] = stack[1]
    BY <2>1, <2>4, <2>5, CallFirst
  <2>7. Takes(History, ahead.type) /\ ahead.type \in Inner
    BY <1>1, <1>4, OperatorLegal
  <2> QED BY <1>1, <2>1, <2>2, <2>6, <2>7, GoesToOperand
<1>5. CASE /\ node # Absent /\ node' = Combined(call) /\ ~OperatorAhead(call)
           /\ Pop /\ Stay /\ GoTo("returned")
  <2>1. node'.to = node.to
    BY <1>5 DEF Combined
  <2>2. NoOperator(History, Begun, ahead.type) \/ Level(ahead.type) < Yields(call)
    BY <1>1, <1>5, OperatorRefused
  <2> QED BY <1>1, <1>5, <2>1, <2>2, ReturnLegal
<1> QED BY <1>2, <1>3, <1>4, <1>5, Zenon DEF ReturnedToLevel

(* A whole expression: no operator may follow.                             *)
LEMMA NothingLooser ==
  ASSUME LegalInv, at = "returned", node # Absent, Awaits(Last(stack)) = 1
  PROVE  NoOperator(History, Begun, ahead.type)
<1>1. NoOperator(History, Begun, ahead.type) \/ Level(ahead.type) < 1
  <2>1. InExpression
    BY DEF InExpression
  <2> QED BY <2>1, ExpressionFacts DEF Continues
<1>2. ahead.type \in BinaryOperator => Level(ahead.type) \in 1 .. 10
  BY OperatorFacts
<1> QED BY <1>1, <1>2 DEF NoOperator

LEMMA ReturnedToGroupLegal ==
  ASSUME LegalInv, TreeInv', ReturnedToGroup
  PROVE  LegalInv'
<1>1. at = "returned" /\ Last(stack).rule = "group" /\ InExpression
  BY DEF ReturnedToGroup, Returned, InExpression
<1>2. CASE node = Absent
  <2>1. Fail("SyntaxError") /\ Opened(Last(stack))
    BY <1>1, <1>2 DEF ReturnedToGroup, Opened
  <2> QED BY <1>1, <1>2, <2>1, MissingFails
<1>3. CASE node # Absent
  <2>1. /\ at' = "group_end" /\ outcome' = outcome /\ InExpression' /\ Stay /\ stack' = stack
    BY <1>3 DEF ReturnedToGroup, GoTo, InExpression
  <2>2. NoOperator(History, Begun, ahead.type)
    BY <1>1, <1>3, NothingLooser DEF Awaits
  <2>3. NoCall(History, Begun, ahead.type)
    BY <1>1, <1>3, ExpressionFacts DEF Continues
  <2>4. Begun' = Begun /\ History' = History /\ ahead' = ahead
    BY <2>1, StayFacts DEF Begun
  <2>5. Continues'
    BY <2>1, <2>2, <2>3, <2>4 DEF Continues
  <2> QED BY <1>1, <2>1, <2>5, GoesOn
<1> QED BY <1>2, <1>3

(* The expression of a statement is back.                                  *)
LEMMA StatementReturned ==
  ASSUME LegalInv, at = "returned", Last(stack).rule \in {"return", "body"},
         NEW returns \in BOOLEAN, returns <=> Last(stack).rule = "return"
  PROVE  /\ InBraces(History) /\ Statements(History, Begun, returns)
         /\ node = Absent => /\ History[Len(taken)] \in Opener(returns)
                             /\ ahead.type \notin StartsOperand
                             /\ ahead.type # IF returns THEN "SEMICOLON" ELSE "KEYWORD_RETURN"
         /\ node # Absent => Complete(History, Begun, ahead.type)
<1> DEFINE h == History
           s == Begun
<1>1. /\ InExpression /\ TreeInv /\ h \in Texts /\ Len(h) = Len(taken) /\ Len(taken) \in Nat
      /\ Here = Len(taken) + 1 /\ Standing(h, stack) /\ InBraces(h)
      /\ Statements(h, s, Returns) /\ Continues /\ s = stack[1].from - 1
  <2>1. InExpression /\ TreeInv
    BY DEF InExpression, LegalInv
  <2> QED BY <2>1, ExpressionFacts DEF Begun
<1> HIDE DEF h
<1>2. Len(stack) = 1 /\ Last(stack) = stack[1] /\ stack[1].op = 0 /\ stack[1].from \in Nat
  <2>1. Last(stack) = stack[Len(stack)]
    BY Zenon DEF Last
  <2>2. Len(stack) \in Nat /\ Len(stack) >= 1
    BY <1>1, StandingFacts
  <2>3. Len(stack) \in 1 .. Len(stack)
    BY <2>2
  <2>4. /\ CallOK(stack[Len(stack)], Len(stack) = 1, Len(h)) /\ stack[Len(stack)].from \in Nat
    BY <1>1, <2>3, StandingFacts
  <2>5. Len(stack) = 1
    BY <2>1, <2>4 DEF CallOK
  <2> QED BY <2>1, <2>4, <2>5 DEF CallOK
<1>3. Returns = returns
  BY <1>2 DEF Returns
<1>4. Awaits(Last(stack)) = 1 /\ ~Plain(Last(stack)) /\ Begin(Last(stack)) = stack[1].from
  BY <1>2 DEF Awaits, Plain, Begin
<1>5. CallsOK(stack, Len(h))
  BY <1>1 DEF Standing
<1>6. ASSUME node = Absent
      PROVE  /\ h[Len(taken)] \in Opener(returns) /\ ahead.type \notin StartsOperand
             /\ ahead.type # IF returns THEN "SEMICOLON" ELSE "KEYWORD_RETURN"
  <2>1. /\ StartsAt(stack, Len(stack), Here) /\ (stack[1].from = Here => ahead.type # Instead)
        /\ ahead.type \notin StartsOperand
    BY <1>1, <1>6 DEF Continues
  <2>2. Here = stack[1].from
    BY <1>4, <1>5, <2>1, LastStarts
  <2>3. s = Len(taken)
    BY <1>1, <2>2
  <2>4. h[s] \in Opener(returns)
    BY <1>1, <1>3 DEF Statements
  <2> QED BY <1>3, <2>1, <2>2, <2>3, <2>4 DEF Instead
<1>7. ASSUME node # Absent PROVE Complete(h, s, ahead.type)
  <2>1. h[Len(h)] \in EndsOperand
    BY <1>1, <1>7, BehindOperand DEF h
  <2>2. NoCall(h, s, ahead.type) /\ NoOperator(h, s, ahead.type)
    BY <1>1, <1>4, <1>7, NothingLooser DEF Continues, h
  <2>3. /\ node.from \in Nat /\ node.to = Len(taken) /\ node.to \in Nat
        /\ Expression(h, node.from, node.to, 1) /\ StartsAt(stack, Len(stack), node.from)
    <3>1. Returning /\ at # "call_end"
      BY <1>7 DEF Returning
    <3> QED BY <1>1, <1>4, <3>1, NodeFacts DEF h
  <2>4. Up(h, Len(h)) = Up(h, node.from - 1)
    BY <1>1, <2>3, ExpressionTypes
  <2>5. Up(h, node.from - 1) = Up(h, s)
    <3>1. 1 \in 1 .. Len(stack) /\ Len(stack) \in 1 .. Len(stack) /\ \A k \in 1 .. Len(stack) : k = 1
      BY <1>2
    <3>2. Deep(h, stack, Len(stack), node.from)
      BY <1>1, <2>3, <3>1, DeepFacts
    <3>3. \A k \in 1 .. Len(stack) : stack[k].rule # "group"
      BY <1>2, <3>1
    <3> QED BY <1>1, <3>2, <3>3 DEF Deep
  <2> QED BY <2>1, <2>2, <2>4, <2>5 DEF Complete
<1> QED BY <1>1, <1>3, <1>6, <1>7 DEF h

LEMMA ReturnedToReturnLegal ==
  ASSUME LegalInv, TreeInv', ReturnedToReturn
  PROVE  LegalInv'
<1>1. /\ at = "returned" /\ at # "ended" /\ Last(stack).rule = "return" /\ outcome = "parsing"
      /\ History \in Texts /\ Len(History) = Len(taken)
  BY OutsideFacts DEF ReturnedToReturn, Returned
<1>2. /\ InBraces(History) /\ Statements(History, Begun, TRUE)
      /\ node = Absent => /\ History[Len(taken)] \in Opener(TRUE)
                          /\ ahead.type \notin StartsOperand /\ ahead.type # "SEMICOLON"
      /\ node # Absent => Complete(History, Begun, ahead.type)
  BY <1>1, StatementReturned
<1>3. CASE node = Absent
  <2>1. History[Len(History)] = "KEYWORD_RETURN"
    BY <1>1, <1>2, <1>3 DEF Opener
  <2>2. Takes(History, ahead.type) <=> ahead.type \in StartsOperand \cup {"SEMICOLON"}
    BY <1>1, <1>2, <2>1, LegalParts, LegalAtBeginning
  <2> QED BY <1>2, <1>3, <2>2, FailLegal DEF ReturnedToReturn
<1>4. CASE node # Absent
  <2>1. at' = "return_end" /\ outcome' = "parsing" /\ Stay
    BY <1>1, <1>4 DEF ReturnedToReturn, GoTo
  <2>2. Begun \in 1 .. Len(taken)
    BY <1>1, <1>2 DEF Statements
  <2>3. History' = History /\ ahead' = ahead /\ taken' = taken
    BY <2>1, StayFacts
  <2>4. BodyEnds'
    BY <1>2, <1>4, <2>1, <2>2, <2>3 DEF BodyEnds
  <2>5. HeadEnds' /\ TopEnds' /\ ~InExpression'
    BY <2>1 DEF HeadEnds, HeadPlaces, TopEnds, InExpression
  <2> QED BY <1>1, <2>1, <2>4, <2>5, GoesOutside
<1> QED BY <1>3, <1>4

LEMMA ReturnedToBodyLegal ==
  ASSUME LegalInv, TreeInv', ReturnedToBody
  PROVE  LegalInv'
<1>1. /\ at = "returned" /\ at # "ended" /\ Last(stack).rule = "body" /\ outcome = "parsing"
      /\ History \in Texts /\ Len(History) = Len(taken)
  BY OutsideFacts DEF ReturnedToBody, Returned
<1>2. /\ InBraces(History) /\ Statements(History, Begun, FALSE)
      /\ node = Absent => /\ History[Len(taken)] \in Opener(FALSE)
                          /\ ahead.type \notin StartsOperand /\ ahead.type # "KEYWORD_RETURN"
      /\ node # Absent => Complete(History, Begun, ahead.type)
  BY <1>1, StatementReturned
<1>3. at' = "close" /\ outcome' = "parsing" /\ Stay
  BY <1>1 DEF ReturnedToBody, GoTo
<1>4. Begun \in 1 .. Len(taken)
  BY <1>1, <1>2 DEF Statements
<1>5. History' = History /\ ahead' = ahead /\ taken' = taken
  BY <1>3, StayFacts
<1>6. BodyEnds'
  BY <1>2, <1>3, <1>4, <1>5 DEF BodyEnds
<1>7. HeadEnds' /\ TopEnds' /\ ~InExpression'
  BY <1>3 DEF HeadEnds, HeadPlaces, TopEnds, InExpression
<1> QED BY <1>1, <1>3, <1>6, <1>7, GoesOutside

-----------------------------------------------------------------------------
(* The language that is accepted.                                          *)

LEMMA LegalInit == Init => LegalInv
<1> SUFFICES ASSUME Init PROVE LegalInv
  OBVIOUS
<1>1. TreeInv
  BY TreeInit
<1>2. taken = <<>> /\ at = "top" /\ outcome = "parsing"
  BY DEF Init
<1>3. HeadEnds /\ TopEnds /\ BodyEnds /\ ExpressionEnds
  BY <1>2 DEF HeadEnds, HeadPlaces, TopEnds, BodyEnds, ExpressionEnds, InExpression
<1>4. ErrorsAtFirstIllegal
  BY <1>2 DEF ErrorsAtFirstIllegal
<1> QED BY <1>1, <1>2, <1>3, <1>4 DEF LegalInv

LEMMA LegalStep == LegalInv /\ [Next]_vars => LegalInv'
<1> SUFFICES ASSUME LegalInv, [Next]_vars PROVE LegalInv'
  OBVIOUS
<1>1. TreeInv'
  BY TreeStep DEF LegalInv
<1>2. CASE UNCHANGED vars
  <2>1. UNCHANGED <<taken, ahead, at, stack, node, built, values, outcome>>
    BY <1>2 DEF vars
  <2>2. History' = History
    BY <2>1 DEF History
  <2>3. HeadEnds' /\ TopEnds' /\ BodyEnds'
    BY <2>1, <2>2 DEF LegalInv, HeadEnds, EndOfHead, TopEnds, BodyEnds
  <2>4. ExpressionEnds'
    BY <2>1, <2>2 DEF LegalInv, ExpressionEnds, Continues, InExpression, Begun, Returns, Instead, Here
  <2>5. ErrorsAtFirstIllegal'
    BY <2>1, <2>2 DEF LegalInv, ErrorsAtFirstIllegal
  <2> QED BY <1>1, <2>1, <2>3, <2>4, <2>5 DEF LegalInv
<1>3. CASE TopLevel
  BY <1>1, <1>3, TopLevelLegal
<1>4. CASE Arguments
  BY <1>1, <1>4, ArgumentsLegal
<1>5. CASE ReturnType
  BY <1>1, <1>5, ReturnTypeLegal
<1>6. CASE Expect
  BY <1>1, <1>6, ExpectLegal
<1>7. CASE Statement
  BY <1>1, <1>7, StatementLegal
<1>8. CASE ReturnValue
  BY <1>1, <1>8, ReturnValueLegal
<1>9. CASE Operand
  BY <1>1, <1>9, OperandLegal
<1>10. CASE Postfix
  BY <1>1, <1>10, PostfixLegal
<1>11. CASE CallEnd
  BY <1>1, <1>11, CallEndLegal
<1>12. CASE GroupEnd
  BY <1>1, <1>12, GroupEndLegal
<1>13. CASE ReturnedToUnary
  BY <1>1, <1>13, ReturnedToUnaryLegal
<1>14. CASE ReturnedToLevel
  BY <1>1, <1>14, ReturnedToLevelLegal
<1>15. CASE ReturnedToGroup
  BY <1>1, <1>15, ReturnedToGroupLegal
<1>16. CASE ReturnedToReturn
  BY <1>1, <1>16, ReturnedToReturnLegal
<1>17. CASE ReturnedToBody
  BY <1>1, <1>17, ReturnedToBodyLegal
<1>18. CASE Ended
  BY <1>2, <1>18 DEF Ended
<1> QED BY <1>2, <1>3, <1>4, <1>5, <1>6, <1>7, <1>8, <1>9, <1>10, <1>11, <1>12, <1>13, <1>14,
           <1>15, <1>16, <1>17, <1>18 DEF Next, Parse

(* In every state the place the parser is at tells how the text ends: what *)
(* the last tokens are, where the statement began, and which tokens have   *)
(* been refused since the last one was taken.                              *)
THEOREM LegalInvariant == Spec => []LegalInv
BY LegalInit, LegalStep, PTL DEF Spec

(* The parser takes a token exactly if the grammar, or the departure for a *)
(* list of arguments left open, lets it follow and the departures for      *)
(* repeated calls and operators do not forbid it; an error is raised at    *)
(* the first token that is not so: for programs of any length and nesting, *)
(* and for every set of tokens offered.                                    *)
THEOREM ErrorsAlwaysAtFirstIllegal == Spec => []ErrorsAtFirstIllegal
<1>1. LegalInv => ErrorsAtFirstIllegal
  BY DEF LegalInv
<1> QED BY <1>1, LegalInvariant, PTL
=============================================================================
