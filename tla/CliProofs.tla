----------------------------- MODULE CliProofs -----------------------------
(***************************************************************************)
(* Proofs about Cli: the parser goes along the tokens, what it has taken   *)
(* at any place is what they ask for up to there (Reading), and so how it  *)
(* ends and what the arguments have is what the whole line asks for.       *)
(***************************************************************************)
EXTENDS Cli, FiniteSetTheorems, SequenceTheorems, WellFoundedInduction, TLAPS

(* A set of numbers that is not empty has a least one.                     *)
LEMMA LeastNumber ==
  ASSUME NEW T, T \subseteq Nat, T # {}
  PROVE  \E x \in T : \A y \in T : x <= y
<1> DEFINE R == {pair \in Nat \X Nat : pair[1] < pair[2]}
<1>1. IsWellFoundedOn(R, Nat)
  BY NatLessThanWellFounded DEF OpToRel
<1>2. \A p, q \in Nat : p < q => <<p, q>> \in R
  OBVIOUS
<1> HIDE DEF R
<1>3. \E x \in T : \A y \in T : ~(<<y, x>> \in R)
  BY <1>1, WFMin
<1>4. PICK x \in T : \A y \in T : ~(<<y, x>> \in R)
  BY <1>3
<1>5. \A y \in T : ~(y < x)
  BY <1>2, <1>4
<1>6. \A y \in T : x <= y
  BY <1>5
<1> QED BY <1>6

LEMMA MinFacts ==
  ASSUME NEW T, T \subseteq Nat, T # {}
  PROVE  /\ Min(T) \in T
         /\ \A y \in T : Min(T) <= y
BY LeastNumber DEF Min

-----------------------------------------------------------------------------
(* Where the first of the arguments and of the pieces that are looked for  *)
(* is.                                                                     *)

LEMMA LongFacts ==
  ASSUME NEW name, NEW kind
  PROVE  \/ /\ find_long(name, kind) = 0
            /\ \A a \in Arg : ~(Args[a].kind = kind /\ Args[a].name = name)
         \/ /\ find_long(name, kind) \in Arg
            /\ Args[find_long(name, kind)].kind = kind
            /\ Args[find_long(name, kind)].name = name
<1> DEFINE T == {a \in 1 .. Len(Args) : Args[a].kind = kind /\ Args[a].name = name}
<1>1. Arg = 1 .. Len(Args)
  BY ArgsAssumption DEF Arg
<1>2. find_long(name, kind) = IF T # {} THEN Min(T) ELSE 0
  BY DEF find_long, SelectInSeq
<1>3. T \subseteq Nat
  OBVIOUS
<1>4. CASE T = {}
  BY <1>1, <1>2, <1>4
<1>5. CASE T # {}
  <2>1. Min(T) \in T
    BY <1>3, <1>5, MinFacts
  <2> QED BY <1>1, <1>2, <1>5, <2>1
<1> QED BY <1>4, <1>5

LEMMA ShortFacts ==
  ASSUME NEW c, NEW kind
  PROVE  \/ find_short(c, kind) = 0
         \/ /\ find_short(c, kind) \in Arg
            /\ Args[find_short(c, kind)].kind = kind
<1> DEFINE T == {a \in 1 .. Len(Args) : Args[a].kind = kind /\ Args[a].short = c}
<1>1. Arg = 1 .. Len(Args)
  BY ArgsAssumption DEF Arg
<1>2. find_short(c, kind) = IF T # {} THEN Min(T) ELSE 0
  BY DEF find_short, SelectInSeq
<1>3. T \subseteq Nat
  OBVIOUS
<1>4. CASE T = {}
  BY <1>1, <1>2, <1>4
<1>5. CASE T # {}
  <2>1. Min(T) \in T
    BY <1>3, <1>5, MinFacts
  <2> QED BY <1>1, <1>2, <1>5, <2>1
<1> QED BY <1>4, <1>5

(* The first flag of a cluster that is none.                               *)
LEMMA StopFacts ==
  ASSUME NEW c \in Text
  PROVE  \/ /\ Stop(c) = 0
            /\ \A n \in 1 .. Len(c) : FlagOf(c[n]) # 0
         \/ /\ Stop(c) \in 1 .. Len(c)
            /\ FlagOf(c[Stop(c)]) = 0
            /\ \A n \in 1 .. Stop(c) - 1 : FlagOf(c[n]) # 0
<1> DEFINE T == {n \in 1 .. Len(c) : FlagOf(c[n]) = 0}
<1>2. Stop(c) = IF T # {} THEN Min(T) ELSE 0
  BY DEF Stop, SelectInSeq
<1>3. T \subseteq Nat /\ Len(c) \in Nat
  BY DEF Text
<1>4. CASE T = {}
  BY <1>2, <1>4
<1>5. CASE T # {}
  <2>1. Min(T) \in T /\ \A y \in T : Min(T) <= y
    BY <1>3, <1>5, MinFacts
  <2>2. ASSUME NEW n \in 1 .. Min(T) - 1
        PROVE  FlagOf(c[n]) # 0
    <3>1. n \in 1 .. Len(c) /\ ~(Min(T) <= n)
      BY <1>3, <2>1
    <3> QED BY <2>1, <3>1
  <2> QED BY <1>2, <1>5, <2>1, <2>2
<1> QED BY <1>4, <1>5

(* The first equals sign of a text.                                        *)
EqualsIn(body) == SelectInSeq(body, LAMBDA p : p = "=")

LEMMA FirstEquals ==
  ASSUME NEW body \in Text
  PROVE  LET eq == EqualsIn(body) IN
         \/ /\ eq = 0
            /\ \A n \in 1 .. Len(body) : body[n] # "="
         \/ /\ eq \in 1 .. Len(body)
            /\ body[eq] = "="
            /\ \A n \in 1 .. eq - 1 : body[n] # "="
<1> DEFINE T == {n \in 1 .. Len(body) : body[n] = "="}
           eq == EqualsIn(body)
<1>2. eq = IF T # {} THEN Min(T) ELSE 0
  BY DEF EqualsIn, SelectInSeq
<1>3. T \subseteq Nat /\ Len(body) \in Nat
  BY DEF Text
<1>4. CASE T = {}
  BY <1>2, <1>4
<1>5. CASE T # {}
  <2>1. Min(T) \in T /\ \A y \in T : Min(T) <= y
    BY <1>3, <1>5, MinFacts
  <2>2. ASSUME NEW n \in 1 .. Min(T) - 1
        PROVE  body[n] # "="
    <3>1. n \in 1 .. Len(body) /\ ~(Min(T) <= n)
      BY <1>3, <2>1
    <3> QED BY <2>1, <3>1
  <2> QED BY <1>2, <1>5, <2>1, <2>2
<1> QED BY <1>4, <1>5

-----------------------------------------------------------------------------
(* Sequences of sequences, one after the other.                            *)

LEMMA FlattenSteps ==
  ASSUME NEW S, NEW n \in Nat, NEW seqs \in [1 .. n -> Seq(S)]
  PROVE  \E flat \in [0 .. n -> Seq(S)] :
           /\ flat[0] = <<>>
           /\ \A k \in 1 .. n : flat[k] = flat[k - 1] \o seqs[k]
           /\ FlattenSeq(seqs) = flat[n]
<1>1. Len(seqs) = n /\ seqs \in Seq(Seq(S))
  OBVIOUS
<1>2. CASE n = 0
  <2> DEFINE flat == [k \in 0 .. n |-> <<>>]
  <2>1. FlattenSeq(seqs) = seqs
    BY <1>1, <1>2 DEF FlattenSeq
  <2>2. seqs = <<>>
    BY <1>1, <1>2
  <2>3. flat \in [0 .. n -> Seq(S)] /\ flat[0] = <<>>
    OBVIOUS
  <2>4. FlattenSeq(seqs) = flat[n]
    BY <1>2, <2>1, <2>2, <2>3
  <2>5. \A k \in 1 .. n : flat[k] = flat[k - 1] \o seqs[k]
    BY <1>2
  <2> HIDE DEF flat
  <2> QED BY <2>3, <2>4, <2>5
<1>3. CASE n # 0
  <2> DEFINE Flattens(g, m) ==
               g = [p \in 1 .. m |-> IF p = 1 THEN seqs[p] ELSE g[p - 1] \o seqs[p]]
             Without == {m \in 1 .. n : ~\E g : Flattens(g, m)}
  <2> HIDE DEF Flattens
  <2>1. Without = {}
    <3>1. SUFFICES ASSUME Without # {} PROVE FALSE
      OBVIOUS
    <3>2. PICK m \in Without : \A y \in Without : m <= y
      <4>1. Without \subseteq Nat
        OBVIOUS
      <4> QED BY <3>1, <4>1, LeastNumber
    <3>3. CASE m = 1
      <4>1. Flattens([p \in 1 .. 1 |-> seqs[1]], 1)
        BY DEF Flattens
      <4> QED BY <3>2, <3>3, <4>1
    <3>4. CASE m # 1
      <4>1. m - 1 \in 1 .. n /\ m - 1 \notin Without /\ m \in Nat
        <5>1. m \in 1 .. n
          OBVIOUS
        <5> HIDE DEF Without
        <5> QED BY <3>2, <3>4, <5>1
      <4>2. PICK g : Flattens(g, m - 1)
        BY <4>1
      <4>3. \A p \in 1 .. m - 1 : g[p] = IF p = 1 THEN seqs[p] ELSE g[p - 1] \o seqs[p]
        BY <4>2 DEF Flattens
      <4> DEFINE h == [p \in 1 .. m |-> IF p = m THEN g[m - 1] \o seqs[m] ELSE g[p]]
      <4>4. Flattens(h, m)
        <5>1. ASSUME NEW p \in 1 .. m
              PROVE  h[p] = IF p = 1 THEN seqs[p] ELSE h[p - 1] \o seqs[p]
          <6>1. CASE p = m
            <7>1. p - 1 \in 1 .. m /\ p - 1 # m /\ p # 1
              BY <3>4, <4>1, <6>1
            <7> QED BY <6>1, <7>1
          <6>2. CASE p # m /\ p # 1
            <7>1. p \in 1 .. m - 1 /\ p - 1 \in 1 .. m /\ p - 1 # m
              BY <4>1, <6>2
            <7> QED BY <4>3, <6>2, <7>1
          <6>3. CASE p # m /\ p = 1
            <7>1. p \in 1 .. m - 1
              BY <4>1, <6>3
            <7> QED BY <4>3, <6>3, <7>1
          <6> QED BY <6>1, <6>2, <6>3
        <5> HIDE DEF h
        <5>2. h = [p \in 1 .. m |-> h[p]]
          BY DEF h
        <5> QED BY <5>1, <5>2 DEF Flattens
      <4> QED BY <3>2, <4>4
    <3> QED BY <3>3, <3>4
  <2>2. \E g : Flattens(g, n)
    <3>1. n \in 1 .. n
      BY <1>3
    <3> QED BY <2>1, <3>1
  <2> DEFINE flatten == CHOOSE g : Flattens(g, n)
  <2>3. Flattens(flatten, n)
    BY <2>2
  <2>4. FlattenSeq(seqs) = flatten[n]
    BY <1>1, <1>3 DEF FlattenSeq, Flattens
  <2> HIDE DEF flatten
  <2>5. \A p \in 1 .. n : flatten[p] = IF p = 1 THEN seqs[p] ELSE flatten[p - 1] \o seqs[p]
    BY <2>3 DEF Flattens
  <2> DEFINE Bad == {p \in 1 .. n : flatten[p] \notin Seq(S)}
  <2>6. Bad = {}
    <3>1. SUFFICES ASSUME Bad # {} PROVE FALSE
      OBVIOUS
    <3>2. PICK p \in Bad : \A y \in Bad : p <= y
      <4>1. Bad \subseteq Nat
        OBVIOUS
      <4> QED BY <3>1, <4>1, LeastNumber
    <3>3. CASE p = 1
      BY <2>5, <3>2, <3>3
    <3>4. CASE p # 1
      <4>1. p \in 1 .. n /\ p - 1 \in 1 .. n /\ p - 1 \notin Bad
        BY <3>2, <3>4
      <4>2. flatten[p - 1] \in Seq(S) /\ seqs[p] \in Seq(S)
        BY <4>1
      <4>3. flatten[p] = flatten[p - 1] \o seqs[p]
        BY <2>5, <3>4, <4>1
      <4>4. flatten[p] \in Seq(S)
        BY <4>2, <4>3
      <4> QED BY <3>2, <4>4
    <3> QED BY <3>3, <3>4
  <2>7. \A p \in 1 .. n : flatten[p] \in Seq(S)
    BY <2>6
  <2> DEFINE flat == [k \in 0 .. n |-> IF k = 0 THEN <<>> ELSE flatten[k]]
  <2>10. flat \in [0 .. n -> Seq(S)]
    BY <2>7
  <2>8. flat[0] = <<>> /\ FlattenSeq(seqs) = flat[n]
    BY <1>3, <2>4
  <2>9. ASSUME NEW k \in 1 .. n
        PROVE  flat[k] = flat[k - 1] \o seqs[k]
    <3>1. CASE k = 1
      <4>1. seqs[1] \in Seq(S) /\ flat[1] = flatten[1] /\ flatten[1] = seqs[1]
        BY <2>5, <3>1
      <4>2. <<>> \o seqs[1] = seqs[1]
        BY <4>1
      <4> QED BY <2>8, <3>1, <4>1, <4>2
    <3>2. CASE k # 1
      <4>1. k - 1 \in 1 .. n
        BY <3>2
      <4>2. flat[k] = flatten[k] /\ flat[k - 1] = flatten[k - 1]
        BY <4>1
      <4>3. flatten[k] = flatten[k - 1] \o seqs[k]
        BY <2>5, <3>2
      <4> QED BY <4>2, <4>3
    <3> QED BY <3>1, <3>2
  <2> HIDE DEF flat
  <2> QED BY <2>8, <2>9, <2>10
<1> QED BY <1>2, <1>3

LEMMA ConcatFacts ==
  ASSUME NEW S, NEW s \in Seq(S), NEW t \in Seq(S)
  PROVE  /\ s \o t \in Seq(S) /\ Len(s \o t) = Len(s) + Len(t)
         /\ \A x \in 1 .. Len(s) : (s \o t)[x] = s[x]
         /\ \A x \in 1 .. Len(t) : (s \o t)[Len(s) + x] = t[x]
OBVIOUS

LaidOut(at, seqs, n) ==
  /\ at[0] = 0
  /\ \A k \in 1 .. n : at[k] = at[k - 1] + Len(seqs[k])
  /\ Len(FlattenSeq(seqs)) = at[n]
  /\ \A k \in 1 .. n : /\ at[k] <= at[n]
                       /\ \A j \in 1 .. Len(seqs[k]) :
                            FlattenSeq(seqs)[at[k - 1] + j] = seqs[k][j]

(* Where the parts of a flattened sequence are in it.                      *)
LEMMA FlattenPlaces ==
  ASSUME NEW S, NEW n \in Nat, NEW seqs \in [1 .. n -> Seq(S)]
  PROVE  /\ FlattenSeq(seqs) \in Seq(S)
         /\ \E at \in [0 .. n -> Nat] : LaidOut(at, seqs, n)
<1>1. PICK flat \in [0 .. n -> Seq(S)] :
           /\ flat[0] = <<>>
           /\ \A k \in 1 .. n : flat[k] = flat[k - 1] \o seqs[k]
           /\ FlattenSeq(seqs) = flat[n]
  BY FlattenSteps
<1> DEFINE at == [k \in 0 .. n |-> Len(flat[k])]
<1>2. at \in [0 .. n -> Nat] /\ at[0] = 0 /\ at[n] = Len(flat[n])
  BY <1>1
<1>3. ASSUME NEW k \in 1 .. n
      PROVE  /\ at[k] = at[k - 1] + Len(seqs[k])
             /\ \A x \in 1 .. at[k - 1] : flat[k][x] = flat[k - 1][x]
             /\ \A j \in 1 .. Len(seqs[k]) : flat[k][at[k - 1] + j] = seqs[k][j]
  <2>1. flat[k - 1] \in Seq(S) /\ seqs[k] \in Seq(S) /\ k - 1 \in 0 .. n /\ k \in 0 .. n
    OBVIOUS
  <2>2. flat[k] = flat[k - 1] \o seqs[k]
    BY <1>1
  <2>3. at[k] = Len(flat[k]) /\ at[k - 1] = Len(flat[k - 1])
    BY <2>1
  <2> HIDE DEF at
  <2> QED BY <2>1, <2>2, <2>3, ConcatFacts
<1> HIDE DEF at
<1> DEFINE Kept(m) == \A k \in 1 .. m :
                        /\ at[k] <= at[m]
                        /\ \A j \in 1 .. Len(seqs[k]) : flat[m][at[k - 1] + j] = seqs[k][j]
           Bad == {m \in 0 .. n : ~Kept(m)}
<1> HIDE DEF Kept
<1>4. Bad = {}
  <2>1. SUFFICES ASSUME Bad # {} PROVE FALSE
    OBVIOUS
  <2>2. PICK m \in Bad : \A y \in Bad : m <= y
    <3>1. Bad \subseteq Nat
      OBVIOUS
    <3> QED BY <2>1, <3>1, LeastNumber
  <2>3. m # 0
    BY <2>2 DEF Kept
  <2>4. m \in 1 .. n /\ m - 1 \in 0 .. n /\ m - 1 \notin Bad
    BY <2>2, <2>3
  <2>5. Kept(m - 1)
    BY <2>4
  <2>6. ASSUME NEW k \in 1 .. m
        PROVE  /\ at[k] <= at[m]
               /\ \A j \in 1 .. Len(seqs[k]) : flat[m][at[k - 1] + j] = seqs[k][j]
    <3>1. CASE k = m
      <4>1. at[m] \in Nat /\ m \in 1 .. n
        BY <1>2, <2>4
      <4>2. \A j \in 1 .. Len(seqs[m]) : flat[m][at[m - 1] + j] = seqs[m][j]
        <5> HIDE DEF Bad
        <5> QED BY <1>3, <4>1
      <4>3. at[m] <= at[m]
        BY <4>1
      <4> QED BY <3>1, <4>2, <4>3
    <3>2. CASE k # m
      <4>1. k \in 1 .. m - 1 /\ k \in 1 .. n /\ k - 1 \in 0 .. n
        BY <2>4, <3>2
      <4>2. /\ at[k] \in Nat /\ at[m] \in Nat /\ at[m - 1] \in Nat /\ at[k - 1] \in Nat
            /\ Len(seqs[m]) \in Nat /\ Len(seqs[k]) \in Nat
        <5>1. m \in 0 .. n /\ m - 1 \in 0 .. n /\ k \in 0 .. n /\ k - 1 \in 0 .. n
          BY <2>4, <4>1
        <5>2. seqs[m] \in Seq(S) /\ seqs[k] \in Seq(S)
          BY <2>4, <4>1
        <5>3. Len(seqs[m]) \in Nat /\ Len(seqs[k]) \in Nat
          BY <5>2
        <5> HIDE DEF Bad
        <5> QED BY <1>2, <5>1, <5>3
      <4>3. at[m] = at[m - 1] + Len(seqs[m]) /\ at[k] = at[k - 1] + Len(seqs[k])
        BY <1>3, <2>4, <4>1
      <4>4. at[k] <= at[m - 1]
        BY <2>5, <4>1 DEF Kept
      <4>5. ASSUME NEW j \in 1 .. Len(seqs[k])
            PROVE  flat[m][at[k - 1] + j] = seqs[k][j]
        <5>1. at[k - 1] + j \in 1 .. at[m - 1]
          <6>1. \A p, l, q \in Nat : p + l <= q /\ j \in 1 .. l => p + j \in 1 .. q
            OBVIOUS
          <6> QED BY <4>2, <4>3, <4>4, <6>1
        <5>2. flat[m][at[k - 1] + j] = flat[m - 1][at[k - 1] + j]
          BY <1>3, <2>4, <5>1
        <5> QED BY <2>5, <4>1, <5>2 DEF Kept
      <4>6. at[k] <= at[m]
        <5>1. \A p, q, s, l \in Nat : p <= q /\ s = q + l => p <= s
          OBVIOUS
        <5> QED BY <4>2, <4>3, <4>4, <5>1
      <4> QED BY <4>5, <4>6
    <3> QED BY <3>1, <3>2
  <2>7. Kept(m)
    BY <2>6 DEF Kept
  <2> QED BY <2>2, <2>7
<1>5. Kept(n)
  <2>1. n \in 0 .. n
    OBVIOUS
  <2> QED BY <1>4, <2>1
<1>6. at[n] = Len(FlattenSeq(seqs)) /\ FlattenSeq(seqs) \in Seq(S)
  BY <1>1, <1>2
<1>7. \A k \in 1 .. n : at[k] = at[k - 1] + Len(seqs[k])
  BY <1>3
<1>8. \A k \in 1 .. n : /\ at[k] <= at[n]
                        /\ \A j \in 1 .. Len(seqs[k]) : FlattenSeq(seqs)[at[k - 1] + j] = seqs[k][j]
  BY <1>1, <1>5 DEF Kept
<1>9. LaidOut(at, seqs, n)
  BY <1>2, <1>6, <1>7, <1>8 DEF LaidOut
<1> QED BY <1>2, <1>6, <1>9

-----------------------------------------------------------------------------
(* Recursion over places.                                                  *)

LEMMA Upwards ==
  ASSUME NEW N \in Nat, NEW T, 0 \in T, \A n \in 1 .. N : n - 1 \in T => n \in T
  PROVE  0 .. N \subseteq T
<1> DEFINE Bad == {n \in 0 .. N : n \notin T}
<1>1. Bad \subseteq 0 .. N /\ Bad \subseteq Nat
  OBVIOUS
<1>2. SUFFICES ASSUME Bad # {} PROVE FALSE
  OBVIOUS
<1>3. PICK n \in Bad : \A y \in Bad : n <= y
  BY <1>1, <1>2, LeastNumber
<1>4. n \notin T /\ n # 0
  BY <1>3
<1>5. \A y \in 0 .. N : y \in T \/ y \in Bad
  OBVIOUS
<1> HIDE DEF Bad
<1>6. n \in 1 .. N /\ n - 1 \in 0 .. N /\ ~(n <= n - 1)
  BY <1>1, <1>3, <1>4
<1>7. n - 1 \in T
  BY <1>3, <1>5, <1>6
<1> QED BY <1>4, <1>6, <1>7

Recurs(g, m, base, step) ==
  g[0] = base /\ \A n \in 1 .. m : g[n] = step[n][g[n - 1]]

LEMMA Recursion ==
  ASSUME NEW N \in Nat, NEW V, NEW base \in V, NEW step \in [1 .. N -> [V -> V]]
  PROVE  \E g \in [0 .. N -> V] : Recurs(g, N, base, step)
<1> DEFINE T == {m \in 0 .. N : \E g \in [0 .. m -> V] : Recurs(g, m, base, step)}
<1>1. 0 \in T
  <2>1. Recurs([n \in 0 .. 0 |-> base], 0, base, step) /\ [n \in 0 .. 0 |-> base] \in [0 .. 0 -> V]
    BY DEF Recurs
  <2> QED BY <2>1
<1>2. ASSUME NEW m \in 1 .. N, m - 1 \in T
      PROVE  m \in T
  <2>1. PICK g \in [0 .. m - 1 -> V] : Recurs(g, m - 1, base, step)
    BY <1>2
  <2> DEFINE h == [n \in 0 .. m |-> IF n = m THEN step[m][g[m - 1]] ELSE g[n]]
  <2>2. m - 1 \in 0 .. m - 1 /\ \A n \in 0 .. m : n # m => n \in 0 .. m - 1
    OBVIOUS
  <2>3. g[m - 1] \in V /\ step[m][g[m - 1]] \in V
    BY <2>2
  <2>4. h \in [0 .. m -> V]
    BY <2>2, <2>3
  <2>5. /\ \A n \in 0 .. m - 1 : h[n] = g[n]
        /\ h[m] = step[m][g[m - 1]]
    OBVIOUS
  <2> HIDE DEF h
  <2>6. h[0] = base
    BY <2>1, <2>5 DEF Recurs
  <2>7. ASSUME NEW n \in 1 .. m
        PROVE  h[n] = step[n][h[n - 1]]
    <3>1. h[n - 1] = g[n - 1]
      BY <2>5
    <3>2. CASE n = m
      BY <2>5, <3>1, <3>2
    <3>3. CASE n # m
      <4>1. n \in 1 .. m - 1
        BY <3>3
      <4>2. h[n] = g[n]
        BY <2>5, <4>1
      <4>3. g[n] = step[n][g[n - 1]]
        BY <2>1, <4>1 DEF Recurs
      <4> QED BY <3>1, <4>2, <4>3
    <3> QED BY <3>2, <3>3
  <2>8. Recurs(h, m, base, step)
    BY <2>6, <2>7 DEF Recurs
  <2> QED BY <2>4, <2>8
<1>3. N \in T
  <2>1. 0 .. N \subseteq T
    <3> HIDE DEF T
    <3> QED BY <1>1, <1>2, Upwards
  <2> QED BY <2>1
<1> QED BY <1>3

-----------------------------------------------------------------------------
(* Splitting.                                                              *)

Pieces == {ps \in Seq(Text) : Len(ps) >= 1}

LEMMA CutFacts ==
  ASSUME NEW S, NEW s \in Seq(S), NEW m \in 1 .. Len(s) + 1, NEW n \in 0 .. Len(s)
  PROVE  /\ SubSeq(s, m, n) \in Seq(S)
         /\ m <= n => Len(SubSeq(s, m, n)) = n - m + 1
         /\ m > n => Len(SubSeq(s, m, n)) = 0
         /\ \A x \in 1 .. n - m + 1 : SubSeq(s, m, n)[x] = s[m + x - 1]
OBVIOUS

LEMMA AppendFacts ==
  ASSUME NEW S, NEW s \in Seq(S), NEW e \in S
  PROVE  /\ Append(s, e) \in Seq(S) /\ Len(Append(s, e)) = Len(s) + 1
         /\ \A x \in 1 .. Len(s) : Append(s, e)[x] = s[x]
         /\ Append(s, e)[Len(s) + 1] = e
OBVIOUS

LEMMA NoLength ==
  ASSUME NEW S, NEW s \in Seq(S)
  PROVE  s = <<>> <=> Len(s) = 0
OBVIOUS

LEMMA ExtendFacts ==
  ASSUME NEW ps \in Pieces, NEW p \in STRING, NEW sep
  PROVE  /\ Extend(ps, p, sep) \in Pieces
         /\ p = sep => Len(Extend(ps, p, sep)) >= 2 /\ Extend(ps, p, sep)[1] = ps[1]
         /\ Len(ps) >= 2 => Len(Extend(ps, p, sep)) >= 2 /\ Extend(ps, p, sep)[1] = ps[1]
         /\ Len(ps) = 1 /\ p # sep => Extend(ps, p, sep) = <<Append(ps[1], p)>>
<1>1. ps \in Seq(Text) /\ Len(ps) \in Nat /\ Len(ps) >= 1 /\ <<>> \in Text
  BY DEF Pieces, Text
<1>2. CASE p = sep
  <2>1. Extend(ps, p, sep) = Append(ps, <<>>)
    BY <1>2 DEF Extend
  <2>2. Append(ps, <<>>) \in Seq(Text) /\ Len(Append(ps, <<>>)) = Len(ps) + 1
        /\ Append(ps, <<>>)[1] = ps[1]
    BY <1>1
  <2> QED BY <1>1, <1>2, <2>1, <2>2 DEF Pieces
<1>3. CASE p # sep
  <2> DEFINE front == SubSeq(ps, 1, Len(ps) - 1)
             last == Append(ps[Len(ps)], p)
  <2>1. Extend(ps, p, sep) = Append(front, last)
    BY <1>3 DEF Extend, Front, Last
  <2>2. front \in Seq(Text) /\ Len(front) = Len(ps) - 1
    <3> DEFINE len == Len(ps)
    <3>1. 1 \in 1 .. len + 1 /\ len - 1 \in 0 .. len
      BY <1>1
    <3>2. front \in Seq(Text) /\ (1 <= len - 1 => Len(front) = len - 1 - 1 + 1)
          /\ (1 > len - 1 => Len(front) = 0)
      BY <1>1, <3>1, CutFacts
    <3>3. len = 1 => Len(front) = len - 1
      BY <3>2
    <3>4. len # 1 => Len(front) = len - 1
      <4>1. len \in Nat /\ len >= 1
        BY <1>1
      <4> HIDE DEF len, front
      <4> QED BY <3>2, <4>1
    <3> QED BY <3>2, <3>3, <3>4
  <2>3. last \in Text
    <3>1. ps[Len(ps)] \in Text
      BY <1>1
    <3>2. ps[Len(ps)] \in Seq(STRING)
      BY <3>1 DEF Text
    <3> QED BY <3>2, AppendFacts DEF Text
  <2>4. Len(ps) >= 2 => front[1] = ps[1]
    BY <1>1, CutFacts
  <2>5. Len(ps) = 1 => front = <<>>
    BY <1>1, <2>2, NoLength
  <2>6. ASSUME Len(ps) = 1 PROVE Extend(ps, p, sep) = <<Append(ps[1], p)>>
    <3>1. Append(<<>>, last) = <<last>>
      OBVIOUS
    <3>2. last = Append(ps[1], p)
      BY <2>6
    <3> HIDE DEF front, last
    <3> QED BY <2>1, <2>5, <2>6, <3>1, <3>2
  <2> HIDE DEF front, last
  <2>7. Append(front, last) \in Seq(Text) /\ Len(Append(front, last)) = Len(ps)
    BY <1>1, <2>2, <2>3
  <2>8. Len(ps) >= 2 => Append(front, last)[1] = front[1]
    BY <1>1, <2>2, <2>3
  <2> QED BY <1>1, <1>3, <2>1, <2>4, <2>6, <2>7, <2>8 DEF Pieces
<1> QED BY <1>2, <1>3

LEMMA SplitSteps ==
  ASSUME NEW val \in Text, NEW sep
  PROVE  \E parts \in [0 .. Len(val) -> Pieces] :
           /\ parts[0] = << <<>> >>
           /\ \A n \in 1 .. Len(val) : parts[n] = Extend(parts[n - 1], val[n], sep)
           /\ Split(val, sep) = parts[Len(val)]
<1> DEFINE N == Len(val)
<1>1. N \in Nat /\ \A n \in 1 .. N : val[n] \in STRING
  BY DEF Text
<1>2. << <<>> >> \in Pieces
  <2>1. <<>> \in Text
    BY DEF Text
  <2> QED BY <2>1 DEF Pieces
<1> HIDE DEF N
<1> DEFINE step == [n \in 1 .. N |-> [ps \in Pieces |-> Extend(ps, val[n], sep)]]
           Splits(g) == g = [n \in 0 .. N |-> IF n = 0 THEN << <<>> >> ELSE Extend(g[n - 1], val[n], sep)]
<1>3. step \in [1 .. N -> [Pieces -> Pieces]]
  <2>1. ASSUME NEW n \in 1 .. N, NEW ps \in Pieces PROVE Extend(ps, val[n], sep) \in Pieces
    BY <1>1, ExtendFacts
  <2> QED BY <2>1
<1>4. \E g : Splits(g)
  <2> HIDE DEF step
  <2>1. PICK g \in [0 .. N -> Pieces] :
          /\ g[0] = << <<>> >>
          /\ \A n \in 1 .. N : g[n] = step[n][g[n - 1]]
    <3> DEFINE base == << <<>> >>
    <3>1. base \in Pieces
      BY <1>2
    <3> HIDE DEF base
    <3>2. \E g \in [0 .. N -> Pieces] : Recurs(g, N, base, step)
      BY <1>1, <1>3, <3>1, Recursion
    <3> QED BY <3>2 DEF base, Recurs
  <2>2. ASSUME NEW n \in 1 .. N
        PROVE  g[n] = Extend(g[n - 1], val[n], sep)
    <3>1. g[n - 1] \in Pieces
      BY <1>1
    <3>2. step[n][g[n - 1]] = Extend(g[n - 1], val[n], sep)
      BY <3>1 DEF step
    <3> QED BY <2>1, <3>2
  <2>3. \A n \in 0 .. N : g[n] = IF n = 0 THEN << <<>> >> ELSE Extend(g[n - 1], val[n], sep)
    <3>1. \A n \in 0 .. N : n = 0 \/ n \in 1 .. N
      BY <1>1
    <3> HIDE DEF Pieces
    <3>2. \A n \in 0 .. N : n # 0 => g[n] = Extend(g[n - 1], val[n], sep)
      BY <2>2, <3>1
    <3> QED BY <2>1, <3>2
  <2>4. g = [n \in 0 .. N |-> g[n]]
    OBVIOUS
  <2> QED BY <2>3, <2>4
<1> DEFINE parts == CHOOSE g : Splits(g)
<1>5. Splits(parts)
  BY <1>4
<1>6. Split(val, sep) = parts[N]
  BY DEF Split, N
<1> HIDE DEF parts
<1>7. \A n \in 0 .. N : parts[n] = IF n = 0 THEN << <<>> >> ELSE Extend(parts[n - 1], val[n], sep)
  BY <1>5
<1>8. parts[0] = << <<>> >> /\ \A n \in 1 .. N : parts[n] = Extend(parts[n - 1], val[n], sep)
  BY <1>1, <1>7
<1> DEFINE T == {n \in 0 .. N : parts[n] \in Pieces}
<1>9. 0 .. N \subseteq T
  <2>1. 0 \in T
    BY <1>1, <1>2, <1>8
  <2>2. ASSUME NEW n \in 1 .. N, n - 1 \in T PROVE n \in T
    <3>1. parts[n - 1] \in Pieces
      BY <2>2
    <3>2. parts[n] \in Pieces
      BY <1>1, <1>8, <3>1, ExtendFacts
    <3> QED BY <3>2
  <2> HIDE DEF T
  <2> QED BY <1>1, <2>1, <2>2, Upwards
<1>10. \A n \in 0 .. N : parts[n] \in Pieces
  BY <1>9
<1>11. parts \in [0 .. N -> Pieces]
  <2>1. parts = [n \in 0 .. N |-> parts[n]]
    BY <1>5
  <2> QED BY <1>10, <2>1
<1> QED BY <1>6, <1>8, <1>11 DEF N

LEMMA PrefixStep ==
  ASSUME NEW S, NEW s \in Seq(S), NEW n \in 1 .. Len(s)
  PROVE  SubSeq(s, 1, n) = Append(SubSeq(s, 1, n - 1), s[n])
OBVIOUS

(* What is before the first separator is the first piece, and there is one *)
(* piece only without a separator.                                         *)
LEMMA SplitFirst ==
  ASSUME NEW body \in Text
  PROVE  LET eq == EqualsIn(body) IN
         /\ eq = 0 => Len(Split(body, "=")) = 1 /\ Split(body, "=")[1] = body
         /\ eq # 0 => Len(Split(body, "=")) >= 2 /\ Split(body, "=")[1] = SubSeq(body, 1, eq - 1)
<1> DEFINE eq == EqualsIn(body)
           N == Len(body)
<1>1. \/ eq = 0 /\ \A n \in 1 .. N : body[n] # "="
      \/ eq \in 1 .. N /\ body[eq] = "=" /\ \A n \in 1 .. eq - 1 : body[n] # "="
  BY FirstEquals
<1>2. PICK parts \in [0 .. N -> Pieces] :
           /\ parts[0] = << <<>> >>
           /\ \A n \in 1 .. N : parts[n] = Extend(parts[n - 1], body[n], "=")
           /\ Split(body, "=") = parts[N]
  BY SplitSteps
<1>3. N \in Nat /\ body \in Seq(STRING) /\ \A n \in 1 .. N : body[n] \in STRING
  BY DEF Text
<1> HIDE DEF eq
<1> DEFINE Right(n) == IF eq = 0 \/ n < eq
                       THEN parts[n] = <<SubSeq(body, 1, n)>>
                       ELSE Len(parts[n]) >= 2 /\ parts[n][1] = SubSeq(body, 1, eq - 1)
           T == {n \in 0 .. N : Right(n)}
<1>4. SubSeq(body, 1, 0) = <<>>
  BY <1>3
<1>5. 0 \in T
  <2>1. eq = 0 \/ 0 < eq
    BY <1>1, <1>3
  <2>2. Right(0)
    BY <1>2, <1>4, <2>1
  <2> HIDE DEF Right
  <2> QED BY <1>3, <2>2
<1>6. ASSUME NEW n \in 1 .. N, n - 1 \in T
      PROVE  n \in T
  <2> DEFINE p == body[n]
             ps == parts[n - 1]
  <2>1. ps \in Pieces /\ p \in STRING /\ parts[n] = Extend(ps, p, "=")
    <3>1. n - 1 \in 0 .. N
      BY <1>3
    <3> HIDE DEF T
    <3> QED BY <1>2, <1>3, <3>1
  <2>2. Right(n - 1)
    BY <1>6
  <2>3. /\ p = "=" => Len(parts[n]) >= 2 /\ parts[n][1] = ps[1]
        /\ Len(ps) >= 2 => Len(parts[n]) >= 2 /\ parts[n][1] = ps[1]
        /\ Len(ps) = 1 /\ p # "=" => parts[n] = <<Append(ps[1], p)>>
    <3> HIDE DEF p, ps
    <3> QED BY <2>1, ExtendFacts
  <2>4. SubSeq(body, 1, n) = Append(SubSeq(body, 1, n - 1), p)
    BY <1>3, PrefixStep
  <2>5. CASE eq = 0 \/ n < eq
    <3>1. eq = 0 \/ n - 1 < eq
      BY <1>1, <1>3, <2>5
    <3>2. ps = <<SubSeq(body, 1, n - 1)>>
      BY <2>2, <3>1
    <3>3. p # "="
      BY <1>1, <1>3, <2>5
    <3>4. Len(ps) = 1 /\ ps[1] = SubSeq(body, 1, n - 1)
      BY <3>2
    <3>5. parts[n] = <<SubSeq(body, 1, n)>>
      BY <2>3, <2>4, <3>3, <3>4
    <3>6. Right(n)
      BY <2>5, <3>5
    <3> HIDE DEF Right
    <3> QED BY <3>6
  <2>6. CASE eq # 0 /\ n = eq
    <3>1. n - 1 < eq
      BY <1>3, <2>6
    <3>2. ps = <<SubSeq(body, 1, n - 1)>>
      BY <2>2, <3>1
    <3>3. ps[1] = SubSeq(body, 1, n - 1) /\ p = "="
      BY <1>1, <2>6, <3>2
    <3>4. Len(parts[n]) >= 2 /\ parts[n][1] = SubSeq(body, 1, eq - 1)
      BY <2>3, <2>6, <3>3
    <3>5. ~(n < eq)
      BY <2>6
    <3>6. Right(n)
      BY <2>6, <3>4, <3>5
    <3> HIDE DEF Right
    <3> QED BY <3>6
  <2>7. CASE eq # 0 /\ n # eq /\ ~(n < eq)
    <3>1. ~(n - 1 < eq)
      BY <1>1, <1>3, <2>7
    <3>2. Len(ps) >= 2 /\ ps[1] = SubSeq(body, 1, eq - 1)
      BY <2>2, <2>7, <3>1
    <3>3. Right(n)
      BY <2>3, <2>7, <3>2
    <3> HIDE DEF Right
    <3> QED BY <3>3
  <2> QED BY <2>5, <2>6, <2>7
<1>7. N \in T
  <2>1. 0 .. N \subseteq T
    <3> HIDE DEF T
    <3> QED BY <1>3, <1>5, <1>6, Upwards
  <2> QED BY <1>3, <2>1
<1>8. Right(N)
  BY <1>7
<1>9. CASE eq = 0
  <2>1. SubSeq(body, 1, N) = body
    BY <1>3
  <2>2. parts[N] = <<body>>
    BY <1>8, <1>9, <2>1
  <2>3. Len(parts[N]) = 1 /\ parts[N][1] = body
    BY <2>2
  <2> QED BY <1>2, <1>9, <2>3 DEF eq
<1>10. CASE eq # 0
  <2>1. ~(N < eq)
    BY <1>1, <1>3, <1>10
  <2> QED BY <1>2, <1>8, <1>10, <2>1 DEF eq
<1> QED BY <1>9, <1>10 DEF eq

LEMMA AddedIsText ==
  ASSUME NEW a \in Arg, NEW val \in Text
  PROVE  Added(a, val) \in Seq(Text)
<1>1. CASE Args[a].split = ""
  <2>1. <<val>> \in Seq(Text)
    OBVIOUS
  <2> QED BY <1>1, <2>1 DEF Added
<1>2. CASE Args[a].split # ""
  <2>1. PICK parts \in [0 .. Len(val) -> Pieces] :
             Split(val, Args[a].split) = parts[Len(val)]
    BY SplitSteps
  <2>2. Len(val) \in Nat
    BY DEF Text
  <2>3. parts[Len(val)] \in Pieces
    BY <2>2
  <2> QED BY <1>2, <2>1, <2>3 DEF Added, Pieces
<1> QED BY <1>1, <1>2

-----------------------------------------------------------------------------
(* Every positional argument has one slot.                                 *)
LEMMA PositionalFacts ==
  /\ Positionals \in Seq(Arg)
  /\ \A p \in 1 .. Len(Positionals) : Args[Positionals[p]].kind = "Positional"
  /\ \A p, q \in 1 .. Len(Positionals) : Positionals[p] = Positionals[q] => p = q
<1> DEFINE N == Len(Args)
           IsSlot(a) == Args[a].kind = "Positional"
           Next1(s, a) == IF IsSlot(a) THEN Append(s, a) ELSE s
           step == [a \in 1 .. N |-> [s \in Seq(Arg) |-> Next1(s, a)]]
           Collects(g) == g = [a \in 0 .. N |->
                                 CASE a = 0 -> <<>>
                                   [] a # 0 /\ Args[a].kind = "Positional" -> Append(g[a - 1], a)
                                   [] OTHER -> g[a - 1]]
<1>1. N \in Nat /\ Arg = 1 .. N
  BY ArgsAssumption DEF Arg
<1> HIDE DEF N
<1>2. step \in [1 .. N -> [Seq(Arg) -> Seq(Arg)]]
  <2>1. ASSUME NEW a \in 1 .. N, NEW s \in Seq(Arg) PROVE Next1(s, a) \in Seq(Arg)
    BY <1>1, AppendFacts
  <2> QED BY <2>1
<1>3. \E g : Collects(g)
  <2> DEFINE base == <<>>
  <2>1. base \in Seq(Arg)
    OBVIOUS
  <2> HIDE DEF step, base
  <2>2. PICK g \in [0 .. N -> Seq(Arg)] : Recurs(g, N, base, step)
    BY <1>1, <1>2, <2>1, Recursion
  <2>3. ASSUME NEW a \in 1 .. N
        PROVE  g[a] = Next1(g[a - 1], a)
    <3>1. g[a - 1] \in Seq(Arg)
      BY <1>1
    <3>2. step[a][g[a - 1]] = Next1(g[a - 1], a)
      BY <3>1 DEF step
    <3> QED BY <2>2, <3>2 DEF Recurs
  <2>4. g[0] = <<>>
    BY <2>2 DEF Recurs, base
  <2>5. ASSUME NEW a \in 0 .. N
        PROVE  g[a] = CASE a = 0 -> <<>>
                        [] a # 0 /\ Args[a].kind = "Positional" -> Append(g[a - 1], a)
                        [] OTHER -> g[a - 1]
    <3>1. CASE a = 0
      BY <2>4, <3>1
    <3>2. CASE a # 0
      <4>1. a \in 1 .. N
        BY <1>1, <3>2
      <4> QED BY <2>3, <3>2, <4>1
    <3> QED BY <3>1, <3>2
  <2>6. g = [a \in 0 .. N |-> g[a]]
    OBVIOUS
  <2> QED BY <2>5, <2>6
<1> DEFINE among == CHOOSE g : Collects(g)
<1>4. Collects(among)
  BY <1>3
<1>5. Positionals = among[N]
  BY DEF Positionals, N
<1> HIDE DEF among
<1>6. /\ among[0] = <<>>
      /\ \A a \in 1 .. N : among[a] = Next1(among[a - 1], a)
  <2>1. \A a \in 0 .. N : among[a] = CASE a = 0 -> <<>>
                        [] a # 0 /\ Args[a].kind = "Positional" -> Append(among[a - 1], a)
                        [] OTHER -> among[a - 1]
    BY <1>4
  <2>2. 0 \in 0 .. N /\ \A a \in 1 .. N : a \in 0 .. N /\ a # 0
    BY <1>1
  <2> QED BY <2>1, <2>2
<1> HIDE DEF Collects, step
<1> DEFINE Slots(s, a) ==
             /\ s \in Seq(Arg)
             /\ \A p \in 1 .. Len(s) : s[p] \in 1 .. a /\ IsSlot(s[p])
             /\ \A p, q \in 1 .. Len(s) : p < q => s[p] < s[q]
           T == {a \in 0 .. N : Slots(among[a], a)}
<1>7. 0 \in T
  <2>1. Slots(<<>>, 0)
    OBVIOUS
  <2> HIDE DEF Slots
  <2> QED BY <1>1, <1>6, <2>1
<1>8. ASSUME NEW a \in 1 .. N, a - 1 \in T
      PROVE  a \in T
  <2> DEFINE s == among[a - 1]
  <2>1. Slots(s, a - 1)
    BY <1>8
  <2>2. among[a] = Next1(s, a)
    BY <1>6
  <2> HIDE DEF s
  <2>3. CASE IsSlot(a)
    <3> DEFINE t == Append(s, a)
    <3>1. /\ t \in Seq(Arg) /\ Len(t) = Len(s) + 1 /\ t[Len(s) + 1] = a
          /\ \A p \in 1 .. Len(s) : t[p] = s[p]
      BY <1>1, <2>1, AppendFacts
    <3>2. Len(s) \in Nat /\ a \in Nat
      BY <1>1, <2>1
    <3>3. \A p \in 1 .. Len(t) : p \in 1 .. Len(s) \/ p = Len(s) + 1
      BY <3>1, <3>2
    <3>4. ASSUME NEW p \in 1 .. Len(t)
          PROVE  t[p] \in 1 .. a /\ IsSlot(t[p])
      <4> HIDE DEF t
      <4>1. CASE p \in 1 .. Len(s)
        BY <2>1, <3>1, <3>2, <4>1
      <4>2. CASE p = Len(s) + 1
        BY <2>3, <3>1, <3>2, <4>2
      <4> QED BY <3>3, <4>1, <4>2
    <3>5. ASSUME NEW p \in 1 .. Len(t), NEW q \in 1 .. Len(t), p < q
          PROVE  t[p] < t[q]
      <4> HIDE DEF t
      <4>1. p \in 1 .. Len(s)
        BY <3>1, <3>2, <3>5
      <4>2. CASE q \in 1 .. Len(s)
        BY <2>1, <3>1, <3>5, <4>1, <4>2
      <4>3. CASE q = Len(s) + 1
        <5>1. t[q] = a /\ t[p] = s[p] /\ s[p] \in 1 .. a - 1
          BY <2>1, <3>1, <4>1, <4>3
        <5> QED BY <3>2, <5>1
      <4> QED BY <3>3, <4>2, <4>3
    <3>6. among[a] = t
      BY <2>2, <2>3
    <3> HIDE DEF t
    <3>7. Slots(among[a], a)
      BY <3>1, <3>4, <3>5, <3>6
    <3> HIDE DEF Slots
    <3> QED BY <3>7
  <2>4. CASE ~IsSlot(a)
    <3>1. among[a] = s
      BY <2>2, <2>4
    <3>2. Slots(s, a)
      BY <2>1
    <3> HIDE DEF Slots
    <3> QED BY <3>1, <3>2
  <2> QED BY <2>3, <2>4
<1>9. 0 .. N \subseteq T
  <2> HIDE DEF T
  <2> QED BY <1>1, <1>7, <1>8, Upwards
<1>10. Slots(Positionals, N)
  <2>1. N \in 0 .. N
    BY <1>1
  <2> HIDE DEF Slots
  <2> QED BY <1>5, <1>9, <2>1
<1>11. ASSUME NEW p \in 1 .. Len(Positionals), NEW q \in 1 .. Len(Positionals),
              Positionals[p] = Positionals[q]
       PROVE  p = q
  <2>1. Positionals[p] \in 1 .. N /\ ~(p < q) /\ ~(q < p)
    BY <1>10, <1>11
  <2> QED BY <2>1
<1> QED BY <1>10, <1>11

-----------------------------------------------------------------------------
(* The roles of the tokens, each by those before it.                       *)
RoleAt(role, k) ==
  IF k > 1 /\ role[k - 1] \in {"long", "short"} /\ Takes(tokens[k - 1]) THEN "value"
  ELSE IF \E j \in 1 .. k - 1 : role[j] = "sentinel" THEN "positional"
  ELSE IF tokens[k] = <<"-", "-">> THEN "sentinel"
  ELSE IF LooksPlain(tokens[k]) THEN "positional"
  ELSE IF tokens[k][2] = "-" THEN "long" ELSE "short"

LEMMA RoleFacts ==
  ASSUME tokens \in Seq(Text)
  PROVE  \A k \in 1 .. Len(tokens) : Roles[k] = RoleAt(Roles, k)
<1> DEFINE N == Len(tokens)
           Roled(g, m) == \A k \in 1 .. m : g[k] = RoleAt(g, k)
           T == {m \in 0 .. N : \E g : g = [k \in 1 .. m |-> g[k]] /\ Roled(g, m)}
<1>1. N \in Nat
  OBVIOUS
<1> HIDE DEF N
<1>2. 0 \in T
  <2>1. \E g : g = [k \in 1 .. 0 |-> g[k]] /\ Roled(g, 0)
    <3> DEFINE g == [k \in 1 .. 0 |-> "value"]
    <3>1. g = [k \in 1 .. 0 |-> g[k]] /\ Roled(g, 0)
      OBVIOUS
    <3> HIDE DEF g, Roled
    <3> QED BY <3>1
  <2> HIDE DEF Roled
  <2>2. 0 \in 0 .. N
    BY <1>1
  <2> QED BY <2>1, <2>2, Zenon
<1>3. ASSUME NEW m \in 1 .. N, m - 1 \in T
      PROVE  m \in T
  <2>1. PICK g : Roled(g, m - 1)
    <3> HIDE DEF Roled
    <3> QED BY <1>3
  <2> DEFINE h == [k \in 1 .. m |-> IF k = m THEN RoleAt(g, m) ELSE g[k]]
  <2>2. \A k \in 1 .. m - 1 : h[k] = g[k]
    OBVIOUS
  <2>3. h[m] = RoleAt(g, m) /\ h = [k \in 1 .. m |-> h[k]]
    OBVIOUS
  <2> HIDE DEF h
  <2>4. ASSUME NEW k \in 1 .. m
        PROVE  RoleAt(h, k) = RoleAt(g, k)
    <3>1. \A j \in 1 .. k - 1 : h[j] = g[j]
      BY <2>2
    <3>2. k > 1 => h[k - 1] = g[k - 1]
      BY <3>1
    <3>3. (\E j \in 1 .. k - 1 : h[j] = "sentinel") <=> (\E j \in 1 .. k - 1 : g[j] = "sentinel")
      BY <3>1
    <3> QED BY <3>2, <3>3 DEF RoleAt
  <2>5. ASSUME NEW k \in 1 .. m
        PROVE  h[k] = RoleAt(h, k)
    <3>1. CASE k = m
      BY <2>3, <2>4, <3>1
    <3>2. CASE k # m
      <4>1. k \in 1 .. m - 1
        BY <3>2
      <4> QED BY <2>1, <2>2, <2>4, <4>1
    <3> QED BY <3>1, <3>2
  <2>6. Roled(h, m)
    BY <2>5
  <2> HIDE DEF Roled
  <2> QED BY <2>3, <2>6
<1>4. PICK g : g = [k \in 1 .. N |-> g[k]] /\ Roled(g, N)
  <2>1. N \in T
    <3>1. 0 .. N \subseteq T
      <4> HIDE DEF T
      <4> QED BY <1>1, <1>2, <1>3, Upwards
    <3> QED BY <1>1, <3>1
  <2> HIDE DEF Roled
  <2> QED BY <2>1
<1> DEFINE Fits(role) == role = [k \in 1 .. N |->
        IF k > 1 /\ role[k - 1] \in {"long", "short"} /\ Takes(tokens[k - 1]) THEN "value"
        ELSE IF \E j \in 1 .. k - 1 : role[j] = "sentinel" THEN "positional"
        ELSE IF tokens[k] = <<"-", "-">> THEN "sentinel"
        ELSE IF LooksPlain(tokens[k]) THEN "positional"
        ELSE IF tokens[k][2] = "-" THEN "long" ELSE "short"]
<1>5. \A role : Fits(role) <=> role = [k \in 1 .. N |-> RoleAt(role, k)]
  BY DEF RoleAt
<1>6. Roles = CHOOSE role : Fits(role)
  BY DEF Roles, N
<1> HIDE DEF Fits
<1>7. Fits(g)
  BY <1>4, <1>5
<1>8. Fits(Roles)
  BY <1>6, <1>7
<1> QED BY <1>5, <1>8 DEF N

-----------------------------------------------------------------------------
(* What a token asks for.                                                  *)

Use == ({0} \cup Arg) \X Text

LEMMA WrongFacts ==
  /\ Wrong \in Seq(Use) /\ Len(Wrong) = 1 /\ Wrong[1] = <<0, <<>> >> /\ <<>> \in Text
<1>1. <<>> \in Text
  BY DEF Text
<1>2. <<0, <<>> >> \in Use
  BY <1>1 DEF Use
<1> QED BY <1>1, <1>2 DEF Wrong

LEMMA ValuedFacts ==
  ASSUME tokens \in Seq(Text), NEW opt \in Arg, NEW k \in 1 .. Len(tokens), NEW rest \in Text
  PROVE  /\ Valued(opt, k, rest) \in Seq(Use) /\ Len(Valued(opt, k, rest)) = 1
         /\ Len(rest) # 0 => Valued(opt, k, rest)[1] = <<opt, rest>>
         /\ Len(rest) = 0 /\ k = Len(tokens) => Valued(opt, k, rest)[1] = <<0, <<>> >>
         /\ Len(rest) = 0 /\ k # Len(tokens) => Valued(opt, k, rest)[1] = <<opt, tokens[k + 1]>>
<1>1. rest = <<>> <=> Len(rest) = 0
  BY NoLength DEF Text
<1>2. CASE Len(rest) # 0
  <2>1. Valued(opt, k, rest) = << <<opt, rest>> >>
    BY <1>1, <1>2 DEF Valued
  <2>2. <<opt, rest>> \in Use
    BY DEF Use
  <2> QED BY <1>2, <2>1, <2>2
<1>3. CASE Len(rest) = 0 /\ k = Len(tokens)
  <2>1. Valued(opt, k, rest) = Wrong
    BY <1>1, <1>3 DEF Valued
  <2> QED BY <1>3, <2>1, WrongFacts
<1>4. CASE Len(rest) = 0 /\ k # Len(tokens)
  <2>1. Valued(opt, k, rest) = << <<opt, tokens[k + 1]>> >>
    BY <1>1, <1>4 DEF Valued
  <2>2. tokens[k + 1] \in Text
    <3>1. k + 1 \in 1 .. Len(tokens)
      BY <1>4
    <3> QED BY <3>1
  <2>3. <<opt, tokens[k + 1]>> \in Use
    BY <2>2 DEF Use
  <2> QED BY <1>4, <2>1, <2>3
<1> QED BY <1>2, <1>3, <1>4

BodyAt(k) == SubSeq(tokens[k], 3, Len(tokens[k]))
EqualsAt(k) == EqualsIn(BodyAt(k))
NameAt(k) == IF EqualsAt(k) = 0 THEN BodyAt(k) ELSE SubSeq(BodyAt(k), 1, EqualsAt(k) - 1)
InlineAt(k) == SubSeq(BodyAt(k), EqualsAt(k) + 1, Len(BodyAt(k)))
FlagAt(k) == find_long(NameAt(k), "Flag")
OptionAt(k) == find_long(NameAt(k), "Option")

(* A long option names a flag, or an option with its value after an equals *)
(* sign or in the next token.                                              *)
LEMMA LongUseFacts ==
  ASSUME tokens \in Seq(Text), NEW k \in 1 .. Len(tokens), Len(tokens[k]) >= 2
  PROVE  /\ NameAt(k) \in Text /\ InlineAt(k) \in Text
         /\ LongUse(k) \in Seq(Use) /\ Len(LongUse(k)) = 1
         /\ \/ NameAt(k) = <<>> /\ LongUse(k) = Wrong
            \/ NameAt(k) # <<>> /\ FlagAt(k) # 0 /\ EqualsAt(k) = 0 /\ LongUse(k) = << <<FlagAt(k), <<>> >> >>
            \/ NameAt(k) # <<>> /\ FlagAt(k) # 0 /\ EqualsAt(k) # 0 /\ LongUse(k) = Wrong
            \/ NameAt(k) # <<>> /\ FlagAt(k) = 0 /\ OptionAt(k) = 0 /\ LongUse(k) = Wrong
            \/ /\ NameAt(k) # <<>> /\ FlagAt(k) = 0 /\ OptionAt(k) # 0 /\ EqualsAt(k) = 0
               /\ LongUse(k) = Valued(OptionAt(k), k, <<>>)
            \/ /\ NameAt(k) # <<>> /\ FlagAt(k) = 0 /\ OptionAt(k) # 0 /\ EqualsAt(k) # 0
               /\ LongUse(k) = << <<OptionAt(k), InlineAt(k)>> >>
<1> DEFINE body == BodyAt(k)
           eq == EqualsAt(k)
           name == NameAt(k)
           flag == FlagAt(k)
           opt == OptionAt(k)
           inline == InlineAt(k)
<1>0. /\ body = SubSeq(tokens[k], 3, Len(tokens[k]))
      /\ eq = EqualsIn(body)
      /\ name = IF eq = 0 THEN body ELSE SubSeq(body, 1, eq - 1)
      /\ flag = find_long(name, "Flag")
      /\ opt = find_long(name, "Option")
      /\ inline = SubSeq(body, eq + 1, Len(body))
  BY DEF BodyAt, EqualsAt, NameAt, FlagAt, OptionAt, InlineAt
<1> HIDE DEF body, eq, name, flag, opt, inline
<1> USE <1>0
<1>1. tokens[k] \in Text /\ tokens[k] \in Seq(STRING) /\ Len(tokens[k]) \in Nat
  BY DEF Text
<1>2. body \in Text /\ body \in Seq(STRING) /\ Len(body) \in Nat
  <2>1. 3 \in 1 .. Len(tokens[k]) + 1 /\ Len(tokens[k]) \in 0 .. Len(tokens[k])
    BY <1>1
  <2>2. body \in Seq(STRING)
    BY <1>1, <2>1, CutFacts
  <2> QED BY <2>2 DEF Text
<1>3. eq = 0 \/ eq \in 1 .. Len(body)
  BY <1>2, FirstEquals
<1>4. name \in Text
  <2>1. CASE eq = 0
    BY <1>2, <2>1
  <2>2. CASE eq # 0
    <3>1. 1 \in 1 .. Len(body) + 1 /\ eq - 1 \in 0 .. Len(body)
      BY <1>2, <1>3, <2>2
    <3>2. SubSeq(body, 1, eq - 1) \in Seq(STRING)
      BY <1>2, <3>1, CutFacts
    <3> QED BY <2>2, <3>2 DEF Text
  <2> QED BY <2>1, <2>2
<1>5. inline \in Text
  <2>1. eq + 1 \in 1 .. Len(body) + 1 /\ Len(body) \in 0 .. Len(body)
    BY <1>2, <1>3
  <2>2. inline \in Seq(STRING)
    BY <1>2, <2>1, CutFacts
  <2> QED BY <2>2 DEF Text
<1> DEFINE parts == Split(body, "=")
<1>6. /\ eq = 0 => Len(parts) = 1 /\ parts[1] = name
      /\ eq # 0 => Len(parts) # 1 /\ parts[1] = name
  <2>1. /\ eq = 0 => Len(parts) = 1 /\ parts[1] = body
        /\ eq # 0 => Len(parts) >= 2 /\ parts[1] = SubSeq(body, 1, eq - 1)
    BY <1>2, SplitFirst
  <2>2. \A len : len >= 2 => len # 1
    OBVIOUS
  <2> HIDE DEF parts
  <2> QED BY <2>1, <2>2
<1>7. eq # 0 => Len(name) + 2 = eq + 1
  <2>1. ASSUME eq # 0 PROVE Len(name) = eq - 1
    <3>1. 1 \in 1 .. Len(body) + 1 /\ eq - 1 \in 0 .. Len(body) /\ eq \in Nat
      BY <1>2, <1>3, <2>1
    <3>2. /\ 1 <= eq - 1 => Len(name) = eq - 1 - 1 + 1
          /\ 1 > eq - 1 => Len(name) = 0
      BY <1>2, <2>1, <3>1, CutFacts
    <3> QED BY <2>1, <3>1, <3>2
  <2> QED BY <1>3, <2>1
<1>8. LongUse(k) =
        IF name = <<>> THEN Wrong
        ELSE IF flag # 0 THEN IF eq = 0 THEN << <<flag, <<>> >> >> ELSE Wrong
        ELSE IF opt = 0 THEN Wrong
        ELSE IF eq = 0 THEN Valued(opt, k, <<>>)
        ELSE << <<opt, inline>> >>
  <2>1. LongUse(k) =
          IF parts[1] = <<>> THEN Wrong
          ELSE IF find_long(parts[1], "Flag") # 0
               THEN IF Len(parts) = 1 THEN << <<find_long(parts[1], "Flag"), <<>> >> >> ELSE Wrong
          ELSE IF find_long(parts[1], "Option") = 0 THEN Wrong
          ELSE IF Len(parts) = 1 THEN Valued(find_long(parts[1], "Option"), k, <<>>)
          ELSE << <<find_long(parts[1], "Option"), SubSeq(body, Len(parts[1]) + 2, Len(body))>> >>
    BY DEF LongUse
  <2> HIDE DEF parts
  <2>2. parts[1] = name /\ (Len(parts) = 1 <=> eq = 0)
    BY <1>6
  <2> QED BY <1>7, <2>1, <2>2
<1>9. /\ flag # 0 => flag \in Arg
      /\ opt # 0 => opt \in Arg
  BY LongFacts
<1>10. /\ flag # 0 => <<flag, <<>> >> \in Use
       /\ opt # 0 => <<opt, inline>> \in Use
  BY <1>5, <1>9, WrongFacts DEF Use
<1>11. opt # 0 => Valued(opt, k, <<>>) \in Seq(Use) /\ Len(Valued(opt, k, <<>>)) = 1
  BY <1>9, WrongFacts, ValuedFacts
<1>12. LongUse(k) \in Seq(Use) /\ Len(LongUse(k)) = 1
  <2>1. CASE LongUse(k) = Wrong
    BY <2>1, WrongFacts
  <2>2. CASE flag # 0 /\ LongUse(k) = << <<flag, <<>> >> >>
    BY <1>10, <2>2
  <2>3. CASE opt # 0 /\ LongUse(k) = << <<opt, inline>> >>
    BY <1>10, <2>3
  <2>4. CASE opt # 0 /\ LongUse(k) = Valued(opt, k, <<>>)
    BY <1>11, <2>4
  <2> QED BY <1>8, <2>1, <2>2, <2>3, <2>4
<1>13. \/ name = <<>> /\ LongUse(k) = Wrong
       \/ name # <<>> /\ flag # 0 /\ eq = 0 /\ LongUse(k) = << <<flag, <<>> >> >>
       \/ name # <<>> /\ flag # 0 /\ eq # 0 /\ LongUse(k) = Wrong
       \/ name # <<>> /\ flag = 0 /\ opt = 0 /\ LongUse(k) = Wrong
       \/ name # <<>> /\ flag = 0 /\ opt # 0 /\ eq = 0 /\ LongUse(k) = Valued(opt, k, <<>>)
       \/ name # <<>> /\ flag = 0 /\ opt # 0 /\ eq # 0 /\ LongUse(k) = << <<opt, inline>> >>
  BY <1>8
<1> QED BY <1>4, <1>5, <1>12, <1>13 DEF name, flag, eq, opt, inline

(* The first of a cluster's short names that is not that of a flag.        *)
LEMMA TailFacts ==
  ASSUME NEW S, NEW s \in Seq(S), Len(s) >= 1
  PROVE  /\ Tail(s) \in Seq(S) /\ Len(Tail(s)) = Len(s) - 1
         /\ \A n \in 1 .. Len(s) - 1 : Tail(s)[n] = s[n + 1]
OBVIOUS

LEMMA SubTail ==
  ASSUME NEW S, NEW s \in Seq(S), Len(s) >= 1, NEW n \in 2 .. Len(s)
  PROVE  SubSeq(Tail(s), n, Len(s) - 1) = SubSeq(s, n + 1, Len(s))
OBVIOUS

LEMMA ClusterStop ==
  ASSUME NEW tok \in Text, Len(tok) >= 2
  PROVE  /\ (\A n \in 2 .. Len(tok) : FlagOf(tok[n]) # 0) => Stop(Tail(tok)) = 0
         /\ \A n \in 2 .. Len(tok) :
              FlagOf(tok[n]) = 0 /\ (\A m \in 2 .. n - 1 : FlagOf(tok[m]) # 0)
                => Stop(Tail(tok)) = n - 1
<1> DEFINE c == Tail(tok)
           stop == Stop(c)
           len == Len(tok)
<1>1. tok \in Seq(STRING) /\ len \in Nat /\ len >= 2
  BY DEF Text
<1>2. c \in Text /\ Len(c) = len - 1 /\ \A n \in 1 .. len - 1 : c[n] = tok[n + 1]
  BY <1>1, TailFacts DEF Text
<1>3. \/ /\ stop = 0
         /\ \A n \in 1 .. len - 1 : FlagOf(tok[n + 1]) # 0
      \/ /\ stop \in 1 .. len - 1
         /\ FlagOf(tok[stop + 1]) = 0
         /\ \A n \in 1 .. stop - 1 : FlagOf(tok[n + 1]) # 0
  <2>1. \/ /\ Stop(c) = 0
           /\ \A n \in 1 .. Len(c) : FlagOf(c[n]) # 0
        \/ /\ Stop(c) \in 1 .. Len(c)
           /\ FlagOf(c[Stop(c)]) = 0
           /\ \A n \in 1 .. Stop(c) - 1 : FlagOf(c[n]) # 0
    BY <1>2, StopFacts
  <2> HIDE DEF c, len
  <2>2. CASE Stop(c) = 0
    BY <1>2, <2>1, <2>2
  <2>3. CASE Stop(c) # 0
    <3>1. stop \in 1 .. len - 1 /\ FlagOf(c[stop]) = 0
      BY <1>2, <2>1, <2>3
    <3>2. \A n \in 1 .. stop - 1 : n \in 1 .. len - 1 /\ FlagOf(c[n]) # 0
      BY <1>1, <2>1, <2>3, <3>1
    <3> HIDE DEF stop
    <3> QED BY <1>2, <3>1, <3>2
  <2> QED BY <2>2, <2>3
<1> HIDE DEF c, stop, len
<1>4. ASSUME \A n \in 2 .. len : FlagOf(tok[n]) # 0
      PROVE  stop = 0
  <2>1. ASSUME stop \in 1 .. len - 1 PROVE FlagOf(tok[stop + 1]) # 0
    <3>1. stop + 1 \in 2 .. len
      BY <1>1, <2>1
    <3> QED BY <1>4, <3>1
  <2> QED BY <1>3, <2>1
<1>5. ASSUME NEW n \in 2 .. len, FlagOf(tok[n]) = 0, \A m \in 2 .. n - 1 : FlagOf(tok[m]) # 0
      PROVE  stop = n - 1
  <2>1. n - 1 \in 1 .. len - 1 /\ n = (n - 1) + 1
    BY <1>1
  <2>2. stop # 0
    BY <1>3, <1>5, <2>1
  <2>3. ~(n - 1 < stop)
    <3>1. n - 1 < stop => n - 1 \in 1 .. stop - 1
      BY <1>1, <1>3, <2>1
    <3> QED BY <1>3, <1>5, <2>1, <2>2, <3>1
  <2>4. ~(stop < n - 1)
    <3>1. stop < n - 1 => stop + 1 \in 2 .. n - 1
      BY <1>1, <1>3, <2>2
    <3> QED BY <1>3, <1>5, <2>2, <3>1
  <2> QED BY <1>1, <1>3, <2>2, <2>3, <2>4
<1> QED BY <1>4, <1>5 DEF stop, c, len

(* The use of a cluster's last name, when it is not a flag.                *)
LastUse(k, tok, n) ==
  /\ Len(ShortUse(k)) = n - 1
  /\ ShortUse(k)[n - 1] =
       IF find_short(tok[n], "Option") = 0 THEN <<0, <<>> >>
       ELSE Valued(find_short(tok[n], "Option"), k, SubSeq(tok, n + 1, Len(tok)))[1]

(* A cluster asks for its flags, one by one, and last for an option, with  *)
(* its value in what is left of the token or in the next one.              *)
LEMMA ShortUseFacts ==
  ASSUME tokens \in Seq(Text), NEW k \in 1 .. Len(tokens),
         NEW tok, tok = tokens[k], Len(tok) >= 2
  PROVE  /\ ShortUse(k) \in Seq(Use)
         /\ (\A n \in 2 .. Len(tok) : FlagOf(tok[n]) # 0) => Len(ShortUse(k)) = Len(tok) - 1
         /\ \A n \in 2 .. Len(tok) :
              (\A m \in 2 .. n : FlagOf(tok[m]) # 0)
                => n - 1 <= Len(ShortUse(k)) /\ ShortUse(k)[n - 1] = <<FlagOf(tok[n]), <<>> >>
         /\ \A n \in 2 .. Len(tok) :
              FlagOf(tok[n]) = 0 /\ (\A m \in 2 .. n - 1 : FlagOf(tok[m]) # 0)
                => LastUse(k, tok, n)
<1> DEFINE c == Tail(tok)
           stop == Stop(c)
           len == Len(tok)
           last == IF stop = 0 THEN len - 1 ELSE stop - 1
           flags == [j \in 1 .. last |-> <<FlagOf(c[j]), <<>> >>]
           opt == find_short(c[stop], "Option")
           rest == SubSeq(c, stop + 1, Len(c))
           end == IF opt = 0 THEN Wrong ELSE Valued(opt, k, rest)
<1>1. tok \in Text /\ tok \in Seq(STRING) /\ len \in Nat /\ len >= 2
  BY DEF Text
<1>2. c \in Text /\ Len(c) = len - 1 /\ \A n \in 1 .. len - 1 : c[n] = tok[n + 1]
  <2>1. Len(tok) >= 1
    BY <1>1
  <2>2. /\ Tail(tok) \in Seq(STRING) /\ Len(Tail(tok)) = Len(tok) - 1
        /\ \A n \in 1 .. Len(tok) - 1 : Tail(tok)[n] = tok[n + 1]
    BY <1>1, <2>1, TailFacts
  <2> QED BY <2>2 DEF Text
<1>3. \/ /\ stop = 0
         /\ \A n \in 1 .. len - 1 : FlagOf(c[n]) # 0
      \/ /\ stop \in 1 .. len - 1
         /\ FlagOf(c[stop]) = 0
         /\ \A n \in 1 .. stop - 1 : FlagOf(c[n]) # 0
  <2> HIDE DEF c, len
  <2> QED BY <1>2, StopFacts
<1>4. ShortUse(k) = IF stop = 0 THEN flags
                    ELSE IF opt = 0 THEN flags \o Wrong ELSE flags \o Valued(opt, k, rest)
  <2>1. Len(c) = len - 1
    BY <1>2
  <2> HIDE DEF len
  <2> QED BY <2>1 DEF ShortUse
<1> HIDE DEF c, stop, len
<1>5. flags \in Seq(Use) /\ Len(flags) = last /\ last \in 0 .. len - 1
  <2>1. last \in 0 .. len - 1
    BY <1>1, <1>3
  <2>2. ASSUME NEW j \in 1 .. last PROVE <<FlagOf(c[j]), <<>> >> \in Use
    <3>1. FlagOf(c[j]) = 0 \/ FlagOf(c[j]) \in Arg
      BY ShortFacts DEF FlagOf
    <3> QED BY <3>1, WrongFacts DEF Use
  <2> HIDE DEF last
  <2> QED BY <2>1, <2>2
<1>6. ASSUME stop # 0
      PROVE  /\ end \in Seq(Use) /\ Len(end) = 1
             /\ ShortUse(k) = flags \o end /\ rest \in Text
  <2>1. rest \in Text
    <3>1. stop + 1 \in 1 .. Len(c) + 1 /\ Len(c) \in 0 .. Len(c)
      BY <1>1, <1>2, <1>3, <1>6
    <3> QED BY <1>2, <3>1, CutFacts DEF Text
  <2>2. opt = 0 \/ opt \in Arg
    BY ShortFacts
  <2> HIDE DEF opt, rest, flags
  <2>3. CASE opt = 0
    BY <1>4, <1>6, <2>1, <2>3, WrongFacts
  <2>4. CASE opt # 0
    BY <1>4, <1>6, <2>1, <2>2, <2>4, ValuedFacts
  <2> QED BY <2>3, <2>4
<1>7. /\ ShortUse(k) \in Seq(Use)
      /\ Len(ShortUse(k)) = IF stop = 0 THEN last ELSE last + 1
      /\ \A n \in 1 .. last : ShortUse(k)[n] = flags[n]
      /\ stop # 0 => ShortUse(k)[last + 1] = end[1]
  <2> HIDE DEF last, flags, end, rest
  <2>1. CASE stop = 0
    BY <1>4, <1>5, <2>1
  <2>2. CASE stop # 0
    <3>1. end \in Seq(Use) /\ Len(end) = 1 /\ ShortUse(k) = flags \o end
      BY <1>6, <2>2
    <3>2. /\ flags \o end \in Seq(Use) /\ Len(flags \o end) = Len(flags) + Len(end)
          /\ \A x \in 1 .. Len(flags) : (flags \o end)[x] = flags[x]
          /\ \A x \in 1 .. Len(end) : (flags \o end)[Len(flags) + x] = end[x]
      <4>1. flags \in Seq(Use) /\ end \in Seq(Use)
        BY <1>5, <3>1
      <4> QED BY <4>1, ConcatFacts
    <3>3. 1 \in 1 .. Len(end)
      BY <3>1
    <3> QED BY <1>5, <2>2, <3>1, <3>2, <3>3
  <2> QED BY <2>1, <2>2
<1>8. \A n \in 1 .. last : ShortUse(k)[n] = <<FlagOf(c[n]), <<>> >>
  BY <1>7
<1>9. /\ (\A n \in 2 .. len : FlagOf(tok[n]) # 0) => stop = 0
      /\ \A n \in 2 .. len :
           FlagOf(tok[n]) = 0 /\ (\A m \in 2 .. n - 1 : FlagOf(tok[m]) # 0) => stop = n - 1
  BY <1>1, ClusterStop DEF c, stop, len
<1>10. (\A n \in 2 .. len : FlagOf(tok[n]) # 0) => Len(ShortUse(k)) = len - 1
  BY <1>7, <1>9
<1>11. ASSUME NEW n \in 2 .. len, \A m \in 2 .. n : FlagOf(tok[m]) # 0
       PROVE  n - 1 <= Len(ShortUse(k)) /\ ShortUse(k)[n - 1] = <<FlagOf(tok[n]), <<>> >>
  <2>1. n - 1 \in 1 .. len - 1 /\ c[n - 1] = tok[n]
    BY <1>1, <1>2
  <2>2. ASSUME stop # 0 PROVE n - 1 < stop
    <3>1. stop \in 1 .. len - 1 /\ FlagOf(tok[stop + 1]) = 0
      BY <1>2, <1>3, <2>2
    <3>2. ~(stop + 1 \in 2 .. n)
      BY <1>11, <3>1
    <3> QED BY <1>1, <3>1, <3>2
  <2>3. n - 1 \in 1 .. last
    BY <1>1, <1>3, <2>1, <2>2
  <2>4. n - 1 <= Len(ShortUse(k))
    BY <1>5, <1>7, <2>3
  <2> QED BY <1>8, <2>1, <2>3, <2>4
<1>12. ASSUME NEW n \in 2 .. len, FlagOf(tok[n]) = 0, \A m \in 2 .. n - 1 : FlagOf(tok[m]) # 0
       PROVE  /\ Len(ShortUse(k)) = n - 1
              /\ ShortUse(k)[n - 1] =
                   IF find_short(tok[n], "Option") = 0 THEN <<0, <<>> >>
                   ELSE Valued(find_short(tok[n], "Option"), k, SubSeq(tok, n + 1, len))[1]
  <2>1. stop = n - 1 /\ stop # 0 /\ last = n - 2 /\ last + 1 = n - 1
    BY <1>1, <1>9, <1>12
  <2>2. c[stop] = tok[n]
    BY <1>1, <1>2, <2>1
  <2>3. rest = SubSeq(tok, n + 1, len)
    <3>1. SubSeq(c, n, len - 1) = SubSeq(tok, n + 1, len)
      BY <1>1, SubTail DEF c, len
    <3>2. stop + 1 = n /\ Len(c) = len - 1
      BY <1>1, <1>2, <2>1
    <3> QED BY <3>1, <3>2
  <2>4. Len(ShortUse(k)) = n - 1
    BY <1>7, <2>1
  <2>5. ShortUse(k)[n - 1] = end[1]
    <3> HIDE DEF end, last
    <3> QED BY <1>7, <2>1
  <2>6. end = IF find_short(tok[n], "Option") = 0 THEN Wrong
              ELSE Valued(find_short(tok[n], "Option"), k, SubSeq(tok, n + 1, len))
    BY <2>2, <2>3
  <2> QED BY <2>4, <2>5, <2>6, WrongFacts
<1> QED BY <1>7, <1>10, <1>11, <1>12 DEF len, LastUse

(* Numbers up to a place that have a property, counted.                    *)
LEMMA CountFacts ==
  ASSUME NEW k \in Nat, NEW f
  PROVE  /\ Cardinality({j \in 1 .. k : f[j] = "positional"}) \in Nat
         /\ f[k + 1] = "positional" => Cardinality({j \in 1 .. k + 1 : f[j] = "positional"})
                                         = Cardinality({j \in 1 .. k : f[j] = "positional"}) + 1
         /\ f[k + 1] # "positional" => {j \in 1 .. k + 1 : f[j] = "positional"}
                                         = {j \in 1 .. k : f[j] = "positional"}
<1> DEFINE T(m) == {j \in 1 .. m : f[j] = "positional"}
<1>1. IsFiniteSet(T(k)) /\ Cardinality(T(k)) \in Nat
  <2>1. IsFiniteSet(1 .. k)
    BY FS_Interval
  <2>2. T(k) \subseteq 1 .. k
    OBVIOUS
  <2>3. IsFiniteSet(T(k))
    BY <2>1, <2>2, FS_Subset
  <2> QED BY <2>3, FS_CardinalityType
<1>2. ASSUME f[k + 1] = "positional"
      PROVE  Cardinality(T(k + 1)) = Cardinality(T(k)) + 1
  <2>1. T(k + 1) = T(k) \cup {k + 1} /\ k + 1 \notin T(k)
    BY <1>2
  <2> HIDE DEF T
  <2> QED BY <1>1, <2>1, FS_AddElement
<1>3. ASSUME f[k + 1] # "positional"
      PROVE  T(k + 1) = T(k)
  BY <1>3
<1> QED BY <1>1, <1>2, <1>3

LEMMA PositionalUseFacts ==
  ASSUME tokens \in Seq(Text), NEW k \in 1 .. Len(tokens), NEW role, role[k] = "positional",
         NEW nth, nth = Cardinality({j \in 1 .. k - 1 : role[j] = "positional"}) + 1
  PROVE  /\ PositionalUse(k, role) \in Seq(Use) /\ Len(PositionalUse(k, role)) = 1
         /\ nth > Len(Positionals) => PositionalUse(k, role)[1] = <<0, <<>> >>
         /\ nth <= Len(Positionals) => /\ nth \in 1 .. Len(Positionals)
                                       /\ PositionalUse(k, role)[1] = <<Positionals[nth], tokens[k]>>
<1>1. nth = Cardinality({j \in 1 .. k : role[j] = "positional"}) /\ nth \in Nat /\ nth >= 1
  <2>1. k - 1 \in Nat /\ (k - 1) + 1 = k
    OBVIOUS
  <2>2. role[(k - 1) + 1] = "positional"
    BY <2>1
  <2>3. /\ Cardinality({j \in 1 .. k - 1 : role[j] = "positional"}) \in Nat
        /\ Cardinality({j \in 1 .. (k - 1) + 1 : role[j] = "positional"})
             = Cardinality({j \in 1 .. k - 1 : role[j] = "positional"}) + 1
    BY <2>1, <2>2, CountFacts
  <2> QED BY <2>1, <2>3
<1>2. Len(Positionals) \in Nat /\ \A p \in 1 .. Len(Positionals) : Positionals[p] \in Arg
  BY PositionalFacts
<1>3. CASE nth > Len(Positionals)
  <2>1. PositionalUse(k, role) = Wrong
    BY <1>1, <1>3 DEF PositionalUse
  <2>2. ~(nth <= Len(Positionals))
    BY <1>1, <1>2, <1>3
  <2> QED BY <2>1, <2>2, WrongFacts
<1>4. CASE ~(nth > Len(Positionals))
  <2>1. PositionalUse(k, role) = << <<Positionals[nth], tokens[k]>> >>
    BY <1>1, <1>4 DEF PositionalUse
  <2>2. nth \in 1 .. Len(Positionals)
    BY <1>1, <1>2, <1>4
  <2>3. <<Positionals[nth], tokens[k]>> \in Use
    BY <1>2, <2>2 DEF Use
  <2> QED BY <1>4, <2>1, <2>2, <2>3
<1> QED BY <1>3, <1>4

(* An option starts with a dash and goes on.                               *)
LEMMA OptionFacts ==
  ASSUME tokens \in Seq(Text), NEW k \in 1 .. Len(tokens)
  PROVE  /\ Roles[k] \in {"value", "sentinel", "positional", "long", "short"}
         /\ Roles[k] \in {"long", "short"} =>
              /\ Len(tokens[k]) >= 2
              /\ Roles[k] = "long" <=> tokens[k][2] = "-"
<1>1. Roles[k] = RoleAt(Roles, k)
  BY RoleFacts
<1>2. Roles[k] \in {"long", "short"} =>
        /\ ~LooksPlain(tokens[k])
        /\ Roles[k] = IF tokens[k][2] = "-" THEN "long" ELSE "short"
  <2> DEFINE r == Roles[k]
             v == k > 1 /\ Roles[k - 1] \in {"long", "short"} /\ Takes(tokens[k - 1])
             s == \E j \in 1 .. k - 1 : Roles[j] = "sentinel"
  <2>1. r = IF v THEN "value" ELSE IF s THEN "positional"
            ELSE IF tokens[k] = <<"-", "-">> THEN "sentinel"
            ELSE IF LooksPlain(tokens[k]) THEN "positional"
            ELSE IF tokens[k][2] = "-" THEN "long" ELSE "short"
    BY <1>1 DEF RoleAt
  <2> HIDE DEF r, v, s
  <2>2. r \in {"long", "short"} =>
          ~LooksPlain(tokens[k]) /\ r = IF tokens[k][2] = "-" THEN "long" ELSE "short"
    BY <2>1
  <2> QED BY <2>2 DEF r
<1>3. ~LooksPlain(tokens[k]) => Len(tokens[k]) >= 2
  BY DEF LooksPlain
<1>4. Roles[k] \in {"value", "sentinel", "positional", "long", "short"}
  BY <1>1 DEF RoleAt
<1> QED BY <1>2, <1>3, <1>4

LEMMA UseOfFacts ==
  ASSUME tokens \in Seq(Text), NEW k \in 1 .. Len(tokens)
  PROVE  UseOf(k, Roles) \in Seq(Use)
<1>1. CASE Roles[k] = "long"
  <2>1. Len(tokens[k]) >= 2
    BY <1>1, OptionFacts
  <2>2. LongUse(k) \in Seq(Use)
    BY <2>1, LongUseFacts
  <2> QED BY <1>1, <2>2 DEF UseOf
<1>2. CASE Roles[k] = "short"
  <2>1. Len(tokens[k]) >= 2
    BY <1>2, OptionFacts
  <2>2. ShortUse(k) \in Seq(Use)
    BY <2>1, ShortUseFacts
  <2> QED BY <1>2, <2>2 DEF UseOf
<1>3. CASE Roles[k] = "positional"
  <2>1. PositionalUse(k, Roles) \in Seq(Use)
    BY <1>3, PositionalUseFacts
  <2> QED BY <1>3, <2>1 DEF UseOf
<1>4. CASE Roles[k] \notin {"long", "short", "positional"}
  <2>1. UseOf(k, Roles) = <<>>
    BY <1>4 DEF UseOf
  <2> QED BY <2>1
<1> QED BY <1>1, <1>2, <1>3, <1>4

(* How many things the first so many tokens ask for.                       *)
Places(at) ==
  /\ at[0] = 0
  /\ \A k \in 1 .. Len(tokens) :
       /\ at[k] = at[k - 1] + Len(UseOf(k, Roles)) /\ at[k] <= Len(Uses)
       /\ \A j \in 1 .. Len(UseOf(k, Roles)) : Uses[at[k - 1] + j] = UseOf(k, Roles)[j]
  /\ at[Len(tokens)] = Len(Uses)

At == CHOOSE at \in [0 .. Len(tokens) -> Nat] : Places(at)

LEMMA UsesFacts ==
  ASSUME tokens \in Seq(Text)
  PROVE  Uses \in Seq(Use) /\ At \in [0 .. Len(tokens) -> Nat] /\ Places(At)
<1> DEFINE N == Len(tokens)
           seqs == [k \in 1 .. N |-> UseOf(k, Roles)]
<1>1. N \in Nat /\ seqs \in [1 .. N -> Seq(Use)]
  BY UseOfFacts
<1>2. Uses = FlattenSeq(seqs)
  BY DEF Uses
<1> HIDE DEF seqs
<1>3. Uses \in Seq(Use)
  BY <1>1, <1>2, FlattenPlaces
<1>4. PICK at \in [0 .. N -> Nat] : LaidOut(at, seqs, N)
  BY <1>1, FlattenPlaces
<1>5. \A k \in 1 .. N : seqs[k] = UseOf(k, Roles)
  BY DEF seqs
<1>6. Places(at)
  BY <1>2, <1>4, <1>5 DEF Places, LaidOut
<1> QED BY <1>3, <1>4, <1>6 DEF At

-----------------------------------------------------------------------------
(* What was taken from the first so many things that were asked for.       *)

BadUse(u) ==
  \/ Uses[u][1] = 0
  \/ ~Args[Uses[u][1]].multi /\ \E v \in 1 .. u - 1 : Uses[v][1] = Uses[u][1]

HelpUse(u) == Args[Uses[u][1]].help

PiecesOf(a) ==
  [u \in 1 .. Len(Uses) |-> IF Uses[u][1] = a THEN Added(a, Uses[u][2]) ELSE <<>>]

Gathers(flat, a) ==
  /\ flat[0] = <<>>
  /\ \A u \in 1 .. Len(Uses) : flat[u] = flat[u - 1] \o PiecesOf(a)[u]
  /\ FlattenSeq(PiecesOf(a)) = flat[Len(Uses)]

Given(a) == CHOOSE flat \in [0 .. Len(Uses) -> Seq(Text)] : Gathers(flat, a)

Taken(d, passed, values) ==
  /\ d \in 0 .. Len(Uses)
  /\ \A u \in 1 .. d : ~BadUse(u) /\ ~HelpUse(u)
  /\ \A a \in Arg : /\ passed[a] <=> \E u \in 1 .. d : Uses[u][1] = a
                    /\ values[a] = Given(a)[d]

LEMMA GivenFacts ==
  ASSUME tokens \in Seq(Text), NEW a \in Arg
  PROVE  Given(a) \in [0 .. Len(Uses) -> Seq(Text)] /\ Gathers(Given(a), a)
<1> DEFINE N == Len(Uses)
           seqs == PiecesOf(a)
<1>1. Uses \in Seq(Use) /\ N \in Nat
  BY UsesFacts
<1>2. ASSUME NEW u \in 1 .. N PROVE Uses[u] \in Use /\ Uses[u][2] \in Text
  BY <1>1 DEF Use
<1>3. ASSUME NEW u \in 1 .. N
      PROVE  (IF Uses[u][1] = a THEN Added(a, Uses[u][2]) ELSE <<>>) \in Seq(Text)
  <2>1. Added(a, Uses[u][2]) \in Seq(Text)
    BY <1>2, AddedIsText
  <2>2. <<>> \in Seq(Text)
    OBVIOUS
  <2> QED BY <2>1, <2>2
<1>4. seqs \in [1 .. N -> Seq(Text)]
  BY <1>3 DEF PiecesOf
<1> HIDE DEF seqs, N
<1>5. PICK flat \in [0 .. N -> Seq(Text)] :
           /\ flat[0] = <<>>
           /\ \A k \in 1 .. N : flat[k] = flat[k - 1] \o seqs[k]
           /\ FlattenSeq(seqs) = flat[N]
  BY <1>1, <1>4, FlattenSteps
<1>6. Gathers(flat, a)
  BY <1>5 DEF Gathers, seqs, N
<1>7. \E g \in [0 .. Len(Uses) -> Seq(Text)] : Gathers(g, a)
  BY <1>6 DEF N
<1> QED BY <1>7 DEF Given

(* What ends the parsing.                                                  *)
LEMMA OutcomeIs ==
  LET Ends == {u \in DOMAIN Uses : BadUse(u) \/ HelpUse(u)} IN
  Outcome(Uses) =
    IF Ends # {}
    THEN IF BadUse(Min(Ends)) THEN "CliError" ELSE "CliHelpRequested"
    ELSE IF \E a \in Arg : Args[a].required /\ \A u \in DOMAIN Uses : Uses[u][1] # a
         THEN "CliError" ELSE "parsed"
BY DEF Outcome, BadUse, HelpUse

LEMMA FirstEnd ==
  ASSUME tokens \in Seq(Text), NEW d \in Nat, d + 1 <= Len(Uses),
         \A u \in 1 .. d : ~BadUse(u) /\ ~HelpUse(u), BadUse(d + 1) \/ HelpUse(d + 1)
  PROVE  Outcome(Uses) = IF BadUse(d + 1) THEN "CliError" ELSE "CliHelpRequested"
<1> DEFINE Ends == {u \in DOMAIN Uses : BadUse(u) \/ HelpUse(u)}
<1>1. Uses \in Seq(Use) /\ Len(Uses) \in Nat /\ DOMAIN Uses = 1 .. Len(Uses)
  BY UsesFacts
<1>2. d + 1 \in Ends
  BY <1>1
<1>3. Ends \subseteq Nat /\ Ends # {}
  BY <1>1, <1>2
<1>4. Min(Ends) \in Ends /\ \A y \in Ends : Min(Ends) <= y
  BY <1>3, MinFacts
<1>5. Min(Ends) \in Nat /\ Min(Ends) >= 1 /\ ~(Min(Ends) \in 1 .. d) /\ Min(Ends) <= d + 1
  BY <1>1, <1>2, <1>4
<1> HIDE DEF Ends
<1>6. Min(Ends) = d + 1
  BY <1>5
<1>7. Outcome(Uses) = IF BadUse(Min(Ends)) THEN "CliError" ELSE "CliHelpRequested"
  BY <1>3, OutcomeIs DEF Ends
<1> QED BY <1>6, <1>7

(* The next thing that is asked for is wrong, and the parser stops.        *)
LEMMA TakenFails ==
  ASSUME tokens \in Seq(Text), NEW d, NEW passed, NEW values, Taken(d, passed, values),
         d + 1 <= Len(Uses), NEW a, NEW val, Uses[d + 1] = <<a, val>>,
         a = 0 \/ (a \in Arg /\ passed[a] /\ ~Args[a].multi)
  PROVE  Outcome(Uses) = "CliError"
<1>1. d \in Nat /\ \A u \in 1 .. d : ~BadUse(u) /\ ~HelpUse(u)
  BY DEF Taken
<1>2. BadUse(d + 1)
  <2>1. CASE a = 0
    BY <2>1 DEF BadUse
  <2>2. CASE a \in Arg /\ passed[a] /\ ~Args[a].multi
    <3>1. \E v \in 1 .. d : Uses[v][1] = a
      BY <2>2 DEF Taken
    <3>2. (d + 1) - 1 = d /\ Uses[d + 1][1] = a
      BY <1>1
    <3> QED BY <2>2, <3>1, <3>2 DEF BadUse
  <2> QED BY <2>1, <2>2
<1> QED BY <1>1, <1>2, FirstEnd

(* The next thing that is asked for is a value of an argument.             *)
LEMMA TakenStep ==
  ASSUME tokens \in Seq(Text), NEW d, NEW passed, NEW values, Taken(d, passed, values),
         passed \in [Arg -> BOOLEAN], values \in [Arg -> Seq(Text)],
         d + 1 <= Len(Uses), NEW a \in Arg, NEW val \in Text, Uses[d + 1] = <<a, val>>,
         ~(passed[a] /\ ~Args[a].multi)
  PROVE  /\ Args[a].help => Outcome(Uses) = "CliHelpRequested"
         /\ ~Args[a].help => Taken(d + 1, [passed EXCEPT ![a] = TRUE],
                                          [values EXCEPT ![a] = @ \o Added(a, val)])
<1>1. /\ d \in 0 .. Len(Uses) /\ d \in Nat /\ Len(Uses) \in Nat
      /\ \A u \in 1 .. d : ~BadUse(u) /\ ~HelpUse(u)
      /\ \A b \in Arg : /\ passed[b] <=> \E u \in 1 .. d : Uses[u][1] = b
                        /\ values[b] = Given(b)[d]
  BY UsesFacts DEF Taken
<1>2. Uses[d + 1][1] = a /\ Uses[d + 1][2] = val /\ (d + 1) - 1 = d /\ d + 1 \in 1 .. Len(Uses)
  BY <1>1
<1>3. ~BadUse(d + 1)
  <2>1. a # 0
    BY ArgsAssumption DEF Arg
  <2> QED BY <1>1, <1>2, <2>1 DEF BadUse
<1>4. HelpUse(d + 1) <=> Args[a].help
  BY <1>2 DEF HelpUse
<1>5. ASSUME Args[a].help PROVE Outcome(Uses) = "CliHelpRequested"
  BY <1>1, <1>3, <1>4, <1>5, FirstEnd
<1>6. ASSUME ~Args[a].help
      PROVE  Taken(d + 1, [passed EXCEPT ![a] = TRUE], [values EXCEPT ![a] = @ \o Added(a, val)])
  <2> DEFINE p == [passed EXCEPT ![a] = TRUE]
             v == [values EXCEPT ![a] = @ \o Added(a, val)]
  <2>1. d + 1 \in 0 .. Len(Uses)
    BY <1>1, <1>2
  <2>2. \A u \in 1 .. d + 1 : u \in 1 .. d \/ u = d + 1
    BY <1>1
  <2>3. \A u \in 1 .. d + 1 : ~BadUse(u) /\ ~HelpUse(u)
    BY <1>1, <1>3, <1>4, <1>6, <2>2
  <2>4. ASSUME NEW b \in Arg
        PROVE  /\ p[b] <=> \E u \in 1 .. d + 1 : Uses[u][1] = b
               /\ v[b] = Given(b)[d + 1]
    <3>1. Given(b) \in [0 .. Len(Uses) -> Seq(Text)] /\ Gathers(Given(b), b)
      BY GivenFacts
    <3>2. Given(b)[d + 1] = Given(b)[d] \o PiecesOf(b)[d + 1]
      BY <1>2, <3>1 DEF Gathers
    <3>3. PiecesOf(b)[d + 1] = IF a = b THEN Added(b, val) ELSE <<>>
      BY <1>2 DEF PiecesOf
    <3>4. d + 1 \in 1 .. d + 1 /\ \A u \in 1 .. d : u \in 1 .. d + 1
      BY <1>1
    <3>5. CASE b = a
      <4>1. p[b] = TRUE /\ v[b] = values[b] \o Added(a, val)
        BY <3>5
      <4> QED BY <1>1, <1>2, <3>2, <3>3, <3>4, <3>5, <4>1
    <3>6. CASE b # a
      <4>1. p[b] = passed[b] /\ v[b] = values[b]
        BY <3>6
      <4>2. Given(b)[d] \in Seq(Text)
        BY <1>1, <3>1
      <4>3. Given(b)[d] \o <<>> = Given(b)[d]
        BY <4>2
      <4>4. v[b] = Given(b)[d + 1]
        BY <1>1, <3>2, <3>3, <3>6, <4>1, <4>3
      <4>5. p[b] <=> \E u \in 1 .. d + 1 : Uses[u][1] = b
        <5>1. p[b] <=> \E u \in 1 .. d : Uses[u][1] = b
          BY <1>1, <4>1
        <5> HIDE DEF p
        <5> QED BY <1>2, <2>2, <3>4, <3>6, <5>1
      <4> QED BY <4>4, <4>5
    <3> QED BY <3>5, <3>6
  <2> HIDE DEF p, v
  <2>5. Taken(d + 1, p, v)
    BY <2>1, <2>3, <2>4 DEF Taken
  <2> QED BY <2>5 DEF p, v
<1> QED BY <1>5, <1>6

(* Nothing more is asked for.                                              *)
LEMMA TakenAll ==
  ASSUME tokens \in Seq(Text), NEW passed, NEW values, Taken(Len(Uses), passed, values)
  PROVE  /\ Outcome(Uses) = IF \E a \in Arg : Args[a].required /\ ~passed[a] THEN "CliError" ELSE "parsed"
         /\ \A a \in Arg :
              /\ passed[a] <=> {u \in DOMAIN Uses : Uses[u][1] = a} # {}
              /\ values[a] = FlattenSeq(PiecesOf(a))
              /\ ~passed[a] => values[a] = <<>>
<1>1. DOMAIN Uses = 1 .. Len(Uses) /\ Len(Uses) \in Nat
  BY UsesFacts
<1>2. /\ \A u \in 1 .. Len(Uses) : ~BadUse(u) /\ ~HelpUse(u)
      /\ \A a \in Arg : /\ passed[a] <=> \E u \in 1 .. Len(Uses) : Uses[u][1] = a
                        /\ values[a] = Given(a)[Len(Uses)]
  BY DEF Taken
<1>3. {u \in DOMAIN Uses : BadUse(u) \/ HelpUse(u)} = {}
  BY <1>1, <1>2
<1>4. Outcome(Uses) = IF \E a \in Arg : Args[a].required /\ \A u \in DOMAIN Uses : Uses[u][1] # a
                      THEN "CliError" ELSE "parsed"
  BY <1>3, OutcomeIs
<1>5. ASSUME NEW a \in Arg
      PROVE  /\ passed[a] <=> {u \in DOMAIN Uses : Uses[u][1] = a} # {}
             /\ passed[a] <=> ~(\A u \in DOMAIN Uses : Uses[u][1] # a)
             /\ values[a] = FlattenSeq(PiecesOf(a))
             /\ ~passed[a] => values[a] = <<>>
  <2>1. Given(a) \in [0 .. Len(Uses) -> Seq(Text)] /\ Gathers(Given(a), a)
    BY GivenFacts
  <2>2. values[a] = FlattenSeq(PiecesOf(a))
    BY <1>2, <2>1 DEF Gathers
  <2>3. /\ passed[a] <=> {u \in DOMAIN Uses : Uses[u][1] = a} # {}
        /\ passed[a] <=> ~(\A u \in DOMAIN Uses : Uses[u][1] # a)
    BY <1>1, <1>2
  <2>4. ASSUME ~passed[a] PROVE values[a] = <<>>
    <3> DEFINE T == {u \in 0 .. Len(Uses) : Given(a)[u] = <<>>}
    <3>1. 0 \in T
      BY <1>1, <2>1 DEF Gathers
    <3>2. ASSUME NEW u \in 1 .. Len(Uses), u - 1 \in T PROVE u \in T
      <4>1. Uses[u][1] # a
        BY <1>2, <2>4
      <4>2. PiecesOf(a)[u] = <<>>
        BY <4>1 DEF PiecesOf
      <4>3. Given(a)[u] = <<>> \o <<>>
        BY <2>1, <3>2, <4>2 DEF Gathers
      <4>4. <<>> \o <<>> = <<>>
        OBVIOUS
      <4> QED BY <1>1, <4>3, <4>4
    <3>3. 0 .. Len(Uses) \subseteq T
      <4> HIDE DEF T
      <4> QED BY <1>1, <3>1, <3>2, Upwards
    <3> QED BY <1>1, <1>2, <3>3
  <2> QED BY <2>2, <2>3, <2>4
<1>6. (\E a \in Arg : Args[a].required /\ \A u \in DOMAIN Uses : Uses[u][1] # a)
        <=> \E a \in Arg : Args[a].required /\ ~passed[a]
  BY <1>5
<1> QED BY <1>4, <1>5, <1>6

-----------------------------------------------------------------------------
(* The types.                                                              *)

TypeInv ==
  /\ TypeOK
  /\ pos_index \in Nat \ {0}
  /\ stage = "reset" => i = 1 /\ ci = 0 /\ end_of_flags = FALSE /\ pos_index = 1

LEMMA TokenFacts ==
  ASSUME TypeInv, AtToken \/ InCluster
  PROVE  /\ stage = "tokens" /\ i \in 1 .. Len(tokens) /\ Len(tokens) \in Nat
         /\ tokens \in Seq(Text) /\ Tok = tokens[i]
         /\ Tok \in Text /\ Tok \in Seq(STRING) /\ Len(Tok) \in Nat
<1>1. tokens \in Seq(Text) /\ Len(tokens) \in Nat /\ i \in 1 .. Len(tokens) + 1
  BY DEF TypeInv, TypeOK
<1>2. stage = "tokens" /\ i \in 1 .. Len(tokens)
  BY <1>1 DEF TypeInv, TypeOK, AtToken, InCluster
<1>3. tokens[i] \in Text
  BY <1>1, <1>2
<1> QED BY <1>1, <1>2, <1>3 DEF Tok, Text

LEMMA OptionTokenFacts ==
  ASSUME TypeInv, IsOption
  PROVE  /\ AtToken /\ ~end_of_flags /\ Len(Tok) >= 2 /\ ~LooksPlain(Tok)
         /\ Tok # <<"-", "-">>
BY DEF IsOption, IsPlain, LooksPlain

LEMMA LongTokenFacts ==
  ASSUME TypeInv, IsLong
  PROVE  /\ LongName = NameAt(i) /\ Equals = EqualsAt(i) /\ Inline = InlineAt(i)
         /\ find_long(LongName, "Flag") = FlagAt(i) /\ find_long(LongName, "Option") = OptionAt(i)
         /\ LongName \in Text /\ Inline \in Text
         /\ FlagAt(i) # 0 => FlagAt(i) \in Arg /\ Args[FlagAt(i)].kind = "Flag"
         /\ OptionAt(i) # 0 => OptionAt(i) \in Arg /\ Args[OptionAt(i)].kind = "Option"
<1>1. Len(Tok) >= 2 /\ i \in 1 .. Len(tokens) /\ tokens \in Seq(Text) /\ Tok = tokens[i]
  BY TokenFacts, OptionTokenFacts DEF IsLong
<1>2. Body = BodyAt(i)
  BY DEF Body, BodyAt, Tok
<1>3. Equals = EqualsAt(i)
  BY <1>2 DEF Equals, EqualsAt, EqualsIn
<1>4. LongName = NameAt(i) /\ Inline = InlineAt(i)
  BY <1>2, <1>3 DEF LongName, NameAt, Inline, InlineAt
<1>5. NameAt(i) \in Text /\ InlineAt(i) \in Text
  BY <1>1, LongUseFacts
<1>6. /\ FlagAt(i) # 0 => FlagAt(i) \in Arg /\ Args[FlagAt(i)].kind = "Flag"
      /\ OptionAt(i) # 0 => OptionAt(i) \in Arg /\ Args[OptionAt(i)].kind = "Option"
  BY LongFacts DEF FlagAt, OptionAt
<1> QED BY <1>3, <1>4, <1>5, <1>6 DEF FlagAt, OptionAt

LEMMA ClusterFacts ==
  ASSUME TypeInv, InCluster, ci <= Len(Tok)
  PROVE  /\ ci \in 2 .. Len(Tok)
         /\ SubSeq(Tok, ci + 1, Len(Tok)) \in Text
         /\ SubSeq(Tok, ci + 1, Len(Tok)) = <<>> <=> Len(SubSeq(Tok, ci + 1, Len(Tok))) = 0
         /\ Len(SubSeq(Tok, ci + 1, Len(Tok))) = 0 <=> ci = Len(Tok)
         /\ \A c, kind : find_short(c, kind) # 0 =>
              find_short(c, kind) \in Arg /\ Args[find_short(c, kind)].kind = kind
<1>1. /\ i \in 1 .. Len(tokens) /\ Tok = tokens[i]
      /\ Tok \in Text /\ Tok \in Seq(STRING) /\ Len(Tok) \in Nat
  BY TokenFacts
<1>2. ci \in 2 .. Len(Tok)
  BY <1>1 DEF TypeInv, TypeOK, InCluster
<1> DEFINE rest == SubSeq(Tok, ci + 1, Len(Tok))
<1>3. /\ rest \in Seq(STRING)
      /\ ci + 1 <= Len(Tok) => Len(rest) = Len(Tok) - (ci + 1) + 1
      /\ ci + 1 > Len(Tok) => Len(rest) = 0
  <2>1. ci + 1 \in 1 .. Len(Tok) + 1 /\ Len(Tok) \in 0 .. Len(Tok)
    BY <1>1, <1>2
  <2> QED BY <1>1, <2>1, CutFacts
<1>4. rest = <<>> <=> Len(rest) = 0
  BY <1>3, NoLength
<1>5. Len(rest) = 0 <=> ci = Len(Tok)
  <2> HIDE DEF rest
  <2> QED BY <1>1, <1>2, <1>3
<1> QED BY <1>2, <1>3, <1>4, <1>5, ShortFacts DEF Text

LEMMA HitFacts ==
  ASSUME TypeInv, stage = "tokens", NEW a \in Arg, NEW val \in Text, Hit(a, val)
  PROVE  /\ seen' \in [Arg -> BOOLEAN] /\ parsed_values' \in [Arg -> Seq(Text)]
         /\ seen' = [seen EXCEPT ![a] = TRUE]
         /\ parsed_values' = [parsed_values EXCEPT ![a] = @ \o Added(a, val)]
         /\ Args[a].kind # "Positional" =>
              \A p \in DOMAIN Positionals : seen'[Positionals[p]] <=> p < pos_index
         /\ pos_index \in DOMAIN Positionals /\ a = Positionals[pos_index] =>
              \A p \in DOMAIN Positionals : seen'[Positionals[p]] <=> p < pos_index + 1
<1>1. /\ seen \in [Arg -> BOOLEAN] /\ parsed_values \in [Arg -> Seq(Text)] /\ pos_index \in Nat
      /\ \A p \in DOMAIN Positionals : seen[Positionals[p]] <=> p < pos_index
  BY DEF TypeInv, TypeOK
<1>2. /\ seen' = [seen EXCEPT ![a] = TRUE]
      /\ parsed_values' = [parsed_values EXCEPT ![a] = @ \o Added(a, val)]
  BY DEF Hit
<1>3. seen' \in [Arg -> BOOLEAN]
  BY <1>1, <1>2
<1>4. parsed_values' \in [Arg -> Seq(Text)]
  <2>1. parsed_values[a] \o Added(a, val) \in Seq(Text)
    <3>1. Added(a, val) \in Seq(Text) /\ parsed_values[a] \in Seq(Text)
      BY <1>1, AddedIsText
    <3> QED BY <3>1, ConcatFacts
  <2> QED BY <1>1, <1>2, <2>1
<1>5. /\ DOMAIN Positionals = 1 .. Len(Positionals) /\ Len(Positionals) \in Nat
      /\ \A p \in DOMAIN Positionals : /\ Positionals[p] \in Arg
                                       /\ Args[Positionals[p]].kind = "Positional"
      /\ \A p, q \in DOMAIN Positionals : Positionals[p] = Positionals[q] => p = q
  BY PositionalFacts
<1>6. \A b \in Arg : seen'[b] <=> (b = a \/ seen[b])
  BY <1>1, <1>2
<1>7. ASSUME Args[a].kind # "Positional", NEW p \in DOMAIN Positionals
      PROVE  seen'[Positionals[p]] <=> p < pos_index
  BY <1>1, <1>5, <1>6, <1>7
<1>8. ASSUME pos_index \in DOMAIN Positionals, a = Positionals[pos_index], NEW p \in DOMAIN Positionals
      PROVE  seen'[Positionals[p]] <=> p < pos_index + 1
  <2>1. Positionals[p] = a <=> p = pos_index
    BY <1>5, <1>8
  <2>2. p < pos_index + 1 <=> (p < pos_index \/ p = pos_index)
    BY <1>1, <1>5
  <2> QED BY <1>1, <1>5, <1>6, <2>1, <2>2
<1> QED BY <1>2, <1>3, <1>4, <1>7, <1>8

LEMMA EndTypes ==
  ASSUME TypeInv, stage = "tokens", NEW how, how \in {"parsed", "CliError", "CliHelpRequested"}, End(how)
  PROVE  TypeInv'
BY DEF TypeInv, TypeOK, End

(* A hit on a flag or on an option, and wherever the parser goes on.       *)
LEMMA HitTypes ==
  ASSUME TypeInv, stage = "tokens", NEW a \in Arg, NEW val \in Text, Hit(a, val),
         Args[a].kind # "Positional", tokens' = tokens, pos_index' = pos_index,
         end_of_flags' = end_of_flags, stage' \in {"tokens", "CliHelpRequested"},
         i' \in 1 .. Len(tokens) + 1,
         ci' # 0 => i' <= Len(tokens) /\ ci' \in 2 .. Len(tokens[i']) + 1
  PROVE  TypeInv'
<1>1. /\ seen' \in [Arg -> BOOLEAN] /\ parsed_values' \in [Arg -> Seq(Text)]
      /\ \A p \in DOMAIN Positionals : seen'[Positionals[p]] <=> p < pos_index'
  BY HitFacts
<1>2. tokens \in Seq(Text) /\ end_of_flags \in BOOLEAN /\ pos_index \in Nat
  BY DEF TypeInv, TypeOK
<1> QED BY <1>1, <1>2 DEF TypeInv, TypeOK

LEMMA TypeStep ==
  ASSUME TypeInv, [Next]_vars
  PROVE  TypeInv'
<1>1. CASE Reset
  <2>1. /\ seen' = [a \in Arg |-> FALSE] /\ parsed_values' = [a \in Arg |-> <<>>]
        /\ stage' = "tokens" /\ stage = "reset"
        /\ UNCHANGED <<tokens, i, ci, end_of_flags, pos_index>>
    BY <1>1 DEF Reset
  <2>2. seen' \in [Arg -> BOOLEAN] /\ parsed_values' \in [Arg -> Seq(Text)]
    BY <2>1
  <2>3. \A p \in DOMAIN Positionals : Positionals[p] \in Arg /\ ~(p < 1)
    BY PositionalFacts
  <2>4. \A p \in DOMAIN Positionals : seen'[Positionals[p]] <=> p < pos_index'
    BY <2>1, <2>3 DEF TypeInv
  <2> QED BY <2>1, <2>2, <2>4 DEF TypeInv, TypeOK
<1>2. CASE Sentinel
  <2>1. i \in 1 .. Len(tokens) /\ Len(tokens) \in Nat
    BY <1>2, TokenFacts DEF Sentinel
  <2> QED BY <1>2, <2>1 DEF Sentinel, AtToken, TypeInv, TypeOK
<1>3. CASE TakePositional
  <2>1. /\ i \in 1 .. Len(tokens) /\ Len(tokens) \in Nat /\ stage = "tokens" /\ Tok \in Text
        /\ AtToken
    BY <1>3, TokenFacts DEF TakePositional
  <2>2. CASE pos_index > Len(Positionals)
    BY <1>3, <2>1, <2>2, EndTypes DEF TakePositional
  <2>3. CASE ~(pos_index > Len(Positionals))
    <3>1. /\ Hit(Positionals[pos_index], Tok) /\ pos_index' = pos_index + 1 /\ Advance(1)
      BY <1>3, <2>3 DEF TakePositional
    <3>2. i' = i + 1 /\ ci' = 0 /\ UNCHANGED <<tokens, end_of_flags, stage>>
      BY <3>1 DEF Advance
    <3>3. pos_index \in 1 .. Len(Positionals)
      BY <2>3, PositionalFacts DEF TypeInv
    <3>4. Positionals[pos_index] \in Arg /\ pos_index \in DOMAIN Positionals
      BY <3>3, PositionalFacts
    <3>5. /\ seen' \in [Arg -> BOOLEAN] /\ parsed_values' \in [Arg -> Seq(Text)]
          /\ \A p \in DOMAIN Positionals : seen'[Positionals[p]] <=> p < pos_index'
      BY <2>1, <3>1, <3>4, HitFacts
    <3>6. pos_index' \in Nat \ {0}
      BY <3>1, <3>3
    <3> QED BY <2>1, <3>2, <3>5, <3>6 DEF TypeInv, TypeOK
  <2> QED BY <2>2, <2>3
<1>4. CASE LongFlag
  <2> DEFINE flag == find_long(LongName, "Flag")
  <2>1. IsLong /\ AtToken /\ stage = "tokens" /\ i \in 1 .. Len(tokens) /\ Len(tokens) \in Nat
    BY <1>4, TokenFacts DEF LongFlag, IsLong, IsOption
  <2>2. flag \in Arg /\ Args[flag].kind = "Flag" /\ <<>> \in Text
    BY <1>4, <2>1, LongTokenFacts, WrongFacts DEF LongFlag
  <2>3. CASE Equals # 0 \/ Repeated(flag)
    BY <1>4, <2>1, <2>3, EndTypes DEF LongFlag
  <2>4. CASE ~(Equals # 0 \/ Repeated(flag))
    <3>1. /\ Hit(flag, <<>>) /\ i' = i + 1
          /\ stage' \in {stage, "CliHelpRequested"}
          /\ UNCHANGED <<tokens, ci, end_of_flags, pos_index>>
      BY <1>4, <2>4 DEF LongFlag
    <3>2. i' \in 1 .. Len(tokens) + 1 /\ ci' = 0
      BY <2>1, <3>1 DEF AtToken
    <3>3. Args[flag].kind # "Positional"
      BY <2>2
    <3> HIDE DEF flag
    <3> QED BY <2>1, <2>2, <3>1, <3>2, <3>3, HitTypes
  <2> QED BY <2>3, <2>4
<1>5. CASE LongOption
  <2> DEFINE opt == find_long(LongName, "Option")
             val == IF Equals = 0 THEN tokens[i + 1] ELSE Inline
  <2>1. /\ IsLong /\ AtToken /\ stage = "tokens" /\ i \in 1 .. Len(tokens) /\ Len(tokens) \in Nat
        /\ tokens \in Seq(Text)
    BY <1>5, TokenFacts DEF LongOption, IsLong, IsOption
  <2>2. opt \in Arg /\ Args[opt].kind = "Option" /\ Inline \in Text
    BY <1>5, <2>1, LongTokenFacts DEF LongOption
  <2>3. CASE (Equals = 0 /\ i = Len(tokens)) \/ Repeated(opt)
    BY <1>5, <2>1, <2>3, EndTypes DEF LongOption
  <2>4. CASE ~((Equals = 0 /\ i = Len(tokens)) \/ Repeated(opt))
    <3>1. /\ Hit(opt, val) /\ Advance(IF Equals = 0 THEN 2 ELSE 1) /\ UNCHANGED pos_index
      BY <1>5, <2>4 DEF LongOption
    <3>2. /\ i' = i + (IF Equals = 0 THEN 2 ELSE 1) /\ ci' = 0
          /\ UNCHANGED <<tokens, end_of_flags, stage>>
      BY <3>1 DEF Advance
    <3>3. val \in Text
      <4>1. Equals = 0 => i + 1 \in 1 .. Len(tokens)
        BY <2>1, <2>4
      <4> QED BY <2>1, <2>2, <4>1
    <3>4. i' \in 1 .. Len(tokens) + 1
      <4>1. CASE Equals = 0
        BY <2>1, <2>4, <3>2, <4>1
      <4>2. CASE Equals # 0
        BY <2>1, <3>2, <4>2
      <4> QED BY <4>1, <4>2
    <3>5. Args[opt].kind # "Positional"
      BY <2>2
    <3> HIDE DEF opt, val
    <3> QED BY <2>1, <2>2, <3>1, <3>2, <3>3, <3>4, <3>5, HitTypes
  <2> QED BY <2>3, <2>4
<1>6. CASE LongUnknown
  <2>1. End("CliError") /\ stage = "tokens"
    BY <1>6, TokenFacts DEF LongUnknown, IsLong, IsOption
  <2> QED BY <2>1, EndTypes
<1>7. CASE BeginCluster
  <2>1. /\ AtToken /\ i \in 1 .. Len(tokens) /\ tokens \in Seq(Text) /\ Len(Tok) >= 2
        /\ Len(Tok) \in Nat /\ Tok = tokens[i] /\ Len(tokens) \in Nat
    BY <1>7, TokenFacts, OptionTokenFacts DEF BeginCluster
  <2>2. 2 \in 2 .. Len(tokens[i]) + 1 /\ i <= Len(tokens)
    BY <2>1
  <2> QED BY <1>7, <2>1, <2>2 DEF BeginCluster, AtToken, TypeInv, TypeOK
<1>8. CASE ShortFlag
  <2> DEFINE flag == find_short(Tok[ci], "Flag")
  <2>1. /\ InCluster /\ stage = "tokens" /\ i \in 1 .. Len(tokens) /\ Len(tokens) \in Nat
        /\ ci \in 2 .. Len(Tok) /\ Tok = tokens[i] /\ Len(Tok) \in Nat
    BY <1>8, TokenFacts, ClusterFacts DEF ShortFlag
  <2>2. flag \in Arg /\ Args[flag].kind = "Flag" /\ <<>> \in Text
    BY <1>8, <2>1, ClusterFacts, WrongFacts DEF ShortFlag
  <2>3. CASE Repeated(flag)
    BY <1>8, <2>1, <2>3, EndTypes DEF ShortFlag
  <2>4. CASE ~Repeated(flag)
    <3>1. /\ Hit(flag, <<>>) /\ ci' = ci + 1
          /\ stage' \in {stage, "CliHelpRequested"}
          /\ UNCHANGED <<tokens, i, end_of_flags, pos_index>>
      BY <1>8, <2>4 DEF ShortFlag
    <3>2. i' \in 1 .. Len(tokens) + 1 /\ i' <= Len(tokens) /\ ci' \in 2 .. Len(tokens[i']) + 1
      BY <2>1, <3>1
    <3>3. Args[flag].kind # "Positional"
      BY <2>2
    <3> HIDE DEF flag
    <3> QED BY <2>1, <2>2, <3>1, <3>2, <3>3, HitTypes
  <2> QED BY <2>3, <2>4
<1>9. CASE ShortOption
  <2> DEFINE opt == find_short(Tok[ci], "Option")
             remainder == SubSeq(Tok, ci + 1, Len(Tok))
             val == IF remainder = <<>> THEN tokens[i + 1] ELSE remainder
  <2>1. /\ InCluster /\ stage = "tokens" /\ i \in 1 .. Len(tokens) /\ Len(tokens) \in Nat
        /\ tokens \in Seq(Text) /\ ci <= Len(Tok)
    BY <1>9, TokenFacts DEF ShortOption
  <2>2. opt \in Arg /\ Args[opt].kind = "Option" /\ remainder \in Text
    BY <1>9, <2>1, ClusterFacts DEF ShortOption
  <2>3. CASE (remainder = <<>> /\ i = Len(tokens)) \/ Repeated(opt)
    BY <1>9, <2>1, <2>3, EndTypes DEF ShortOption
  <2>4. CASE ~((remainder = <<>> /\ i = Len(tokens)) \/ Repeated(opt))
    <3>1. /\ Hit(opt, val) /\ Advance(IF remainder = <<>> THEN 2 ELSE 1) /\ UNCHANGED pos_index
      BY <1>9, <2>4 DEF ShortOption
    <3>2. /\ i' = i + (IF remainder = <<>> THEN 2 ELSE 1) /\ ci' = 0
          /\ UNCHANGED <<tokens, end_of_flags, stage>>
      BY <3>1 DEF Advance
    <3> HIDE DEF remainder
    <3>3. val \in Text
      <4>1. remainder = <<>> => i + 1 \in 1 .. Len(tokens)
        BY <2>1, <2>4
      <4> QED BY <2>1, <2>2, <4>1
    <3>4. i' \in 1 .. Len(tokens) + 1
      <4>1. CASE remainder = <<>>
        BY <2>1, <2>4, <3>2, <4>1
      <4>2. CASE remainder # <<>>
        BY <2>1, <3>2, <4>2
      <4> QED BY <4>1, <4>2
    <3>5. Args[opt].kind # "Positional"
      BY <2>2
    <3> HIDE DEF opt, val
    <3> QED BY <2>1, <2>2, <3>1, <3>2, <3>3, <3>4, <3>5, HitTypes
  <2> QED BY <2>3, <2>4
<1>10. CASE ShortUnknown
  <2>1. End("CliError") /\ stage = "tokens"
    BY <1>10 DEF ShortUnknown, InCluster
  <2> QED BY <2>1, EndTypes
<1>11. CASE EndCluster
  <2>1. i \in 1 .. Len(tokens) /\ Len(tokens) \in Nat /\ stage = "tokens"
    BY <1>11, TokenFacts DEF EndCluster
  <2> QED BY <1>11, <2>1 DEF EndCluster, Advance, TypeInv, TypeOK
<1>12. CASE Finish
  <2>1. /\ stage = "tokens" /\ stage' \in {"CliError", "parsed"}
        /\ parsed_values' = [a \in Arg |-> IF ~seen[a] /\ Args[a].default # <<>>
                                          THEN Added(a, Args[a].default[1]) ELSE parsed_values[a]]
        /\ UNCHANGED <<tokens, i, ci, end_of_flags, pos_index, seen>>
    BY <1>12 DEF Finish
  <2>2. ASSUME NEW a \in Arg
        PROVE  (IF ~seen[a] /\ Args[a].default # <<>>
                THEN Added(a, Args[a].default[1]) ELSE parsed_values[a]) \in Seq(Text)
    <3>1. parsed_values[a] \in Seq(Text)
      BY DEF TypeInv, TypeOK
    <3>2. CASE Args[a].default # <<>>
      <4>1. Args[a].default \in Seq(Text)
        <5>1. Args[a] \in Registered
          BY ArgsAssumption DEF Arg
        <5> QED BY <5>1 DEF Registered
      <4>2. Len(Args[a].default) # 0 /\ Len(Args[a].default) \in Nat
        BY <3>2, <4>1, NoLength
      <4>3. Args[a].default[1] \in Text
        BY <4>1, <4>2
      <4>4. Added(a, Args[a].default[1]) \in Seq(Text)
        BY <4>3, AddedIsText
      <4> QED BY <3>1, <4>4
    <3> QED BY <3>1, <3>2
  <2>3. parsed_values' \in [Arg -> Seq(Text)]
    BY <2>1, <2>2
  <2> QED BY <2>1, <2>3 DEF TypeInv, TypeOK
<1>13. CASE Ended \/ UNCHANGED vars
  BY <1>13 DEF Ended, vars, TypeInv, TypeOK
<1> QED BY <1>1, <1>2, <1>3, <1>4, <1>5, <1>6, <1>7, <1>8, <1>9, <1>10, <1>11, <1>12, <1>13 DEF Next

LEMMA TypeInit ==
  ASSUME Init
  PROVE  TypeInv
<1>1. PICK used \in BOOLEAN :
        /\ seen = [a \in Arg |-> used]
        /\ parsed_values = [a \in Arg |->
             IF ~used THEN <<>> ELSE IF Args[a].kind = "Flag" THEN << <<>> >> ELSE <<Old>>]
  BY DEF Init
<1>2. <<>> \in Seq(Text) /\ << <<>> >> \in Seq(Text) /\ <<Old>> \in Seq(Text)
  <2>1. <<>> \in Text /\ Old \in Text
    BY CommandLinesAssumption DEF Text
  <2>2. \A val \in Text : <<val>> \in Seq(Text)
    OBVIOUS
  <2> QED BY <2>1, <2>2
<1>3. ASSUME NEW a \in Arg
      PROVE  (IF ~used THEN <<>> ELSE IF Args[a].kind = "Flag" THEN << <<>> >> ELSE <<Old>>)
               \in Seq(Text)
  BY <1>2
<1>4. parsed_values \in [Arg -> Seq(Text)] /\ seen \in [Arg -> BOOLEAN]
  BY <1>1, <1>3
<1>5. /\ tokens \in CommandLines /\ i = 1 /\ ci = 0 /\ end_of_flags = FALSE /\ pos_index = 1
      /\ stage = "reset"
  BY DEF Init
<1>6. tokens \in Seq(Text) /\ Len(tokens) \in Nat
  BY <1>5, CommandLinesAssumption
<1>7. i \in 1 .. Len(tokens) + 1 /\ pos_index \in Nat \ {0}
  BY <1>5, <1>6
<1>8. TypeOK
  BY <1>4, <1>5, <1>6, <1>7 DEF TypeOK
<1> QED BY <1>5, <1>7, <1>8 DEF TypeInv

(* The tokens, the place of the parser in them and the results have their  *)
(* types all the time; a place in a cluster is one of the token that the   *)
(* parser is at; and the slots that are filled are the first ones.         *)
THEOREM TypesAreKept == Spec => []TypeOK
<1>1. Init => TypeInv
  BY TypeInit
<1>2. TypeInv /\ [Next]_vars => TypeInv'
  BY TypeStep
<1>3. TypeInv => TypeOK
  BY DEF TypeInv
<1> QED BY <1>1, <1>2, <1>3, PTL DEF Spec

-----------------------------------------------------------------------------
(* The place of the parser.                                                *)

EndBy(n) == \E j \in 1 .. n : Roles[j] = "sentinel"
SlotBy(n) == Cardinality({j \in 1 .. n : Roles[j] = "positional"}) + 1

(* The parser is at piece c of token n, or at the start of it: this token  *)
(* is not the value of an option, and all that the pieces before it ask    *)
(* for was taken.                                                          *)
ReadingAt(n, c, end, pos, passed, values) ==
  /\ n <= Len(tokens) => Roles[n] # "value"
  /\ end <=> EndBy(n - 1)
  /\ pos = SlotBy(n - 1)
  /\ c # 0 => /\ n <= Len(tokens) /\ Roles[n] = "short"
              /\ \A m \in 2 .. c - 1 : FlagOf(tokens[n][m]) # 0
  /\ Taken(At[n - 1] + (IF c = 0 THEN 0 ELSE c - 2), passed, values)

Reading == ReadingAt(i, ci, end_of_flags, pos_index, seen, parsed_values)

LEMMA RolesKept ==
  ASSUME tokens' = tokens
  PROVE  Roles' = Roles
BY DEF Roles

LEMMA UseOfKept ==
  ASSUME tokens' = tokens, NEW k, NEW role
  PROVE  UseOf(k, role)' = UseOf(k, role)
BY DEF UseOf, LongUse, ShortUse, Valued, PositionalUse

LEMMA UsesKept ==
  ASSUME tokens' = tokens
  PROVE  Uses' = Uses
BY RolesKept, UseOfKept DEF Uses

LEMMA AtKept ==
  ASSUME tokens' = tokens
  PROVE  At' = At
<1>1. Uses' = Uses /\ Roles' = Roles
  BY RolesKept, UsesKept
<1>2. \A k : UseOf(k, Roles)' = UseOf(k, Roles)
  BY <1>1 DEF UseOf, LongUse, ShortUse, Valued, PositionalUse
<1>3. ASSUME NEW at PROVE Places(at)' = Places(at)
  BY <1>1, <1>2 DEF Places
<1> QED BY <1>3 DEF At

LEMMA GivenKept ==
  ASSUME tokens' = tokens, NEW a
  PROVE  Given(a)' = Given(a)
<1>1. Uses' = Uses
  BY UsesKept
<1>2. PiecesOf(a)' = PiecesOf(a)
  BY <1>1 DEF PiecesOf
<1>3. ASSUME NEW flat PROVE Gathers(flat, a)' = Gathers(flat, a)
  BY <1>1, <1>2 DEF Gathers
<1> QED BY <1>1, <1>3 DEF Given

LEMMA TakenKept ==
  ASSUME tokens' = tokens, NEW d, NEW passed, NEW values
  PROVE  Taken(d, passed, values)' = Taken(d, passed, values)
<1>1. Uses' = Uses
  BY UsesKept
<1> QED BY <1>1, GivenKept DEF Taken, BadUse, HelpUse

LEMMA ReadingKept ==
  ASSUME tokens' = tokens,
         ReadingAt(i', ci', end_of_flags', pos_index', seen', parsed_values')
  PROVE  Reading'
<1>1. Roles' = Roles /\ At' = At
  BY RolesKept, AtKept
<1>2. \A d, passed, values : Taken(d, passed, values)' = Taken(d, passed, values)
  BY TakenKept
<1>3. \A n : EndBy(n)' = EndBy(n) /\ SlotBy(n)' = SlotBy(n)
  BY <1>1 DEF EndBy, SlotBy
<1> QED BY <1>1, <1>2, <1>3 DEF Reading, ReadingAt

LEMMA ValueRole ==
  ASSUME tokens \in Seq(Text), NEW k \in 1 .. Len(tokens)
  PROVE  Roles[k] = "value" <=>
           k > 1 /\ Roles[k - 1] \in {"long", "short"} /\ Takes(tokens[k - 1])
<1>1. Roles[k] = RoleAt(Roles, k)
  BY RoleFacts
<1> DEFINE r == Roles[k]
           v == k > 1 /\ Roles[k - 1] \in {"long", "short"} /\ Takes(tokens[k - 1])
           s == \E j \in 1 .. k - 1 : Roles[j] = "sentinel"
<1>2. r = IF v THEN "value" ELSE IF s THEN "positional"
          ELSE IF tokens[k] = <<"-", "-">> THEN "sentinel"
          ELSE IF LooksPlain(tokens[k]) THEN "positional"
          ELSE IF tokens[k][2] = "-" THEN "long" ELSE "short"
  BY <1>1 DEF RoleAt
<1> HIDE DEF r, v, s
<1>3. r = "value" <=> v
  BY <1>2
<1> QED BY <1>3 DEF r, v

(* What the first tokens are, one more of them.                            *)
LEMMA OneMore ==
  ASSUME NEW n \in Nat \ {0}
  PROVE  /\ EndBy(n) <=> (EndBy(n - 1) \/ Roles[n] = "sentinel")
         /\ SlotBy(n) = IF Roles[n] = "positional" THEN SlotBy(n - 1) + 1 ELSE SlotBy(n - 1)
<1>1. n - 1 \in Nat /\ (n - 1) + 1 = n /\ \A j \in 1 .. n : j \in 1 .. n - 1 \/ j = n
  OBVIOUS
<1>2. EndBy(n) <=> (EndBy(n - 1) \/ Roles[n] = "sentinel")
  <2>1. n \in 1 .. n /\ \A j \in 1 .. n - 1 : j \in 1 .. n
    OBVIOUS
  <2> QED BY <1>1, <2>1 DEF EndBy
<1>3. SlotBy(n) = IF Roles[n] = "positional" THEN SlotBy(n - 1) + 1 ELSE SlotBy(n - 1)
  <2> DEFINE k == n - 1
  <2>1. k \in Nat /\ k + 1 = n
    BY <1>1
  <2> HIDE DEF k
  <2>2. /\ Roles[k + 1] = "positional" => Cardinality({j \in 1 .. k + 1 : Roles[j] = "positional"})
                                           = Cardinality({j \in 1 .. k : Roles[j] = "positional"}) + 1
        /\ Roles[k + 1] # "positional" => {j \in 1 .. k + 1 : Roles[j] = "positional"}
                                           = {j \in 1 .. k : Roles[j] = "positional"}
    BY <2>1, CountFacts
  <2>3. SlotBy(k + 1) = IF Roles[k + 1] = "positional" THEN SlotBy(k) + 1 ELSE SlotBy(k)
    BY <2>2 DEF SlotBy
  <2> QED BY <2>1, <2>3 DEF k
<1> QED BY <1>2, <1>3

LEMMA AtFacts ==
  ASSUME tokens \in Seq(Text), NEW n \in 1 .. Len(tokens)
  PROVE  /\ At[n] = At[n - 1] + Len(UseOf(n, Roles)) /\ At[n] <= Len(Uses)
         /\ At[n] \in Nat /\ At[n - 1] \in Nat /\ Len(UseOf(n, Roles)) \in Nat
         /\ \A j \in 1 .. Len(UseOf(n, Roles)) : Uses[At[n - 1] + j] = UseOf(n, Roles)[j]
<1>1. n \in 0 .. Len(tokens) /\ n - 1 \in 0 .. Len(tokens)
  OBVIOUS
<1>2. At[n] \in Nat /\ At[n - 1] \in Nat
  BY <1>1, UsesFacts
<1>3. Len(UseOf(n, Roles)) \in Nat
  BY UseOfFacts
<1> QED BY <1>2, <1>3, UsesFacts DEF Places

(* A token is done with, and the next one is no value of it.               *)
LEMMA PassToken ==
  ASSUME tokens \in Seq(Text), NEW n \in 1 .. Len(tokens), NEW end, NEW pos,
         NEW passed, NEW values,
         end <=> (EndBy(n - 1) \/ Roles[n] = "sentinel"),
         pos = IF Roles[n] = "positional" THEN SlotBy(n - 1) + 1 ELSE SlotBy(n - 1),
         Taken(At[n - 1] + Len(UseOf(n, Roles)), passed, values),
         ~(Roles[n] \in {"long", "short"} /\ Takes(tokens[n]))
  PROVE  ReadingAt(n + 1, 0, end, pos, passed, values)
<1>1. n \in Nat \ {0} /\ (n + 1) - 1 = n /\ n + 1 > 1
  OBVIOUS
<1>2. n + 1 <= Len(tokens) => Roles[n + 1] # "value"
  <2>1. n + 1 <= Len(tokens) => n + 1 \in 1 .. Len(tokens)
    OBVIOUS
  <2> QED BY <1>1, <2>1, ValueRole
<1>3. (end <=> EndBy(n)) /\ pos = SlotBy(n)
  BY <1>1, OneMore
<1>4. Taken(At[n] + 0, passed, values)
  <2>1. At[n] = At[n - 1] + Len(UseOf(n, Roles)) /\ At[n] \in Nat
    BY AtFacts
  <2>2. At[n] + 0 = At[n]
    BY <2>1
  <2> QED BY <2>1, <2>2
<1> QED BY <1>1, <1>2, <1>3, <1>4 DEF ReadingAt

(* A token is done with, and the next one was the value of it.             *)
LEMMA PassTwo ==
  ASSUME tokens \in Seq(Text), NEW n \in 1 .. Len(tokens), n # Len(tokens), NEW end, NEW pos,
         NEW passed, NEW values,
         end <=> EndBy(n - 1), pos = SlotBy(n - 1),
         Taken(At[n - 1] + Len(UseOf(n, Roles)), passed, values),
         Roles[n] \in {"long", "short"}, Takes(tokens[n])
  PROVE  ReadingAt(n + 2, 0, end, pos, passed, values)
<1>1. /\ n \in Nat \ {0} /\ n + 1 \in Nat \ {0} /\ (n + 1) - 1 = n /\ n + 1 > 1
      /\ (n + 2) - 1 = n + 1 /\ n + 1 \in 1 .. Len(tokens)
      /\ n + 2 <= Len(tokens) => n + 2 \in 1 .. Len(tokens)
  OBVIOUS
<1>2. Roles[n + 1] = "value"
  BY <1>1, ValueRole
<1>3. n + 2 <= Len(tokens) => Roles[n + 2] # "value"
  BY <1>1, <1>2, ValueRole
<1>4. (end <=> EndBy(n)) /\ pos = SlotBy(n)
  BY <1>1, OneMore
<1>5. (end <=> EndBy(n + 1)) /\ pos = SlotBy(n + 1)
  <2> DEFINE m == n + 1
  <2>1. m \in Nat \ {0} /\ m - 1 = n /\ Roles[m] = "value"
    BY <1>1, <1>2
  <2> HIDE DEF m
  <2>2. /\ EndBy(m) <=> (EndBy(m - 1) \/ Roles[m] = "sentinel")
        /\ SlotBy(m) = IF Roles[m] = "positional" THEN SlotBy(m - 1) + 1 ELSE SlotBy(m - 1)
    BY <2>1, OneMore
  <2> QED BY <1>4, <2>1, <2>2 DEF m
<1>6. /\ At[n] = At[n - 1] + Len(UseOf(n, Roles)) /\ At[n] \in Nat
      /\ At[n + 1] = At[(n + 1) - 1] + Len(UseOf(n + 1, Roles))
  BY <1>1, AtFacts
<1>7. Len(UseOf(n + 1, Roles)) = 0
  BY <1>2 DEF UseOf
<1>8. Taken(At[n + 1] + 0, passed, values)
  <2>1. At[n + 1] + 0 = At[n]
    BY <1>1, <1>6, <1>7
  <2> QED BY <1>6, <2>1
<1> QED BY <1>1, <1>3, <1>5, <1>8 DEF ReadingAt

-----------------------------------------------------------------------------
(* The meaning of a command line.                                          *)

Meaning ==
  /\ stage = "tokens" => Reading
  /\ OutcomeIsRight
  /\ ResultsAreRight

Place == At[i - 1] + (IF ci = 0 THEN 0 ELSE ci - 2)

LEMMA StopsRight ==
  ASSUME tokens' = tokens, stage' \in {"CliError", "CliHelpRequested"}, Outcome(Uses) = stage'
  PROVE  Meaning'
<1>1. Outcome(Uses') = stage'
  BY UsesKept
<1>2. OutcomeIsRight'
  BY <1>1 DEF OutcomeIsRight
<1>3. ResultsAreRight' /\ stage' # "tokens"
  BY DEF ResultsAreRight
<1> QED BY <1>2, <1>3 DEF Meaning

LEMMA GoesOn ==
  ASSUME tokens' = tokens, stage' = "tokens",
         ReadingAt(i', ci', end_of_flags', pos_index', seen', parsed_values')
  PROVE  Meaning'
<1>1. Reading'
  BY ReadingKept
<1>2. OutcomeIsRight' /\ ResultsAreRight'
  BY DEF OutcomeIsRight, ResultsAreRight
<1> QED BY <1>1, <1>2 DEF Meaning

(* What a token is, to the parser and by those before it.                  *)
LEMMA RoleNow ==
  ASSUME TypeInv, Reading, AtToken
  PROVE  /\ Tok = <<"-", "-">> /\ ~end_of_flags => Roles[i] = "sentinel"
         /\ IsPlain => Roles[i] = "positional"
         /\ IsLong => Roles[i] = "long"
         /\ IsOption /\ ~IsLong => Roles[i] = "short"
<1>1. i \in 1 .. Len(tokens) /\ tokens \in Seq(Text) /\ Tok = tokens[i]
  BY TokenFacts
<1>2. Roles[i] # "value" /\ (end_of_flags <=> EndBy(i - 1))
  BY <1>1 DEF Reading, ReadingAt
<1> DEFINE r == Roles[i]
           v == i > 1 /\ Roles[i - 1] \in {"long", "short"} /\ Takes(tokens[i - 1])
           plain == LooksPlain(Tok)
           two == Tok = <<"-", "-">>
           dash == Tok[2] = "-"
<1>3. r = IF v THEN "value" ELSE IF EndBy(i - 1) THEN "positional"
          ELSE IF two THEN "sentinel"
          ELSE IF plain THEN "positional"
          ELSE IF dash THEN "long" ELSE "short"
  BY <1>1, RoleFacts DEF RoleAt, EndBy
<1>4. two => ~plain
  <2>1. "-" \notin Digits
    BY DEF Digits
  <2> QED BY <2>1 DEF LooksPlain
<1>5. /\ IsPlain <=> (end_of_flags \/ plain)
      /\ IsLong <=> IsOption /\ dash
      /\ IsOption => ~IsPlain /\ ~two
  BY DEF IsPlain, IsLong, IsOption
<1>6. r # "value"
  BY <1>2
<1> HIDE DEF r, v, plain, two, dash
<1>7. /\ two /\ ~end_of_flags => r = "sentinel"
      /\ IsPlain => r = "positional"
      /\ IsLong => r = "long"
      /\ IsOption /\ ~IsLong => r = "short"
  BY <1>2, <1>3, <1>4, <1>5, <1>6
<1> QED BY <1>7 DEF r, two

(* What is asked for next.                                                 *)
LEMMA NextUse ==
  ASSUME TypeInv, Reading, AtToken \/ InCluster,
         NEW j, j = IF ci = 0 THEN 1 ELSE ci - 1, j \in 1 .. Len(UseOf(i, Roles))
  PROVE  /\ Taken(Place, seen, parsed_values)
         /\ Place \in Nat /\ Place + 1 = At[i - 1] + j /\ Place + 1 <= Len(Uses)
         /\ Uses[Place + 1] = UseOf(i, Roles)[j]
<1>1. i \in 1 .. Len(tokens) /\ tokens \in Seq(Text) /\ stage = "tokens"
  BY TokenFacts
<1>2. ci = 0 \/ ci \in Nat
  BY <1>1 DEF TypeInv, TypeOK
<1>3. Taken(Place, seen, parsed_values)
  BY DEF Reading, ReadingAt, Place
<1>4. /\ At[i] = At[i - 1] + Len(UseOf(i, Roles)) /\ At[i] <= Len(Uses)
      /\ At[i] \in Nat /\ At[i - 1] \in Nat /\ Len(UseOf(i, Roles)) \in Nat
      /\ \A m \in 1 .. Len(UseOf(i, Roles)) : Uses[At[i - 1] + m] = UseOf(i, Roles)[m]
  BY <1>1, AtFacts
<1>5. Len(Uses) \in Nat
  BY <1>1, UsesFacts
<1>6. Place + 1 = At[i - 1] + j
  <2>1. CASE ci = 0
    BY <1>4, <2>1 DEF Place
  <2>2. CASE ci # 0
    <3>1. \A x, c \in Nat : (x + (c - 2)) + 1 = x + (c - 1)
      OBVIOUS
    <3>2. Place = At[i - 1] + (ci - 2) /\ j = ci - 1
      BY <2>2 DEF Place
    <3> QED BY <1>2, <1>4, <2>2, <3>1, <3>2
  <2> QED BY <2>1, <2>2
<1>7. Place \in Nat
  BY <1>3, <1>5 DEF Taken
<1>8. Place + 1 <= Len(Uses)
  BY <1>4, <1>5, <1>6
<1> QED BY <1>3, <1>4, <1>6, <1>7, <1>8

LEMMA ErrorRight ==
  ASSUME TypeInv, Reading, AtToken \/ InCluster, End("CliError"),
         NEW j, j = IF ci = 0 THEN 1 ELSE ci - 1, j \in 1 .. Len(UseOf(i, Roles)),
         NEW a, NEW val, UseOf(i, Roles)[j] = <<a, val>>, a = 0 \/ (a \in Arg /\ Repeated(a))
  PROVE  Meaning'
<1>1. /\ Taken(Place, seen, parsed_values) /\ Place + 1 <= Len(Uses)
      /\ Uses[Place + 1] = <<a, val>>
  BY NextUse
<1>2. tokens \in Seq(Text)
  BY TokenFacts
<1>3. Outcome(Uses) = "CliError"
  BY <1>1, <1>2, TakenFails DEF Repeated
<1>4. tokens' = tokens /\ stage' = "CliError"
  BY DEF End
<1> QED BY <1>3, <1>4, StopsRight

LEMMA HitRight ==
  ASSUME TypeInv, Reading, AtToken \/ InCluster, NEW a \in Arg, NEW val \in Text, Hit(a, val),
         NEW j, j = IF ci = 0 THEN 1 ELSE ci - 1, j \in 1 .. Len(UseOf(i, Roles)),
         UseOf(i, Roles)[j] = <<a, val>>, ~Repeated(a)
  PROVE  /\ Args[a].help => Outcome(Uses) = "CliHelpRequested"
         /\ ~Args[a].help => Taken(At[i - 1] + j, seen', parsed_values')
<1>1. /\ Taken(Place, seen, parsed_values) /\ Place + 1 <= Len(Uses)
      /\ Uses[Place + 1] = <<a, val>> /\ Place + 1 = At[i - 1] + j
  BY NextUse
<1>2. /\ tokens \in Seq(Text) /\ seen \in [Arg -> BOOLEAN] /\ parsed_values \in [Arg -> Seq(Text)]
      /\ ~(seen[a] /\ ~Args[a].multi)
  BY DEF TypeInv, TypeOK, Repeated
<1>3. /\ Args[a].help => Outcome(Uses) = "CliHelpRequested"
      /\ ~Args[a].help => Taken(Place + 1, [seen EXCEPT ![a] = TRUE],
                                           [parsed_values EXCEPT ![a] = @ \o Added(a, val)])
  BY <1>1, <1>2, TakenStep
<1>4. /\ seen' = [seen EXCEPT ![a] = TRUE]
      /\ parsed_values' = [parsed_values EXCEPT ![a] = @ \o Added(a, val)]
  BY DEF Hit
<1> QED BY <1>1, <1>3, <1>4

(* Nothing was passed when the results of an earlier call are cleared.     *)
LEMMA ResetRight ==
  ASSUME TypeInv, Reset
  PROVE  Meaning'
<1>1. /\ tokens \in Seq(Text) /\ i = 1 /\ ci = 0 /\ end_of_flags = FALSE /\ pos_index = 1
      /\ Len(tokens) \in Nat
  BY DEF TypeInv, TypeOK, Reset
<1>2. /\ stage' = "tokens" /\ tokens' = tokens /\ i' = 1 /\ ci' = 0 /\ pos_index' = 1
      /\ end_of_flags' = FALSE
      /\ seen' = [a \in Arg |-> FALSE] /\ parsed_values' = [a \in Arg |-> <<>>]
  BY <1>1 DEF Reset
<1>3. 1 <= Len(tokens) => Roles[1] # "value"
  BY <1>1, ValueRole
<1>4. (end_of_flags' <=> EndBy(0)) /\ pos_index' = SlotBy(0)
  <2>1. ~EndBy(0)
    BY DEF EndBy
  <2>2. {j \in 1 .. 0 : Roles[j] = "positional"} = {}
    OBVIOUS
  <2>3. SlotBy(0) = 1
    BY <2>2, FS_EmptySet DEF SlotBy
  <2> QED BY <1>2, <2>1, <2>3
<1>5. Taken(0, seen', parsed_values')
  <2>1. Uses \in Seq(Use) /\ 0 \in 0 .. Len(Uses)
    BY <1>1, UsesFacts
  <2>2. ASSUME NEW a \in Arg
        PROVE  (seen'[a] <=> \E u \in 1 .. 0 : Uses[u][1] = a) /\ parsed_values'[a] = Given(a)[0]
    <3>1. ~seen'[a] /\ parsed_values'[a] = <<>>
      BY <1>2
    <3>2. Given(a)[0] = <<>>
      BY <1>1, GivenFacts DEF Gathers
    <3>3. ~\E u \in 1 .. 0 : Uses[u][1] = a
      OBVIOUS
    <3> QED BY <3>1, <3>2, <3>3
  <2> QED BY <2>1, <2>2 DEF Taken
<1>6. At[0] = 0
  BY <1>1, UsesFacts DEF Places
<1>7. ReadingAt(1, 0, end_of_flags', pos_index', seen', parsed_values')
  <2>1. At[1 - 1] + 0 = 0 /\ 1 - 1 = 0
    BY <1>6
  <2> QED BY <1>3, <1>4, <1>5, <2>1 DEF ReadingAt
<1> QED BY <1>2, <1>7, GoesOn

LEMMA SentinelRight ==
  ASSUME TypeInv, Reading, Sentinel
  PROVE  Meaning'
<1>1. /\ i \in 1 .. Len(tokens) /\ tokens \in Seq(Text) /\ stage = "tokens" /\ AtToken /\ ci = 0
  BY TokenFacts DEF Sentinel, AtToken
<1>2. /\ stage' = "tokens" /\ tokens' = tokens /\ i' = i + 1 /\ ci' = 0
      /\ end_of_flags' = TRUE /\ pos_index' = pos_index /\ seen' = seen
      /\ parsed_values' = parsed_values
  BY <1>1 DEF Sentinel
<1>3. Roles[i] = "sentinel"
  BY <1>1, RoleNow DEF Sentinel
<1>4. /\ pos_index = SlotBy(i - 1) /\ Taken(At[i - 1] + 0, seen, parsed_values)
  BY <1>1 DEF Reading, ReadingAt
<1>5. Len(UseOf(i, Roles)) = 0
  BY <1>3 DEF UseOf
<1>6. ReadingAt(i + 1, 0, end_of_flags', pos_index', seen', parsed_values')
  BY <1>1, <1>2, <1>3, <1>4, <1>5, PassToken
<1> QED BY <1>2, <1>6, GoesOn

LEMMA PositionalRight ==
  ASSUME TypeInv, Reading, TakePositional
  PROVE  Meaning'
<1>1. /\ i \in 1 .. Len(tokens) /\ tokens \in Seq(Text) /\ stage = "tokens" /\ AtToken /\ ci = 0
      /\ Tok = tokens[i] /\ Tok \in Text
  BY TokenFacts DEF TakePositional, AtToken
<1>2. Roles[i] = "positional"
  BY <1>1, RoleNow DEF TakePositional
<1>3. UseOf(i, Roles) = PositionalUse(i, Roles)
  BY <1>2 DEF UseOf
<1>4. (end_of_flags <=> EndBy(i - 1)) /\ pos_index = SlotBy(i - 1)
  BY DEF Reading, ReadingAt
<1>5. /\ Len(UseOf(i, Roles)) = 1
      /\ pos_index > Len(Positionals) => UseOf(i, Roles)[1] = <<0, <<>> >>
      /\ pos_index <= Len(Positionals) =>
           /\ pos_index \in 1 .. Len(Positionals)
           /\ UseOf(i, Roles)[1] = <<Positionals[pos_index], Tok>>
  BY <1>1, <1>2, <1>3, <1>4, PositionalUseFacts DEF SlotBy
<1>6. 1 \in 1 .. Len(UseOf(i, Roles))
  BY <1>5
<1>7. CASE pos_index > Len(Positionals)
  <2>1. End("CliError")
    BY <1>7 DEF TakePositional
  <2>2. UseOf(i, Roles)[1] = <<0, <<>> >>
    BY <1>5, <1>7
  <2> QED BY <1>1, <1>6, <2>1, <2>2, ErrorRight
<1>8. CASE ~(pos_index > Len(Positionals))
  <2> DEFINE a == Positionals[pos_index]
  <2>1. /\ Hit(a, Tok) /\ pos_index' = pos_index + 1
        /\ stage' = "tokens" /\ tokens' = tokens /\ i' = i + 1 /\ ci' = 0
        /\ end_of_flags' = end_of_flags
    BY <1>1, <1>8 DEF TakePositional, Advance
  <2>2. pos_index \in 1 .. Len(Positionals) /\ UseOf(i, Roles)[1] = <<a, Tok>>
    <3>1. pos_index \in Nat /\ Len(Positionals) \in Nat
      BY PositionalFacts DEF TypeInv
    <3> QED BY <1>5, <1>8, <3>1
  <2>3. /\ a \in Arg /\ Args[a].kind = "Positional" /\ ~seen[a]
    <3>1. /\ a \in Arg /\ Args[a].kind = "Positional" /\ pos_index \in DOMAIN Positionals
          /\ ~(pos_index < pos_index)
      BY <2>2, PositionalFacts
    <3> QED BY <1>1, <3>1 DEF TypeInv, TypeOK
  <2>4. ~Args[a].help /\ ~Repeated(a)
    BY <2>3, ArgsAssumption DEF Arg, Repeated
  <2> HIDE DEF a
  <2>5. Taken(At[i - 1] + 1, seen', parsed_values')
    BY <1>1, <1>6, <2>1, <2>2, <2>3, <2>4, HitRight
  <2>6. ReadingAt(i + 1, 0, end_of_flags', pos_index', seen', parsed_values')
    BY <1>1, <1>2, <1>4, <1>5, <2>1, <2>5, PassToken
  <2> QED BY <2>1, <2>6, GoesOn
<1> QED BY <1>7, <1>8

-----------------------------------------------------------------------------
(* Long options.                                                           *)

LEMMA LongTakes ==
  ASSUME tokens \in Seq(Text), NEW k \in 1 .. Len(tokens), Len(tokens[k]) >= 2, tokens[k][2] = "-"
  PROVE  Takes(tokens[k]) <=> EqualsAt(k) = 0 /\ FlagAt(k) = 0 /\ OptionAt(k) # 0
<1>1. tokens[k] \in Seq(STRING) /\ Len(tokens[k]) \in Nat
  BY DEF Text
<1>2. BodyAt(k) \in Seq(STRING) /\ BodyAt(k) \in Text
  <2>1. 3 \in 1 .. Len(tokens[k]) + 1 /\ Len(tokens[k]) \in 0 .. Len(tokens[k])
    BY <1>1
  <2>2. BodyAt(k) \in Seq(STRING)
    BY <1>1, <2>1, CutFacts DEF BodyAt
  <2> QED BY <2>2 DEF Text
<1> DEFINE body == BodyAt(k)
<1>3. Takes(tokens[k]) <=> /\ \A n \in DOMAIN body : body[n] # "="
                           /\ find_long(body, "Flag") = 0 /\ find_long(body, "Option") # 0
  BY DEF Takes, BodyAt
<1>4. DOMAIN body = 1 .. Len(body) /\ Len(body) \in Nat
  BY <1>2
<1>5. \/ EqualsIn(body) = 0 /\ \A n \in 1 .. Len(body) : body[n] # "="
      \/ EqualsIn(body) \in 1 .. Len(body) /\ body[EqualsIn(body)] = "="
  BY <1>2, FirstEquals
<1>6. EqualsAt(k) = EqualsIn(body)
  BY DEF EqualsAt
<1>7. EqualsIn(body) = 0 => NameAt(k) = body
  BY <1>6 DEF NameAt
<1> HIDE DEF body
<1>8. (\A n \in DOMAIN body : body[n] # "=") <=> EqualsIn(body) = 0
  BY <1>4, <1>5
<1>9. EqualsIn(body) = 0 => FlagAt(k) = find_long(body, "Flag") /\ OptionAt(k) = find_long(body, "Option")
  BY <1>7 DEF FlagAt, OptionAt
<1> QED BY <1>3, <1>6, <1>8, <1>9

LEMMA LongNow ==
  ASSUME TypeInv, Reading, IsLong
  PROVE  /\ AtToken /\ ci = 0 /\ Roles[i] = "long"
         /\ Len(UseOf(i, Roles)) = 1 /\ 1 \in 1 .. Len(UseOf(i, Roles))
         /\ Takes(tokens[i]) <=> Equals = 0 /\ FlagAt(i) = 0 /\ OptionAt(i) # 0
         /\ LongName = <<>> => UseOf(i, Roles)[1] = <<0, <<>> >>
         /\ LongName # <<>> /\ FlagAt(i) # 0 /\ Equals = 0 => UseOf(i, Roles)[1] = <<FlagAt(i), <<>> >>
         /\ LongName # <<>> /\ FlagAt(i) # 0 /\ Equals # 0 => UseOf(i, Roles)[1] = <<0, <<>> >>
         /\ LongName # <<>> /\ FlagAt(i) = 0 /\ OptionAt(i) = 0 => UseOf(i, Roles)[1] = <<0, <<>> >>
         /\ LongName # <<>> /\ FlagAt(i) = 0 /\ OptionAt(i) # 0 /\ Equals = 0 =>
              UseOf(i, Roles)[1] = IF i = Len(tokens) THEN <<0, <<>> >> ELSE <<OptionAt(i), tokens[i + 1]>>
         /\ LongName # <<>> /\ FlagAt(i) = 0 /\ OptionAt(i) # 0 /\ Equals # 0 =>
              UseOf(i, Roles)[1] = <<OptionAt(i), Inline>>
<1>1. /\ i \in 1 .. Len(tokens) /\ tokens \in Seq(Text) /\ AtToken /\ ci = 0
      /\ Tok = tokens[i] /\ Len(tokens[i]) >= 2 /\ tokens[i][2] = "-"
  BY TokenFacts, OptionTokenFacts DEF IsLong, AtToken
<1>2. Roles[i] = "long"
  BY <1>1, RoleNow
<1>3. UseOf(i, Roles) = LongUse(i)
  BY <1>2 DEF UseOf
<1>4. /\ LongName = NameAt(i) /\ Equals = EqualsAt(i) /\ Inline = InlineAt(i)
      /\ OptionAt(i) # 0 => OptionAt(i) \in Arg
  BY LongTokenFacts
<1>5. Takes(tokens[i]) <=> Equals = 0 /\ FlagAt(i) = 0 /\ OptionAt(i) # 0
  BY <1>1, <1>4, LongTakes
<1> DEFINE use == LongUse(i)
           empty == NameAt(i) = <<>>
           flag == FlagAt(i)
           opt == OptionAt(i)
           eq == EqualsAt(i)
           inline == InlineAt(i)
           next == Valued(opt, i, <<>>)
<1>6. /\ Len(use) = 1
      /\ \/ empty /\ use = Wrong
         \/ ~empty /\ flag # 0 /\ eq = 0 /\ use = << <<flag, <<>> >> >>
         \/ ~empty /\ flag # 0 /\ eq # 0 /\ use = Wrong
         \/ ~empty /\ flag = 0 /\ opt = 0 /\ use = Wrong
         \/ ~empty /\ flag = 0 /\ opt # 0 /\ eq = 0 /\ use = next
         \/ ~empty /\ flag = 0 /\ opt # 0 /\ eq # 0 /\ use = << <<opt, inline>> >>
  BY <1>1, LongUseFacts
<1>7. opt # 0 => next[1] = IF i = Len(tokens) THEN <<0, <<>> >> ELSE <<opt, tokens[i + 1]>>
  <2> SUFFICES ASSUME opt # 0
               PROVE  next[1] = IF i = Len(tokens) THEN <<0, <<>> >> ELSE <<opt, tokens[i + 1]>>
    OBVIOUS
  <2>1. <<>> \in Text /\ Len(<<>>) = 0 /\ opt \in Arg
    BY <1>4, WrongFacts
  <2> HIDE DEF opt
  <2>2. CASE i = Len(tokens)
    <3>1. next = Wrong
      BY <2>2 DEF Valued
    <3> QED BY <2>2, <3>1, WrongFacts
  <2>3. CASE i # Len(tokens)
    <3>1. next = << <<opt, tokens[i + 1]>> >>
      BY <2>3 DEF Valued
    <3> QED BY <2>3, <3>1
  <2> QED BY <2>2, <2>3
<1>8. Wrong[1] = <<0, <<>> >>
  BY WrongFacts
<1> HIDE DEF use, empty, flag, opt, eq, inline, next
<1>9. /\ empty => use[1] = <<0, <<>> >>
      /\ ~empty /\ flag # 0 /\ eq = 0 => use[1] = <<flag, <<>> >>
      /\ ~empty /\ flag # 0 /\ eq # 0 => use[1] = <<0, <<>> >>
      /\ ~empty /\ flag = 0 /\ opt = 0 => use[1] = <<0, <<>> >>
      /\ ~empty /\ flag = 0 /\ opt # 0 /\ eq = 0 => use[1] = next[1]
      /\ ~empty /\ flag = 0 /\ opt # 0 /\ eq # 0 => use[1] = <<opt, inline>>
  BY <1>6, <1>8
<1>10. Len(UseOf(i, Roles)) = 1 /\ 1 \in 1 .. Len(UseOf(i, Roles))
  BY <1>3, <1>6 DEF use
<1> QED BY <1>1, <1>2, <1>3, <1>4, <1>5, <1>7, <1>9, <1>10 DEF use, empty, flag, opt, eq, inline

LEMMA LongFlagRight ==
  ASSUME TypeInv, Reading, LongFlag
  PROVE  Meaning'
<1> DEFINE flag == find_long(LongName, "Flag")
           empty == LongName = <<>>
<1>1. /\ IsLong /\ ~empty /\ flag # 0
      /\ IF Equals # 0 \/ Repeated(flag) THEN End("CliError")
         ELSE /\ Hit(flag, <<>>) /\ i' = i + 1
              /\ stage' = IF Args[flag].help THEN "CliHelpRequested" ELSE stage
              /\ UNCHANGED <<tokens, ci, end_of_flags, pos_index>>
  BY DEF LongFlag
<1>2. /\ i \in 1 .. Len(tokens) /\ tokens \in Seq(Text) /\ stage = "tokens" /\ AtToken /\ ci = 0
  BY <1>1, TokenFacts, LongNow
<1>3. flag = FlagAt(i) /\ flag \in Arg /\ <<>> \in Text
  BY <1>1, LongTokenFacts, WrongFacts
<1>4. /\ Roles[i] = "long" /\ Len(UseOf(i, Roles)) = 1 /\ 1 \in 1 .. Len(UseOf(i, Roles))
      /\ ~Takes(tokens[i])
      /\ Equals = 0 => UseOf(i, Roles)[1] = <<flag, <<>> >>
      /\ Equals # 0 => UseOf(i, Roles)[1] = <<0, <<>> >>
  BY <1>1, <1>3, LongNow
<1> HIDE DEF flag, empty
<1>5. CASE Equals # 0
  <2>1. End("CliError")
    BY <1>1, <1>5
  <2> QED BY <1>2, <1>4, <1>5, <2>1, ErrorRight
<1>6. CASE Equals = 0 /\ Repeated(flag)
  <2>1. End("CliError")
    BY <1>1, <1>6
  <2> QED BY <1>2, <1>3, <1>4, <1>6, <2>1, ErrorRight
<1>7. CASE Equals = 0 /\ ~Repeated(flag)
  <2>1. /\ Hit(flag, <<>>) /\ i' = i + 1
        /\ stage' = IF Args[flag].help THEN "CliHelpRequested" ELSE "tokens"
        /\ tokens' = tokens /\ ci' = 0 /\ end_of_flags' = end_of_flags /\ pos_index' = pos_index
    BY <1>1, <1>2, <1>7
  <2>2. /\ Args[flag].help => Outcome(Uses) = "CliHelpRequested"
        /\ ~Args[flag].help => Taken(At[i - 1] + 1, seen', parsed_values')
    BY <1>2, <1>3, <1>4, <1>7, <2>1, HitRight
  <2>3. CASE Args[flag].help
    BY <2>1, <2>2, <2>3, StopsRight
  <2>4. CASE ~Args[flag].help
    <3>1. (end_of_flags <=> EndBy(i - 1)) /\ pos_index = SlotBy(i - 1)
      BY DEF Reading, ReadingAt
    <3>2. ReadingAt(i + 1, 0, end_of_flags', pos_index', seen', parsed_values')
      BY <1>2, <1>4, <2>1, <2>2, <2>4, <3>1, PassToken
    <3> QED BY <2>1, <2>4, <3>2, GoesOn
  <2> QED BY <2>3, <2>4
<1> QED BY <1>5, <1>6, <1>7

LEMMA LongOptionRight ==
  ASSUME TypeInv, Reading, LongOption
  PROVE  Meaning'
<1> DEFINE opt == find_long(LongName, "Option")
           empty == LongName = <<>>
           last == Equals = 0 /\ i = Len(tokens)
           val == IF Equals = 0 THEN tokens[i + 1] ELSE Inline
<1>1. /\ IsLong /\ ~empty /\ find_long(LongName, "Flag") = 0 /\ opt # 0
      /\ IF last \/ Repeated(opt) THEN End("CliError")
         ELSE /\ Hit(opt, val)
              /\ Advance(IF Equals = 0 THEN 2 ELSE 1)
              /\ UNCHANGED pos_index
  BY DEF LongOption
<1>2. /\ i \in 1 .. Len(tokens) /\ tokens \in Seq(Text) /\ stage = "tokens" /\ AtToken /\ ci = 0
  BY <1>1, TokenFacts, LongNow
<1>3. opt = OptionAt(i) /\ opt \in Arg /\ Inline \in Text /\ FlagAt(i) = 0 /\ <<>> \in Text
  BY <1>1, LongTokenFacts, WrongFacts
<1>4. /\ Roles[i] = "long" /\ Len(UseOf(i, Roles)) = 1 /\ 1 \in 1 .. Len(UseOf(i, Roles))
      /\ Takes(tokens[i]) <=> Equals = 0
      /\ last => UseOf(i, Roles)[1] = <<0, <<>> >>
      /\ ~last => UseOf(i, Roles)[1] = <<opt, val>>
  BY <1>1, <1>3, LongNow
<1>5. ~last => val \in Text
  <2>1. ~last /\ Equals = 0 => i + 1 \in 1 .. Len(tokens)
    BY <1>2
  <2> QED BY <1>2, <1>3, <2>1
<1>6. last <=> (Equals = 0 /\ i = Len(tokens))
  OBVIOUS
<1> HIDE DEF opt, empty, last, val
<1>7. CASE last
  <2>1. End("CliError")
    BY <1>1, <1>7
  <2> QED BY <1>2, <1>4, <1>7, <2>1, ErrorRight
<1>8. CASE ~last /\ Repeated(opt)
  <2>1. End("CliError")
    BY <1>1, <1>8
  <2> QED BY <1>2, <1>3, <1>4, <1>8, <2>1, ErrorRight
<1>9. CASE ~last /\ ~Repeated(opt)
  <2>1. /\ Hit(opt, val) /\ i' = i + (IF Equals = 0 THEN 2 ELSE 1)
        /\ stage' = "tokens" /\ tokens' = tokens /\ ci' = 0 /\ end_of_flags' = end_of_flags
        /\ pos_index' = pos_index
    BY <1>1, <1>2, <1>9 DEF Advance
  <2>2. ~Args[opt].help
    BY <1>1, LongTokenFacts, ArgsAssumption DEF Arg, opt
  <2>3. Taken(At[i - 1] + 1, seen', parsed_values')
    BY <1>2, <1>3, <1>4, <1>5, <1>9, <2>1, <2>2, HitRight
  <2>4. (end_of_flags <=> EndBy(i - 1)) /\ pos_index = SlotBy(i - 1)
    BY DEF Reading, ReadingAt
  <2>5. CASE Equals = 0
    <3>1. ReadingAt(i + 2, 0, end_of_flags', pos_index', seen', parsed_values')
      BY <1>2, <1>4, <1>6, <1>9, <2>1, <2>3, <2>4, <2>5, PassTwo
    <3> QED BY <2>1, <2>5, <3>1, GoesOn
  <2>6. CASE Equals # 0
    <3>1. ReadingAt(i + 1, 0, end_of_flags', pos_index', seen', parsed_values')
      BY <1>2, <1>4, <2>1, <2>3, <2>4, <2>6, PassToken
    <3> QED BY <2>1, <2>6, <3>1, GoesOn
  <2> QED BY <2>5, <2>6
<1> QED BY <1>7, <1>8, <1>9

LEMMA LongUnknownRight ==
  ASSUME TypeInv, Reading, LongUnknown
  PROVE  Meaning'
<1>1. /\ IsLong /\ End("CliError")
      /\ \/ LongName = <<>>
         \/ find_long(LongName, "Flag") = 0 /\ find_long(LongName, "Option") = 0
  BY DEF LongUnknown
<1>2. /\ find_long(LongName, "Flag") = FlagAt(i) /\ find_long(LongName, "Option") = OptionAt(i)
      /\ <<>> \in Text
  BY <1>1, LongTokenFacts, WrongFacts
<1>3. AtToken /\ ci = 0 /\ 1 \in 1 .. Len(UseOf(i, Roles)) /\ UseOf(i, Roles)[1] = <<0, <<>> >>
  BY <1>1, <1>2, LongNow
<1> QED BY <1>1, <1>2, <1>3, ErrorRight

-----------------------------------------------------------------------------
(* Clusters of short names.                                                *)

LEMMA ShortTakes ==
  ASSUME tokens \in Seq(Text), NEW k \in 1 .. Len(tokens), Len(tokens[k]) >= 2, tokens[k][2] # "-"
  PROVE  /\ (\A n \in 2 .. Len(tokens[k]) : FlagOf(tokens[k][n]) # 0) => ~Takes(tokens[k])
         /\ \A n \in 2 .. Len(tokens[k]) :
              FlagOf(tokens[k][n]) = 0 /\ (\A m \in 2 .. n - 1 : FlagOf(tokens[k][m]) # 0)
                => (Takes(tokens[k]) <=> n = Len(tokens[k]) /\ find_short(tokens[k][n], "Option") # 0)
<1> DEFINE tok == tokens[k]
           c == Tail(tok)
           len == Len(tok)
<1>1. tok \in Text /\ tok \in Seq(STRING) /\ len \in Nat /\ len >= 2
  BY DEF Text
<1> HIDE DEF tok
<1>2. c \in Text /\ Len(c) = len - 1 /\ \A n \in 1 .. len - 1 : c[n] = tok[n + 1]
  BY <1>1, TailFacts DEF Text
<1>3. Takes(tok) <=> Stop(c) # 0 /\ Stop(c) = Len(c) /\ find_short(Last(c), "Option") # 0
  BY DEF Takes, tok
<1>4. Last(c) = tok[len]
  <2>1. Last(c) = c[Len(c)]
    BY DEF Last
  <2>2. len - 1 \in 1 .. len - 1 /\ (len - 1) + 1 = len
    BY <1>1
  <2> QED BY <1>2, <2>1, <2>2
<1>5. /\ (\A n \in 2 .. len : FlagOf(tok[n]) # 0) => Stop(c) = 0
      /\ \A n \in 2 .. len :
           FlagOf(tok[n]) = 0 /\ (\A m \in 2 .. n - 1 : FlagOf(tok[m]) # 0) => Stop(c) = n - 1
  BY <1>1, ClusterStop
<1>6. ASSUME NEW n \in 2 .. len, FlagOf(tok[n]) = 0, \A m \in 2 .. n - 1 : FlagOf(tok[m]) # 0
      PROVE  Takes(tok) <=> n = len /\ find_short(tok[n], "Option") # 0
  <2>1. Stop(c) = n - 1
    BY <1>5, <1>6
  <2> DEFINE stop == Stop(c)
             size == Len(c)
             takes == find_short(tok[len], "Option") # 0
  <2>2. Takes(tok) <=> stop # 0 /\ stop = size /\ takes
    BY <1>3, <1>4
  <2>3. stop # 0 /\ (stop = size <=> n = len)
    <3>1. stop = n - 1 /\ size = len - 1
      BY <1>2, <2>1
    <3> HIDE DEF stop, size, len
    <3> QED BY <1>1, <3>1
  <2>4. n = len => (takes <=> find_short(tok[n], "Option") # 0)
    OBVIOUS
  <2> HIDE DEF stop, size, takes, len
  <2> QED BY <2>2, <2>3, <2>4
<1> HIDE DEF c
<1> QED BY <1>3, <1>5, <1>6 DEF tok

(* Where the parser is in a cluster, all before it being flags.            *)
LEMMA ClusterNow ==
  ASSUME TypeInv, Reading, InCluster
  PROVE  /\ i \in 1 .. Len(tokens) /\ tokens \in Seq(Text) /\ stage = "tokens" /\ ci # 0
         /\ Tok = tokens[i] /\ Len(tokens[i]) \in Nat /\ Len(tokens[i]) >= 2
         /\ tokens[i][2] # "-" /\ ci \in 2 .. Len(tokens[i]) + 1
         /\ Roles[i] = "short" /\ UseOf(i, Roles) = ShortUse(i)
         /\ \A m \in 2 .. ci - 1 : FlagOf(tokens[i][m]) # 0
         /\ (end_of_flags <=> EndBy(i - 1)) /\ pos_index = SlotBy(i - 1)
         /\ Taken(At[i - 1] + (ci - 2), seen, parsed_values)
<1>1. /\ i \in 1 .. Len(tokens) /\ tokens \in Seq(Text) /\ stage = "tokens" /\ ci # 0
      /\ Tok = tokens[i] /\ Len(Tok) \in Nat
  BY TokenFacts DEF InCluster
<1>2. /\ Roles[i] = "short" /\ \A m \in 2 .. ci - 1 : FlagOf(tokens[i][m]) # 0
      /\ (end_of_flags <=> EndBy(i - 1)) /\ pos_index = SlotBy(i - 1)
      /\ Taken(At[i - 1] + (ci - 2), seen, parsed_values)
  BY <1>1 DEF Reading, ReadingAt
<1>3. Len(tokens[i]) >= 2 /\ tokens[i][2] # "-"
  BY <1>1, <1>2, OptionFacts
<1>4. ci \in 2 .. Len(tokens[i]) + 1
  BY <1>1 DEF TypeInv, TypeOK
<1>5. UseOf(i, Roles) = ShortUse(i)
  BY <1>2 DEF UseOf
<1> QED BY <1>1, <1>2, <1>3, <1>4, <1>5

LEMMA BeginClusterRight ==
  ASSUME TypeInv, Reading, BeginCluster
  PROVE  Meaning'
<1>1. /\ i \in 1 .. Len(tokens) /\ tokens \in Seq(Text) /\ stage = "tokens" /\ AtToken /\ ci = 0
  BY TokenFacts DEF BeginCluster, IsOption, AtToken
<1>2. /\ tokens' = tokens /\ i' = i /\ ci' = 2 /\ stage' = "tokens"
      /\ end_of_flags' = end_of_flags /\ pos_index' = pos_index
      /\ seen' = seen /\ parsed_values' = parsed_values
  BY <1>1 DEF BeginCluster
<1>3. Roles[i] = "short"
  BY <1>1, RoleNow DEF BeginCluster
<1>4. /\ Roles[i] # "value" /\ (end_of_flags <=> EndBy(i - 1)) /\ pos_index = SlotBy(i - 1)
      /\ Taken(At[i - 1] + 0, seen, parsed_values)
  BY <1>1 DEF Reading, ReadingAt
<1>5. Taken(At[i - 1] + (2 - 2), seen', parsed_values')
  <2>1. 2 - 2 = 0
    OBVIOUS
  <2> QED BY <1>2, <1>4, <2>1
<1>6. \A m \in 2 .. 2 - 1 : FlagOf(tokens[i][m]) # 0
  OBVIOUS
<1>7. ReadingAt(i, 2, end_of_flags', pos_index', seen', parsed_values')
  BY <1>1, <1>2, <1>3, <1>4, <1>5, <1>6 DEF ReadingAt
<1> QED BY <1>2, <1>7, GoesOn

LEMMA ShortFlagRight ==
  ASSUME TypeInv, Reading, ShortFlag
  PROVE  Meaning'
<1> DEFINE flag == FlagOf(Tok[ci])
<1>1. /\ InCluster /\ ci <= Len(Tok) /\ flag # 0
      /\ IF Repeated(flag) THEN End("CliError")
         ELSE /\ Hit(flag, <<>>) /\ ci' = ci + 1
              /\ stage' = IF Args[flag].help THEN "CliHelpRequested" ELSE stage
              /\ UNCHANGED <<tokens, i, end_of_flags, pos_index>>
  BY DEF ShortFlag, FlagOf
<1>2. /\ i \in 1 .. Len(tokens) /\ tokens \in Seq(Text) /\ stage = "tokens" /\ ci # 0
      /\ Tok = tokens[i] /\ Len(tokens[i]) \in Nat /\ Len(tokens[i]) >= 2
      /\ Roles[i] = "short" /\ UseOf(i, Roles) = ShortUse(i)
      /\ \A m \in 2 .. ci - 1 : FlagOf(tokens[i][m]) # 0
      /\ (end_of_flags <=> EndBy(i - 1)) /\ pos_index = SlotBy(i - 1)
  BY <1>1, ClusterNow
<1>3. ci \in 2 .. Len(tokens[i]) /\ flag \in Arg /\ <<>> \in Text
  BY <1>1, <1>2, ClusterFacts, WrongFacts DEF FlagOf
<1>4. \A m \in 2 .. (ci + 1) - 1 : FlagOf(tokens[i][m]) # 0
  <2>1. \A m \in 2 .. (ci + 1) - 1 : m \in 2 .. ci - 1 \/ m = ci
    BY <1>3
  <2> QED BY <1>1, <1>2, <2>1
<1>5. ci - 1 <= Len(ShortUse(i)) /\ ShortUse(i)[ci - 1] = <<flag, <<>> >>
  <2>1. \A m \in 2 .. ci : FlagOf(tokens[i][m]) # 0
    <3>1. (ci + 1) - 1 = ci
      BY <1>3
    <3> QED BY <1>4, <3>1
  <2> QED BY <1>2, <1>3, <2>1, ShortUseFacts
<1>6. ci - 1 \in 1 .. Len(UseOf(i, Roles)) /\ UseOf(i, Roles)[ci - 1] = <<flag, <<>> >>
  <2>1. Len(ShortUse(i)) \in Nat
    BY <1>2, ShortUseFacts
  <2> QED BY <1>2, <1>3, <1>5, <2>1
<1> HIDE DEF flag
<1>7. CASE Repeated(flag)
  <2>1. End("CliError")
    BY <1>1, <1>7
  <2> QED BY <1>1, <1>2, <1>3, <1>6, <1>7, <2>1, ErrorRight
<1>8. CASE ~Repeated(flag)
  <2>1. /\ Hit(flag, <<>>) /\ i' = i /\ ci' = ci + 1
        /\ stage' = IF Args[flag].help THEN "CliHelpRequested" ELSE "tokens"
        /\ tokens' = tokens /\ end_of_flags' = end_of_flags /\ pos_index' = pos_index
    BY <1>1, <1>2, <1>8
  <2>2. /\ Args[flag].help => Outcome(Uses) = "CliHelpRequested"
        /\ ~Args[flag].help => Taken(At[i - 1] + (ci - 1), seen', parsed_values')
    BY <1>1, <1>2, <1>3, <1>6, <1>8, <2>1, HitRight
  <2>3. CASE Args[flag].help
    BY <2>1, <2>2, <2>3, StopsRight
  <2>4. CASE ~Args[flag].help
    <3>1. (ci + 1) - 2 = ci - 1 /\ ci + 1 # 0
      BY <1>3
    <3>2. Taken(At[i - 1] + ((ci + 1) - 2), seen', parsed_values')
      BY <2>2, <2>4, <3>1
    <3> DEFINE c == ci + 1
    <3>3. /\ c # 0 /\ Taken(At[i - 1] + (c - 2), seen', parsed_values')
          /\ \A m \in 2 .. c - 1 : FlagOf(tokens[i][m]) # 0
      BY <1>4, <3>1, <3>2
    <3>4. i <= Len(tokens)
      BY <1>2
    <3> HIDE DEF c
    <3>5. ReadingAt(i, c, end_of_flags', pos_index', seen', parsed_values')
      BY <1>2, <2>1, <3>3, <3>4 DEF ReadingAt
    <3> QED BY <2>1, <2>4, <3>5, GoesOn DEF c
  <2> QED BY <2>3, <2>4
<1> QED BY <1>7, <1>8

LEMMA ShortNow ==
  ASSUME TypeInv, Reading, InCluster, ci <= Len(Tok), FlagOf(Tok[ci]) = 0
  PROVE  /\ ci - 1 \in 1 .. Len(UseOf(i, Roles)) /\ Len(UseOf(i, Roles)) = ci - 1
         /\ Takes(tokens[i]) <=> ci = Len(Tok) /\ find_short(Tok[ci], "Option") # 0
         /\ find_short(Tok[ci], "Option") = 0 => UseOf(i, Roles)[ci - 1] = <<0, <<>> >>
         /\ find_short(Tok[ci], "Option") # 0 /\ ci # Len(Tok) =>
              UseOf(i, Roles)[ci - 1] = <<find_short(Tok[ci], "Option"), SubSeq(Tok, ci + 1, Len(Tok))>>
         /\ find_short(Tok[ci], "Option") # 0 /\ ci = Len(Tok) /\ i = Len(tokens) =>
              UseOf(i, Roles)[ci - 1] = <<0, <<>> >>
         /\ find_short(Tok[ci], "Option") # 0 /\ ci = Len(Tok) /\ i # Len(tokens) =>
              UseOf(i, Roles)[ci - 1] = <<find_short(Tok[ci], "Option"), tokens[i + 1]>>
<1> DEFINE opt == find_short(Tok[ci], "Option")
           rest == SubSeq(Tok, ci + 1, Len(Tok))
           use == ShortUse(i)
<1>1. /\ i \in 1 .. Len(tokens) /\ tokens \in Seq(Text) /\ Tok = tokens[i]
      /\ Len(Tok) \in Nat /\ Len(Tok) >= 2 /\ tokens[i][2] # "-"
      /\ UseOf(i, Roles) = use
      /\ \A m \in 2 .. ci - 1 : FlagOf(Tok[m]) # 0
  BY ClusterNow
<1>2. /\ ci \in 2 .. Len(Tok) /\ rest \in Text /\ (Len(rest) = 0 <=> ci = Len(Tok))
      /\ opt # 0 => opt \in Arg
  BY ClusterFacts
<1>3. Takes(tokens[i]) <=> ci = Len(Tok) /\ opt # 0
  BY <1>1, <1>2, ShortTakes
<1>4. /\ Len(use) = ci - 1
      /\ use[ci - 1] = IF opt = 0 THEN <<0, <<>> >> ELSE Valued(opt, i, rest)[1]
  <2>1. FlagOf(Tok[ci]) = 0
    OBVIOUS
  <2>2. LastUse(i, Tok, ci)
    BY <1>1, <1>2, <2>1, ShortUseFacts
  <2> QED BY <2>2 DEF LastUse
<1>5. ci - 1 \in 1 .. ci - 1
  BY <1>2
<1> HIDE DEF opt, rest, use
<1>6. /\ opt # 0 /\ Len(rest) # 0 => Valued(opt, i, rest)[1] = <<opt, rest>>
      /\ opt # 0 /\ Len(rest) = 0 /\ i = Len(tokens) => Valued(opt, i, rest)[1] = <<0, <<>> >>
      /\ opt # 0 /\ Len(rest) = 0 /\ i # Len(tokens) =>
           Valued(opt, i, rest)[1] = <<opt, tokens[i + 1]>>
  BY <1>1, <1>2, ValuedFacts
<1>7. /\ opt = 0 => use[ci - 1] = <<0, <<>> >>
      /\ opt # 0 /\ ci # Len(Tok) => use[ci - 1] = <<opt, rest>>
      /\ opt # 0 /\ ci = Len(Tok) /\ i = Len(tokens) => use[ci - 1] = <<0, <<>> >>
      /\ opt # 0 /\ ci = Len(Tok) /\ i # Len(tokens) => use[ci - 1] = <<opt, tokens[i + 1]>>
  BY <1>2, <1>4, <1>6
<1>8. UseOf(i, Roles)[ci - 1] = use[ci - 1] /\ Len(UseOf(i, Roles)) = ci - 1
  BY <1>1, <1>4
<1> QED BY <1>3, <1>5, <1>7, <1>8 DEF opt, rest

LEMMA ShortOptionRight ==
  ASSUME TypeInv, Reading, ShortOption
  PROVE  Meaning'
<1> DEFINE opt == find_short(Tok[ci], "Option")
           rest == SubSeq(Tok, ci + 1, Len(Tok))
           empty == rest = <<>>
           last == i = Len(tokens)
           use == UseOf(i, Roles)[ci - 1]
<1>1. /\ InCluster /\ ci <= Len(Tok) /\ FlagOf(Tok[ci]) = 0 /\ opt # 0
      /\ IF (empty /\ last) \/ Repeated(opt) THEN End("CliError")
         ELSE /\ Hit(opt, IF empty THEN tokens[i + 1] ELSE rest)
              /\ Advance(IF empty THEN 2 ELSE 1)
              /\ UNCHANGED pos_index
  BY DEF ShortOption, FlagOf
<1>2. /\ i \in 1 .. Len(tokens) /\ tokens \in Seq(Text) /\ stage = "tokens" /\ ci # 0
      /\ Roles[i] = "short" /\ (end_of_flags <=> EndBy(i - 1)) /\ pos_index = SlotBy(i - 1)
  BY <1>1, ClusterNow
<1>3. /\ ci \in 2 .. Len(Tok) /\ rest \in Text /\ (empty <=> ci = Len(Tok)) /\ opt \in Arg
      /\ Args[opt].kind = "Option"
  BY <1>1, ClusterFacts
<1>4. ~Args[opt].help
  BY <1>3, ArgsAssumption DEF Arg
<1>5. /\ ci - 1 \in 1 .. Len(UseOf(i, Roles)) /\ Len(UseOf(i, Roles)) = ci - 1
      /\ Takes(tokens[i]) <=> ci = Len(Tok) /\ opt # 0
      /\ opt # 0 /\ ci # Len(Tok) => use = <<opt, rest>>
      /\ opt # 0 /\ ci = Len(Tok) /\ last => use = <<0, <<>> >>
      /\ opt # 0 /\ ci = Len(Tok) /\ ~last => use = <<opt, tokens[i + 1]>>
  BY <1>1, ShortNow
<1> HIDE DEF opt, rest, empty
<1>6. /\ Takes(tokens[i]) <=> empty
      /\ ~empty => use = <<opt, rest>>
      /\ empty /\ last => use = <<0, <<>> >>
      /\ empty /\ ~last => use = <<opt, tokens[i + 1]>>
  BY <1>1, <1>3, <1>5
<1>7. CASE empty /\ last
  <2>1. End("CliError")
    BY <1>1, <1>7
  <2> QED BY <1>1, <1>2, <1>5, <1>6, <1>7, <2>1, ErrorRight
<1>8. CASE Repeated(opt)
  <2>1. End("CliError")
    BY <1>1, <1>8
  <2>2. PICK a, val : use = <<a, val>> /\ (a = 0 \/ (a \in Arg /\ Repeated(a)))
    BY <1>3, <1>6, <1>8
  <2> QED BY <1>1, <1>2, <1>5, <2>1, <2>2, ErrorRight
<1>9. CASE ~(empty /\ last) /\ ~Repeated(opt)
  <2>1. /\ Hit(opt, IF empty THEN tokens[i + 1] ELSE rest)
        /\ i' = i + (IF empty THEN 2 ELSE 1) /\ ci' = 0 /\ tokens' = tokens /\ stage' = "tokens"
        /\ end_of_flags' = end_of_flags /\ pos_index' = pos_index
    BY <1>1, <1>2, <1>9 DEF Advance
  <2>2. ~EndBy(i - 1) \/ EndBy(i - 1)
    OBVIOUS
  <2>3. CASE empty
    <3>1. i # Len(tokens) /\ tokens[i + 1] \in Text
      BY <1>2, <1>9, <2>3
    <3>2. Hit(opt, tokens[i + 1]) /\ i' = i + 2
      BY <2>1, <2>3
    <3>3. use = <<opt, tokens[i + 1]>> /\ Takes(tokens[i])
      BY <1>6, <2>3, <3>1
    <3>4. Taken(At[i - 1] + (ci - 1), seen', parsed_values')
      BY <1>1, <1>2, <1>3, <1>4, <1>5, <1>9, <3>1, <3>2, <3>3, HitRight
    <3>5. Taken(At[i - 1] + Len(UseOf(i, Roles)), seen', parsed_values')
      BY <1>5, <3>4
    <3>6. ReadingAt(i + 2, 0, end_of_flags', pos_index', seen', parsed_values')
      BY <1>2, <2>1, <3>1, <3>3, <3>5, PassTwo
    <3> QED BY <2>1, <3>2, <3>6, GoesOn
  <2>4. CASE ~empty
    <3>1. Hit(opt, rest) /\ i' = i + 1
      BY <2>1, <2>4
    <3>2. use = <<opt, rest>> /\ ~Takes(tokens[i])
      BY <1>6, <2>4
    <3>3. Taken(At[i - 1] + (ci - 1), seen', parsed_values')
      BY <1>1, <1>2, <1>3, <1>4, <1>5, <1>9, <3>1, <3>2, HitRight
    <3>4. Taken(At[i - 1] + Len(UseOf(i, Roles)), seen', parsed_values')
      BY <1>5, <3>3
    <3>5. ReadingAt(i + 1, 0, end_of_flags', pos_index', seen', parsed_values')
      BY <1>2, <2>1, <3>2, <3>4, PassToken
    <3> QED BY <2>1, <3>1, <3>5, GoesOn
  <2> QED BY <2>3, <2>4
<1> QED BY <1>7, <1>8, <1>9

LEMMA ShortUnknownRight ==
  ASSUME TypeInv, Reading, ShortUnknown
  PROVE  Meaning'
<1>1. /\ InCluster /\ ci <= Len(Tok) /\ FlagOf(Tok[ci]) = 0
      /\ find_short(Tok[ci], "Option") = 0 /\ End("CliError")
  BY DEF ShortUnknown, FlagOf
<1>2. ci # 0
  BY <1>1 DEF InCluster
<1>3. ci - 1 \in 1 .. Len(UseOf(i, Roles)) /\ UseOf(i, Roles)[ci - 1] = <<0, <<>> >>
  BY <1>1, ShortNow
<1> QED BY <1>1, <1>2, <1>3, ErrorRight

LEMMA EndClusterRight ==
  ASSUME TypeInv, Reading, EndCluster
  PROVE  Meaning'
<1>1. /\ i \in 1 .. Len(tokens) /\ tokens \in Seq(Text) /\ stage = "tokens" /\ ci # 0
      /\ Tok = tokens[i] /\ Len(tokens[i]) \in Nat /\ Len(tokens[i]) >= 2
      /\ tokens[i][2] # "-" /\ ci \in 2 .. Len(tokens[i]) + 1
      /\ Roles[i] = "short" /\ UseOf(i, Roles) = ShortUse(i)
      /\ \A m \in 2 .. ci - 1 : FlagOf(tokens[i][m]) # 0
      /\ (end_of_flags <=> EndBy(i - 1)) /\ pos_index = SlotBy(i - 1)
      /\ Taken(At[i - 1] + (ci - 2), seen, parsed_values)
  BY ClusterNow DEF EndCluster
<1>2. /\ ci > Len(tokens[i]) /\ tokens' = tokens /\ i' = i + 1 /\ ci' = 0 /\ stage' = "tokens"
      /\ end_of_flags' = end_of_flags /\ pos_index' = pos_index
      /\ seen' = seen /\ parsed_values' = parsed_values
  BY <1>1 DEF EndCluster, Advance
<1>3. ci - 1 = Len(tokens[i]) /\ ci - 2 = Len(tokens[i]) - 1
  BY <1>1, <1>2
<1>4. \A m \in 2 .. Len(tokens[i]) : FlagOf(tokens[i][m]) # 0
  BY <1>1, <1>3
<1>5. ~Takes(tokens[i])
  BY <1>1, <1>4, ShortTakes
<1>6. Len(UseOf(i, Roles)) = ci - 2
  BY <1>1, <1>3, <1>4, ShortUseFacts
<1>7. Taken(At[i - 1] + Len(UseOf(i, Roles)), seen', parsed_values')
  BY <1>1, <1>2, <1>6
<1>8. ReadingAt(i + 1, 0, end_of_flags', pos_index', seen', parsed_values')
  BY <1>1, <1>2, <1>5, <1>7, PassToken
<1> QED BY <1>2, <1>8, GoesOn

-----------------------------------------------------------------------------
(* The end of a command line.                                              *)

ResultsOf(uses, passed, values) ==
  \A a \in Arg :
    LET mine == {u \in DOMAIN uses : uses[u][1] = a} IN
    /\ passed[a] <=> mine # {}
    /\ values[a] =
         IF mine # {}
         THEN FlattenSeq([u \in DOMAIN uses |-> IF u \in mine THEN Added(a, uses[u][2]) ELSE <<>>])
         ELSE IF Args[a].default # <<>> THEN Added(a, Args[a].default[1]) ELSE <<>>

LEMMA FinishRight ==
  ASSUME TypeInv, Reading, Finish
  PROVE  Meaning'
<1>1. /\ tokens \in Seq(Text) /\ Len(tokens) \in Nat /\ i - 1 = Len(tokens) /\ ci = 0
  <2>1. /\ tokens \in Seq(Text) /\ Len(tokens) \in Nat /\ i \in 1 .. Len(tokens) + 1
        /\ ci # 0 => i <= Len(tokens)
    BY DEF TypeInv, TypeOK
  <2>2. i > Len(tokens)
    BY DEF Finish
  <2> QED BY <2>1, <2>2
<1>2. Taken(Len(Uses), seen, parsed_values)
  <2>1. Taken(At[i - 1] + 0, seen, parsed_values)
    BY <1>1 DEF Reading, ReadingAt
  <2>2. At[i - 1] = Len(Uses) /\ Len(Uses) \in Nat
    BY <1>1, UsesFacts DEF Places
  <2> QED BY <2>1, <2>2
<1>3. /\ Outcome(Uses) = IF \E a \in Arg : Args[a].required /\ ~seen[a] THEN "CliError" ELSE "parsed"
      /\ \A a \in Arg :
           /\ seen[a] <=> {u \in DOMAIN Uses : Uses[u][1] = a} # {}
           /\ parsed_values[a] = FlattenSeq(PiecesOf(a))
           /\ ~seen[a] => parsed_values[a] = <<>>
  BY <1>1, <1>2, TakenAll
<1>4. /\ stage' = Outcome(Uses) /\ stage' \in {"CliError", "parsed"}
      /\ tokens' = tokens /\ seen' = seen
      /\ \A a \in Arg : parsed_values'[a] = IF ~seen[a] /\ Args[a].default # <<>>
                          THEN Added(a, Args[a].default[1]) ELSE parsed_values[a]
  BY <1>3 DEF Finish
<1>5. Uses' = Uses
  BY <1>4, UsesKept
<1>6. OutcomeIsRight'
  BY <1>4, <1>5 DEF OutcomeIsRight
<1>7. ASSUME NEW a \in Arg
      PROVE  LET mine == {u \in DOMAIN Uses : Uses[u][1] = a} IN
             /\ seen'[a] <=> mine # {}
             /\ parsed_values'[a] =
                  IF mine # {}
                  THEN FlattenSeq([u \in DOMAIN Uses |-> IF u \in mine THEN Added(a, Uses[u][2]) ELSE <<>>])
                  ELSE IF Args[a].default # <<>> THEN Added(a, Args[a].default[1]) ELSE <<>>
  <2> DEFINE mine == {u \in DOMAIN Uses : Uses[u][1] = a}
             pieces == [u \in DOMAIN Uses |-> IF u \in mine THEN Added(a, Uses[u][2]) ELSE <<>>]
             some == mine # {}
             has == Args[a].default # <<>>
             dflt == Added(a, Args[a].default[1])
  <2>1. pieces = PiecesOf(a)
    <3>1. DOMAIN Uses = 1 .. Len(Uses)
      BY <1>1, UsesFacts
    <3> QED BY <3>1 DEF PiecesOf
  <2>2. /\ seen[a] <=> some
        /\ parsed_values[a] = FlattenSeq(pieces)
        /\ ~seen[a] => parsed_values[a] = <<>>
    <3> HIDE DEF pieces
    <3> QED BY <1>3, <2>1
  <2>3. seen'[a] = seen[a] /\ parsed_values'[a] = IF ~seen[a] /\ has THEN dflt ELSE parsed_values[a]
    BY <1>4
  <2>4. some => seen[a] /\ parsed_values'[a] = FlattenSeq(pieces)
    <3> HIDE DEF some, has, dflt, pieces
    <3> QED BY <2>2, <2>3
  <2>5. ~some => ~seen[a] /\ parsed_values'[a] = IF has THEN dflt ELSE <<>>
    <3> HIDE DEF some, has, dflt, pieces
    <3> QED BY <2>2, <2>3
  <2>6. /\ seen'[a] <=> some
        /\ parsed_values'[a] = IF some THEN FlattenSeq(pieces) ELSE IF has THEN dflt ELSE <<>>
    <3> HIDE DEF some, has, dflt, pieces
    <3> QED BY <2>2, <2>3, <2>4, <2>5
  <2> QED BY <2>6, Zenon
<1>8. ResultsOf(Uses, seen', parsed_values')
  BY <1>7, Zenon DEF ResultsOf
<1>9. ResultsOf(Uses', seen', parsed_values')
  BY <1>5, <1>8
<1>10. ResultsAreRight'
  BY <1>9, Zenon DEF ResultsAreRight, ResultsOf
<1>11. stage' # "tokens"
  BY <1>4
<1> QED BY <1>6, <1>10, <1>11 DEF Meaning

LEMMA EndedRight ==
  ASSUME Meaning, UNCHANGED vars
  PROVE  Meaning'
<1>1. /\ tokens' = tokens /\ stage' = stage /\ i' = i /\ ci' = ci
      /\ end_of_flags' = end_of_flags /\ pos_index' = pos_index
      /\ seen' = seen /\ parsed_values' = parsed_values
  BY DEF vars
<1>2. Uses' = Uses
  BY <1>1, UsesKept
<1>3. OutcomeIsRight'
  BY <1>1, <1>2 DEF Meaning, OutcomeIsRight
<1>4. ResultsAreRight'
  <2>1. stage = "parsed" => ResultsOf(Uses, seen, parsed_values)
    BY Zenon DEF Meaning, ResultsAreRight, ResultsOf
  <2>2. stage' = "parsed" => ResultsOf(Uses', seen', parsed_values')
    BY <1>1, <1>2, <2>1
  <2> QED BY <2>2, Zenon DEF ResultsAreRight, ResultsOf
<1>5. stage' = "tokens" => Reading'
  <2>1. stage = "tokens" => ReadingAt(i', ci', end_of_flags', pos_index', seen', parsed_values')
    BY <1>1 DEF Meaning, Reading
  <2> QED BY <1>1, <2>1, ReadingKept
<1> QED BY <1>3, <1>4, <1>5 DEF Meaning

LEMMA MeaningStep == TypeInv /\ Meaning /\ [Next]_vars => Meaning'
<1> SUFFICES ASSUME TypeInv, Meaning, [Next]_vars
             PROVE  Meaning'
  OBVIOUS
<1>1. stage = "tokens" => Reading
  BY DEF Meaning
<1>2. CASE Reset
  BY <1>2, ResetRight
<1>3. CASE Sentinel
  BY <1>1, <1>3, SentinelRight DEF Sentinel, AtToken
<1>4. CASE TakePositional
  BY <1>1, <1>4, PositionalRight DEF TakePositional, AtToken
<1>5. CASE LongFlag
  BY <1>1, <1>5, LongFlagRight DEF LongFlag, IsLong, IsOption, AtToken
<1>6. CASE LongOption
  BY <1>1, <1>6, LongOptionRight DEF LongOption, IsLong, IsOption, AtToken
<1>7. CASE LongUnknown
  BY <1>1, <1>7, LongUnknownRight DEF LongUnknown, IsLong, IsOption, AtToken
<1>8. CASE BeginCluster
  BY <1>1, <1>8, BeginClusterRight DEF BeginCluster, IsOption, AtToken
<1>9. CASE ShortFlag
  BY <1>1, <1>9, ShortFlagRight DEF ShortFlag, InCluster
<1>10. CASE ShortOption
  BY <1>1, <1>10, ShortOptionRight DEF ShortOption, InCluster
<1>11. CASE ShortUnknown
  BY <1>1, <1>11, ShortUnknownRight DEF ShortUnknown, InCluster
<1>12. CASE EndCluster
  BY <1>1, <1>12, EndClusterRight DEF EndCluster, InCluster
<1>13. CASE Finish
  BY <1>1, <1>13, FinishRight DEF Finish
<1>14. CASE Ended
  BY <1>14, EndedRight DEF Ended
<1>15. CASE UNCHANGED vars
  BY <1>15, EndedRight
<1> QED BY <1>2, <1>3, <1>4, <1>5, <1>6, <1>7, <1>8, <1>9, <1>10, <1>11, <1>12, <1>13, <1>14, <1>15 DEF Next

LEMMA MeaningInit == Init => Meaning
BY DEF Init, Meaning, OutcomeIsRight, ResultsAreRight

(* parse returns or throws as the first thing on the command line that is  *)
(* wrong or asks for help says, and without one as what is missing says,   *)
(* for every set of arguments and every command line.                      *)
THEOREM OutcomeAlwaysRight == Spec => []OutcomeIsRight
<1>1. Init => TypeInv /\ Meaning
  BY TypeInit, MeaningInit
<1>2. TypeInv /\ Meaning /\ [Next]_vars => (TypeInv /\ Meaning)'
  BY TypeStep, MeaningStep
<1>3. TypeInv /\ Meaning => OutcomeIsRight
  BY DEF Meaning
<1> QED BY <1>1, <1>2, <1>3, PTL DEF Spec

(* After a successful parse every argument has the values it was passed,   *)
(* split and in order, or its default, and is seen exactly when it was     *)
(* passed.                                                                 *)
THEOREM ResultsAlwaysRight == Spec => []ResultsAreRight
<1>1. Init => TypeInv /\ Meaning
  BY TypeInit, MeaningInit
<1>2. TypeInv /\ Meaning /\ [Next]_vars => (TypeInv /\ Meaning)'
  BY TypeStep, MeaningStep
<1>3. TypeInv /\ Meaning => ResultsAreRight
  BY DEF Meaning
<1> QED BY <1>1, <1>2, <1>3, PTL DEF Spec
=============================================================================
