---------------------------- MODULE LexerProofs ----------------------------
(***************************************************************************)
(* The tokens cover the text and their locations are right, for any text   *)
(* and however the client mixes takes and peeks.  The invariant says what  *)
(* the scanner has passed over since the end of the last token: blanks and *)
(* whole comments, the comment it is in, or the word it is reading.        *)
(***************************************************************************)
EXTENDS Lexer, FiniteSetTheorems, SequenceTheorems, TLAPS

(* Where the last token ends.                                              *)
End == IF Scanned = <<>> THEN 0 ELSE Scanned[Len(Scanned)].to

Newlines(n) == {k \in 1 .. n : text[k] = "\n"}

(* The first n characters after the last token are to be skipped, and a    *)
(* comment among them is over.                                             *)
Skipped(n) == \A k \in End + 1 .. n : is_whitespace(text[k]) \/ InComment(k, End)

Outside(n) == n > End => ~InComment(n, End) \/ text[n] = "\n"

(* A comment has begun and the line has not ended.                         *)
OpenComment ==
  \E j \in End + 1 .. at :
    /\ j < Len(text) /\ SubSeq(text, j, j + 1) = Comment
    /\ \A k \in j .. at : text[k] # "\n"

Located ==
  /\ pos = Location(at)
  /\ Newlines(at) # {} => \E m \in Newlines(at) : \A k \in Newlines(at) : k <= m
  /\ state = "word" => word.start = Location(word.from)

Place ==
  /\ End <= at /\ End \in Nat
  /\ \A i \in DOMAIN Scanned : Scanned[i].to <= End
  /\ call = "none" => at = End /\ state = "start"
  /\ call # "none" => peeked = NoToken
  /\ state \in {"start", "blank"} => Skipped(at) /\ Outside(at)
  /\ state = "comment" => Skipped(at) /\ OpenComment
  /\ state = "word" =>
       /\ End <= word.from /\ word.from < at /\ Skipped(word.from) /\ Outside(word.from)
       /\ Len(word.str) > 0
  /\ state # "start" => End < at

LexerInv == TypeOK /\ Located /\ Place /\ TokensCoverText /\ LocationsAgree

-----------------------------------------------------------------------------
(* A table has the entries it is made of.                                  *)
LEMMA TableFacts ==
  ASSUME NEW entries, \A entry \in entries : entry = <<entry[1], entry[2]>>
  PROVE  \A x \in DOMAIN Table(entries) : <<x, Table(entries)[x]>> \in entries
<1>1. ASSUME NEW x \in {entry[1] : entry \in entries}
      PROVE  <<x, (CHOOSE entry \in entries : entry[1] = x)[2]>> \in entries
  <2> DEFINE one == CHOOSE entry \in entries : entry[1] = x
  <2>1. one \in entries /\ one[1] = x
    OBVIOUS
  <2> QED BY <2>1
<1> QED BY <1>1 DEF Table

(* No character that begins a token is the end of the stream, and no token *)
(* but that of the end has its type.                                       *)
Proper == TokenType \ {"END_OF_FILE"}

EntryOK(entry) ==
  /\ entry = <<entry[1], entry[2]>>
  /\ entry[1] # Eof /\ entry[2] \in Proper

LEMMA SingleFacts == \A c \in DOMAIN Single : c # Eof /\ Single[c] \in Proper
<1>1. \A x, y : x # Eof /\ y \in Proper => EntryOK(<<x, y>>)
  BY DEF EntryOK
<1>2. \A entry \in Singles : EntryOK(entry)
  BY <1>1, ZenonT(30) DEF Singles, Eof, Proper, TokenType
<1>3. \A c \in DOMAIN Single : EntryOK(<<c, Single[c]>>)
  BY <1>2, TableFacts DEF Single, EntryOK
<1> QED BY <1>3 DEF EntryOK

LEMMA DoubleFacts ==
  \A s \in DOMAIN Double : s = <<s[1], s[2]>> /\ s[1] # Eof /\ s[2] # Eof /\ Double[s] \in Proper
<1>1. \A entry \in Doubles : /\ entry = <<entry[1], entry[2]>>
                             /\ entry[1] = <<entry[1][1], entry[1][2]>>
                             /\ entry[1][1] # Eof /\ entry[1][2] # Eof
  BY DEF Doubles, Eof
<1>2. \A entry \in Doubles : entry[2] \in Proper
  BY DEF Doubles, Proper, TokenType
<1>3. \A s \in DOMAIN Double : <<s, Double[s]>> \in Doubles
  BY <1>1, TableFacts DEF Double
<1> QED BY <1>1, <1>2, <1>3

LEMMA KeywordFacts == \A s \in DOMAIN Keyword : Keyword[s] \in Proper
<1>1. \A entry \in Keywords : entry = <<entry[1], entry[2]>> /\ entry[2] \in Proper
  BY DEF Keywords, Proper, TokenType
<1>2. \A s \in DOMAIN Keyword : <<s, Keyword[s]>> \in Keywords
  BY <1>1, TableFacts DEF Keyword
<1> QED BY <1>1, <1>2

(* Taking a character moves the location as it moves the place.            *)
LEMMA LocationMoves ==
  ASSUME text \in Seq(STRING), NEW n \in Nat, n < Len(text),
         Newlines(n) # {} => \E m \in Newlines(n) : \A k \in Newlines(n) : k <= m
  PROVE  /\ Location(n + 1) = Moved(Location(n), text[n + 1])
         /\ Location(n) \in [line : Nat, col : Nat]
         /\ Newlines(n + 1) # {} =>
              \E m \in Newlines(n + 1) : \A k \in Newlines(n + 1) : k <= m
<1>1. Newlines(n + 1) = Newlines(n) \cup (IF text[n + 1] = "\n" THEN {n + 1} ELSE {})
  BY DEF Newlines
<1>2. Newlines(n) \subseteq 1 .. n /\ n + 1 \notin Newlines(n)
  BY DEF Newlines
<1>3. IsFiniteSet(Newlines(n)) /\ Cardinality(Newlines(n)) \in Nat
  <2>1. IsFiniteSet(1 .. n)
    BY FS_Interval
  <2>2. Newlines(n) \in SUBSET (1 .. n)
    BY <1>2
  <2> QED BY <2>1, <2>2, FS_Subset, FS_CardinalityType
<1>4. \A p : Location(p) = [line |-> Cardinality(Newlines(p)),
                           col |-> IF Newlines(p) = {} THEN p ELSE p - Max(Newlines(p))]
  BY DEF Location, Newlines
<1>6. Newlines(n) # {} => Max(Newlines(n)) \in 1 .. n
  BY <1>2 DEF Max
<1>7. CASE text[n + 1] = "\n"
  <2>1. Newlines(n + 1) = Newlines(n) \cup {n + 1}
    BY <1>1, <1>7
  <2>2. Cardinality(Newlines(n + 1)) = Cardinality(Newlines(n)) + 1
    BY <1>2, <1>3, <2>1, FS_AddElement
  <2>3. n + 1 \in Newlines(n + 1) /\ \A k \in Newlines(n + 1) : k <= n + 1
    BY <1>2, <2>1
  <2>4. Max(Newlines(n + 1)) = n + 1
    BY <1>2, <2>1, <2>3 DEF Max
  <2>5. Location(n + 1) = [line |-> Cardinality(Newlines(n)) + 1, col |-> 0]
    BY <1>4, <2>2, <2>3, <2>4
  <2> QED BY <1>3, <1>4, <1>6, <1>7, <2>3, <2>5 DEF Moved
<1>8. CASE text[n + 1] # "\n"
  <2>1. Newlines(n + 1) = Newlines(n)
    BY <1>1, <1>8
  <2>2. Location(n + 1) = [Location(n) EXCEPT !.col = @ + 1]
    BY <1>4, <1>6, <2>1
  <2> QED BY <1>3, <1>4, <1>6, <1>8, <2>1, <2>2 DEF Moved
<1> QED BY <1>7, <1>8

-----------------------------------------------------------------------------
(* TokensCoverText in parts: where a token may begin, and the end.         *)
Before(i) == IF i = 1 THEN 0 ELSE Scanned[i - 1].to

FollowsOn(i) ==
  /\ Before(i) <= Scanned[i].from /\ Scanned[i].from <= Scanned[i].to
  /\ \A k \in Before(i) + 1 .. Scanned[i].from : is_whitespace(text[k]) \/ InComment(k, Before(i))
  /\ Scanned[i].from > Before(i) =>
       ~InComment(Scanned[i].from, Before(i)) \/ text[Scanned[i].from] = "\n"

EndOK(i) ==
  Scanned[i].type = "END_OF_FILE" =>
    \/ /\ Scanned[i].from = Len(text)
       /\ \A j \in i .. Len(Scanned) : Scanned[j].type = "END_OF_FILE"
    \/ Scanned[i].to = Scanned[i].from + 1 /\ text[Scanned[i].to] = Eof

LEMMA CoverParts ==
  TokensCoverText <=> /\ \A i \in DOMAIN Scanned : FollowsOn(i) /\ EndOK(i)
                      /\ call = "none" => at = Before(Len(Scanned) + 1)
BY DEF TokensCoverText, FollowsOn, EndOK, Before

LEMMA ScannedType ==
  ASSUME TypeOK
  PROVE  /\ Scanned \in Seq(Token) /\ Len(Scanned) \in Nat
         /\ DOMAIN Scanned = 1 .. Len(Scanned) /\ End = Before(Len(Scanned) + 1)
<1>1. Scanned \in Seq(Token)
  BY DEF TypeOK, Scanned
<1>2. Len(Scanned) \in Nat /\ DOMAIN Scanned = 1 .. Len(Scanned)
      /\ (Scanned = <<>> <=> Len(Scanned) = 0)
  BY <1>1
<1> QED BY <1>1, <1>2 DEF End, Before

LEMMA TextType ==
  ASSUME TypeOK
  PROVE  text \in Seq(STRING) /\ Len(text) \in Nat /\ at \in 0 .. Len(text)
BY TextsAssumption DEF TypeOK

LEMMA Squeezed ==
  /\ \A a \in Nat : a + 1 .. a = {} /\ ~(a > a)
  /\ \A a, b, c, d \in Nat : d <= a /\ a <= b /\ b <= c /\ c <= d => a = d /\ b = d
OBVIOUS

(* A token that is returned, or kept by peek, is the last one scanned; the *)
(* rest stays as it is.                                                    *)
LEMMA ReturnKeeps ==
  ASSUME LexerInv, call # "none", NEW type \in TokenType, NEW str \in Seq(STRING),
         NEW start \in [line : Nat, col : Nat], NEW from \in Nat,
         Return(type, str, start, from), text' = text, state' = "start",
         End <= from, from <= at', Skipped(from), Outside(from), start = Location(from),
         at' \in 0 .. Len(text), pos' \in [line : Nat, col : Nat], pos' = Location(at'),
         Newlines(at') # {} => \E m \in Newlines(at') : \A k \in Newlines(at') : k <= m,
         done' \in BOOLEAN, done' => at' = Len(text),
         word' \in [start : [line : Nat, col : Nat], from : Nat, str : Seq(STRING)],
         type = "END_OF_FILE" => from = Len(text) \/ (at' = from + 1 /\ text[at'] = Eof),
         type # "END_OF_FILE" => from < Len(text)
  PROVE  LexerInv'
<1> USE DEF LexerInv
<1>n. PICK n : n = Len(Scanned)
  OBVIOUS
<1>t. PICK token : token = [type |-> type, str |-> str, start |-> start, end |-> pos',
                            from |-> from, to |-> at']
  OBVIOUS
<1>u. /\ token.type = type /\ token.start = start /\ token.end = pos'
      /\ token.from = from /\ token.to = at'
  BY <1>t
<1>a. End \in Nat /\ at' \in Nat /\ Len(text) \in Nat /\ End <= at'
  <2>1. End \in Nat /\ at' \in Nat /\ Len(text) \in Nat
    BY TextType DEF Place
  <2> QED BY <2>1
<1>1. token \in Token /\ token # NoToken
  <2>1. at' \in Nat
    BY TextType
  <2>2. token \in Token
    BY <1>t, <2>1 DEF Token
  <2>3. token.type # NoToken.type
    BY <1>t DEF NoToken, TokenType
  <2> QED BY <2>2, <2>3
<1>2. /\ call' = "none" /\ peeked' \in Token \cup {NoToken} /\ tokens' \in Seq(Token)
      /\ Scanned' = Append(Scanned, token)
  <2>1. call' = "none" /\ peeked = NoToken /\ tokens \in Seq(Token)
    BY DEF Return, Place, TypeOK
  <2>2. CASE call = "peek"
    <3>1. peeked' = token /\ tokens' = tokens
      BY <1>t, <2>2 DEF Return
    <3> QED BY <1>1, <2>1, <3>1 DEF Scanned
  <2>3. CASE call # "peek"
    <3>1. tokens' = Append(tokens, token) /\ peeked' = peeked
      BY <1>t, <2>3 DEF Return
    <3>2. tokens' \in Seq(Token)
      BY <1>1, <2>1, <3>1
    <3> QED BY <2>1, <3>1, <3>2 DEF Scanned
  <2> QED BY <2>2, <2>3
<1>3. TypeOK'
  BY <1>2 DEF TypeOK
<1>4. /\ n \in Nat /\ DOMAIN Scanned = 1 .. n /\ Len(Scanned') = n + 1
      /\ DOMAIN Scanned' = 1 .. n + 1 /\ Scanned'[n + 1] = token
      /\ \A i \in 1 .. n : Scanned'[i] = Scanned[i] /\ Scanned[i] \in Token
  BY <1>n, <1>1, <1>2, ScannedType
<1>5. /\ \A i \in 1 .. n + 1 : Before(i)' = Before(i)
      /\ Before(n + 1) = End /\ Before(n + 2)' = at' /\ End' = at'
  <2>1. \A i \in 1 .. n + 1 : Before(i)' = Before(i)
    BY <1>4 DEF Before
  <2>2. Before(n + 1) = End
    BY <1>n, ScannedType
  <2>3. Before(n + 2)' = at'
    <3>1. n + 2 # 1 /\ n + 2 - 1 = n + 1
      BY <1>4
    <3>2. Scanned'[n + 1].to = at'
      BY <1>u, <1>4
    <3>3. Before(n + 2)' = Scanned'[n + 1].to
      BY <1>4, <3>1 DEF Before
    <3> QED BY <3>2, <3>3
  <2>4. End' = at'
    <3>1. Scanned' # <<>> /\ Scanned'[Len(Scanned')].to = at'
      BY <1>u, <1>4
    <3> QED BY <3>1 DEF End
  <2> QED BY <2>1, <2>2, <2>3, <2>4
<1>6. Located'
  <2>1. Location(at)' = Location(at') /\ Newlines(at)' = Newlines(at')
    BY DEF Location, Newlines
  <2> QED BY <2>1 DEF Located
<1>7. Place'
  <2>1. End' = at' /\ End' \in Nat /\ call' = "none"
    BY <1>2, <1>5, TextType
  <2>2. \A i \in DOMAIN Scanned' : Scanned'[i].to <= End'
    <3>1. \A i \in 1 .. n : Scanned[i].to <= End /\ Scanned[i].to \in Nat
      BY <1>4 DEF Place, Token
    <3>2. End \in Nat
      BY DEF Place
    <3>3. End <= at' /\ Scanned'[n + 1].to = at' /\ at' \in Nat
      BY <1>a, <1>u, <1>4
    <3>4. ASSUME NEW i \in 1 .. n
          PROVE  Scanned'[i].to <= at'
      <4>1. Scanned'[i].to = Scanned[i].to
        BY <1>4
      <4>2. \A a, b, c \in Nat : a <= b /\ b <= c => a <= c
        OBVIOUS
      <4> QED BY <3>1, <3>2, <3>3, <4>1, <4>2
    <3> QED BY <1>4, <2>1, <3>3, <3>4
  <2>3. Skipped(at)' /\ Outside(at)'
    <3>1. End' + 1 .. at' = {} /\ ~(at' > End')
      BY <1>a, <2>1, Squeezed
    <3> QED BY <3>1 DEF Skipped, Outside
  <2> QED BY <2>1, <2>2, <2>3 DEF Place
<1>8. TokensCoverText'
  <2>1. \A i \in 1 .. n : FollowsOn(i) /\ EndOK(i)
    BY <1>4, CoverParts DEF LexerInv
  <2>2. \A i, f : InComment(i, f)' = InComment(i, f)
    BY DEF InComment
  <2>3. ASSUME NEW i \in 1 .. n
        PROVE  FollowsOn(i)'
    <3>1. Before(i)' = Before(i) /\ Scanned'[i] = Scanned[i]
      BY <1>4, <1>5
    <3>2. FollowsOn(i)
      BY <2>1
    <3> QED BY <2>2, <3>1, <3>2 DEF FollowsOn
  <2>4. FollowsOn(n + 1)'
    <3>1. Before(n + 1)' = End /\ Scanned'[n + 1].from = from /\ Scanned'[n + 1].to = at'
      BY <1>u, <1>4, <1>5
    <3> QED BY <2>2, <3>1 DEF FollowsOn, Skipped, Outside
  <2>5. ASSUME NEW i \in 1 .. n
        PROVE  EndOK(i)'
    <3>1. SUFFICES ASSUME Scanned[i].type = "END_OF_FILE", Scanned[i].from = Len(text),
                          \A j \in i .. n : Scanned[j].type = "END_OF_FILE"
                   PROVE  \A j \in i .. n + 1 : Scanned'[j].type = "END_OF_FILE"
      BY <1>n, <1>4, <2>1 DEF EndOK
    <3>2. End = Len(text)
      <4>1. Len(text) <= Scanned[i].to /\ Scanned[i].to <= End /\ End <= at /\ at <= Len(text)
        <5>1. Scanned[i].from <= Scanned[i].to
          BY <2>1 DEF FollowsOn
        <5>2. Scanned[i].to <= End /\ End <= at
          BY <1>4 DEF Place
        <5>3. at <= Len(text)
          BY TextType
        <5> QED BY <3>1, <5>1, <5>2, <5>3
      <4>2. Scanned[i].to \in Nat /\ at \in Nat
        BY <1>4, TextType DEF Token
      <4> QED BY <1>a, <4>1, <4>2, Squeezed
    <3>3. type = "END_OF_FILE"
      <4>1. from >= Len(text) /\ Len(text) \in Nat
        BY <3>2, TextType
      <4> QED BY <4>1
    <3>4. \A j \in i .. n + 1 : j = n + 1 \/ j \in i .. n
      BY <1>4
    <3>5. \A j \in i .. n : Scanned'[j] = Scanned[j]
      BY <1>4
    <3> QED BY <1>u, <1>4, <3>1, <3>3, <3>4, <3>5
  <2>6. EndOK(n + 1)'
    BY <1>u, <1>4 DEF EndOK
  <2>7. \A i \in DOMAIN Scanned' : FollowsOn(i)' /\ EndOK(i)'
    BY <1>4, <2>3, <2>4, <2>5, <2>6
  <2>8. at' = Before(Len(Scanned) + 1)'
    <3>1. (Len(Scanned) + 1)' = n + 2
      BY <1>4
    <3>2. Before(Len(Scanned) + 1)' = IF n + 2 = 1 THEN 0 ELSE Scanned'[n + 1].to
      BY <1>4, <3>1 DEF Before
    <3> QED BY <1>u, <1>4, <3>2
  <2>9. (TokensCoverText <=> /\ \A i \in DOMAIN Scanned : FollowsOn(i) /\ EndOK(i)
                             /\ call = "none" => at = Before(Len(Scanned) + 1))'
    BY CoverParts, PTL
  <2> QED BY <2>7, <2>8, <2>9
<1>9. LocationsAgree'
  <2>1. \A p : Location(p)' = Location(p)
    BY DEF Location
  <2>2. \A i \in 1 .. n : Scanned'[i].start = Location(Scanned'[i].from)
                         /\ Scanned'[i].end = Location(Scanned'[i].to)
    BY <1>4 DEF LocationsAgree
  <2>3. Scanned'[n + 1].start = Location(Scanned'[n + 1].from)
        /\ Scanned'[n + 1].end = Location(Scanned'[n + 1].to)
    BY <1>u, <1>4
  <2>4. \A i \in DOMAIN Scanned' : i \in 1 .. n \/ i = n + 1
    BY <1>4
  <2>5. \A i \in DOMAIN Scanned' : /\ Scanned'[i].start = Location(Scanned'[i].from)
                                   /\ Scanned'[i].end = Location(Scanned'[i].to)
    BY <2>2, <2>3, <2>4
  <2> QED BY <2>1, <2>5 DEF LocationsAgree
<1> QED BY <1>3, <1>6, <1>7, <1>8, <1>9

-----------------------------------------------------------------------------
(* take_char, and the second character after it.                           *)
LEMMA TakeCharFacts ==
  ASSUME LexerInv, take_char
  PROVE  /\ at' = (IF at = Len(text) THEN at ELSE at + 1) /\ at' \in 0 .. Len(text)
         /\ pos' = Location(at') /\ pos' \in [line : Nat, col : Nat]
         /\ Newlines(at') # {} => \E m \in Newlines(at') : \A k \in Newlines(at') : k <= m
         /\ done' \in BOOLEAN /\ (done' => at' = Len(text))
         /\ Ahead(1) = IF at = Len(text) THEN Eof ELSE text[at + 1]
<1> USE DEF LexerInv
<1>1. /\ text \in Seq(STRING) /\ Len(text) \in Nat /\ at \in Nat /\ at <= Len(text)
      /\ pos \in [line : Nat, col : Nat] /\ pos = Location(at)
      /\ done \in BOOLEAN /\ (done => at = Len(text))
      /\ Newlines(at) # {} => \E m \in Newlines(at) : \A k \in Newlines(at) : k <= m
  BY TextType DEF TypeOK, Located
<1>2. CASE at = Len(text)
  <2>1. at' = at /\ pos' = pos /\ done' = TRUE
    BY <1>2 DEF take_char
  <2>2. at + 1 > Len(text)
    BY <1>1, <1>2
  <2> QED BY <1>1, <1>2, <2>1, <2>2 DEF Ahead
<1>3. CASE at # Len(text)
  <2>1. at' = at + 1 /\ pos' = Moved(pos, peek_char) /\ done' = done
    BY <1>3 DEF take_char
  <2>2. at < Len(text) /\ at + 1 \in 0 .. Len(text) /\ ~(at + 1 > Len(text)) /\ ~done
    BY <1>1, <1>3
  <2>3. peek_char = text[at + 1] /\ Ahead(1) = text[at + 1]
    BY <2>2 DEF peek_char, Ahead
  <2>4. /\ Location(at + 1) = Moved(pos, text[at + 1])
        /\ Newlines(at + 1) # {} =>
             \E m \in Newlines(at + 1) : \A k \in Newlines(at + 1) : k <= m
    BY <1>1, <2>2, LocationMoves
  <2>5. Moved(pos, text[at + 1]) \in [line : Nat, col : Nat]
    BY <1>1 DEF Moved
  <2> QED BY <1>1, <1>3, <2>1, <2>2, <2>3, <2>4, <2>5
<1> QED BY <1>2, <1>3

(* A blank after what was skipped is skipped, and so is a comment.         *)
LEMMA BlankIsSkipped ==
  ASSUME LexerInv, Skipped(at), Outside(at), at < Len(text), is_whitespace(text[at + 1])
  PROVE  Skipped(at + 1) /\ Outside(at + 1)
<1> USE DEF LexerInv
<1>1. /\ text \in Seq(STRING) /\ Len(text) \in Nat /\ at \in Nat /\ End \in Nat /\ End <= at
  BY TextType DEF Place
<1>2. \A k \in End + 1 .. at + 1 : k = at + 1 \/ k \in End + 1 .. at
  BY <1>1
<1>3. Skipped(at + 1)
  BY <1>2 DEF Skipped
<1>4. SUFFICES ASSUME InComment(at + 1, End), text[at + 1] # "\n"
               PROVE  FALSE
  BY <1>3 DEF Outside
<1>5. PICK j \in End + 1 .. at + 1 :
        /\ j < Len(text) /\ SubSeq(text, j, j + 1) = Comment
        /\ "\n" \notin {text[k] : k \in j .. (at + 1) - 1}
  BY <1>4 DEF InComment
<1>6. text[j] = "/"
  <2>1. j \in 1 .. Len(text) /\ j + 1 \in 1 .. Len(text) /\ j <= j + 1
    BY <1>1, <1>5
  <2>2. SubSeq(text, j, j + 1)[1] = text[j]
    BY <1>1, <2>1
  <2>3. Comment[1] = "/"
    BY DEF Comment
  <2>4. SubSeq(text, j, j + 1) = Comment
    BY <1>5
  <2> QED BY <2>2, <2>3, <2>4
<1>7. j \in End + 1 .. at
  BY <1>2, <1>5, <1>6 DEF is_whitespace
<1>8. at \in j .. (at + 1) - 1 /\ at > End
  BY <1>1, <1>7
<1>9. text[at] # "\n"
  BY <1>5, <1>8
<1>10. "\n" \notin {text[k] : k \in j .. at - 1}
  <2>1. j .. at - 1 \subseteq j .. (at + 1) - 1
    BY <1>1, <1>7
  <2> QED BY <1>5, <2>1
<1>11. InComment(at, End)
  BY <1>5, <1>7, <1>10 DEF InComment
<1> QED BY <1>8, <1>9, <1>11 DEF Outside

LEMMA CommentIsSkipped ==
  ASSUME LexerInv, Skipped(at), OpenComment, at < Len(text)
  PROVE  /\ Skipped(at + 1)
         /\ text[at + 1] = "\n" => Outside(at + 1)
         /\ text[at + 1] # "\n" =>
              \E j \in End + 1 .. at + 1 :
                /\ j < Len(text) /\ SubSeq(text, j, j + 1) = Comment
                /\ \A k \in j .. at + 1 : text[k] # "\n"
<1> USE DEF LexerInv
<1>1. /\ text \in Seq(STRING) /\ Len(text) \in Nat /\ at \in Nat /\ End \in Nat /\ End <= at
  BY TextType DEF Place
<1>2. PICK j \in End + 1 .. at :
        /\ j < Len(text) /\ SubSeq(text, j, j + 1) = Comment
        /\ \A k \in j .. at : text[k] # "\n"
  BY DEF OpenComment
<1>3. (at + 1) - 1 = at /\ j \in End + 1 .. at + 1
  BY <1>1
<1>4. InComment(at + 1, End)
  BY <1>2, <1>3 DEF InComment
<1>5. \A k \in End + 1 .. at + 1 : k = at + 1 \/ k \in End + 1 .. at
  BY <1>1
<1>6. \A k \in j .. at + 1 : k = at + 1 \/ k \in j .. at
  BY <1>1
<1> QED BY <1>2, <1>3, <1>4, <1>5, <1>6 DEF Skipped, Outside

-----------------------------------------------------------------------------
(* A token of one character, and the end of the text.                      *)
LEMMA OneCharacterKeeps ==
  ASSUME LexerInv, Begins, take_char, UNCHANGED <<text, state, word>>,
         NEW type \in TokenType, NEW str \in Seq(STRING), Return(type, str, pos, at),
         type = "END_OF_FILE" <=> peek_char = Eof
  PROVE  LexerInv'
<1> USE DEF LexerInv
<1>1. call # "none" /\ state = "start"
  BY DEF Begins
<1>2. /\ at \in Nat /\ Len(text) \in Nat /\ at <= Len(text)
      /\ pos \in [line : Nat, col : Nat] /\ pos = Location(at)
      /\ End <= at /\ Skipped(at) /\ Outside(at)
  BY <1>1, TextType DEF TypeOK, Located, Place
<1>3. at <= at'
  BY <1>2, TakeCharFacts
<1>4. /\ type = "END_OF_FILE" => at = Len(text) \/ (at' = at + 1 /\ text[at'] = Eof)
      /\ type # "END_OF_FILE" => at < Len(text)
  BY <1>2, TakeCharFacts DEF peek_char
<1>5. word' \in [start : [line : Nat, col : Nat], from : Nat, str : Seq(STRING)]
  BY DEF TypeOK
<1> QED BY <1>1, <1>2, <1>3, <1>4, <1>5, TakeCharFacts, ReturnKeeps

LEMMA TokenOfOneKeeps ==
  ASSUME LexerInv, EndOfFile \/ OneCharacter \/ UnexpectedChar
  PROVE  LexerInv'
<1>1. CASE EndOfFile
  <2>1. "END_OF_FILE" \in TokenType /\ <<>> \in Seq(STRING)
    BY DEF TokenType
  <2> QED BY <1>1, <2>1, OneCharacterKeeps DEF EndOfFile
<1>2. CASE OneCharacter
  <2>1. /\ peek_char # Eof /\ Single[peek_char] \in TokenType /\ <<>> \in Seq(STRING)
        /\ Single[peek_char] # "END_OF_FILE"
    BY <1>2, SingleFacts DEF OneCharacter, Proper
  <2> QED BY <1>2, <2>1, OneCharacterKeeps DEF OneCharacter
<1>3. CASE UnexpectedChar
  <2>1. peek_char # Eof
    BY <1>3 DEF UnexpectedChar
  <2>2. <<peek_char>> \in Seq(STRING)
    <3>1. take_char
      BY <1>3 DEF UnexpectedChar
    <3>2. peek_char = text[at + 1] /\ at # Len(text)
      BY <2>1, <3>1, TakeCharFacts DEF peek_char
    <3>3. text \in Seq(STRING) /\ at + 1 \in 1 .. Len(text)
      BY <3>2, TextType DEF LexerInv
    <3> QED BY <3>2, <3>3
  <2>3. "ERROR_UNEXPECTED_CHAR" \in TokenType
    BY DEF TokenType
  <2> QED BY <1>3, <2>1, <2>2, <2>3, OneCharacterKeeps DEF UnexpectedChar
<1> QED BY <1>1, <1>2, <1>3

LEMMA TwoCharactersKeeps ==
  ASSUME LexerInv, TwoCharacters
  PROVE  LexerInv'
<1> USE DEF LexerInv
<1> DEFINE two == <<peek_char, Ahead(2)>>
<1>1. /\ call # "none" /\ state = "start" /\ two \in DOMAIN Double
      /\ at' = at + 2 /\ pos' = Moved(Moved(pos, Ahead(1)), Ahead(2)) /\ done' = done
      /\ Return(Double[two], <<>>, pos, at) /\ UNCHANGED <<text, state, word>>
  BY DEF TwoCharacters, Begins, take_two
<1>2. peek_char # Eof /\ Ahead(2) # Eof /\ Double[two] \in Proper
  <2>1. two[1] # Eof /\ two[2] # Eof /\ Double[two] \in Proper
    BY <1>1, DoubleFacts
  <2> QED BY <2>1
<1> HIDE DEF two
<1>3. /\ at \in Nat /\ Len(text) \in Nat /\ at <= Len(text) /\ text \in Seq(STRING)
      /\ pos \in [line : Nat, col : Nat] /\ pos = Location(at)
      /\ done \in BOOLEAN /\ (done => at = Len(text))
      /\ End <= at /\ Skipped(at) /\ Outside(at)
      /\ Newlines(at) # {} => \E m \in Newlines(at) : \A k \in Newlines(at) : k <= m
  BY <1>1, TextType DEF TypeOK, Located, Place
<1>4. /\ at + 2 <= Len(text) /\ at + 1 < Len(text) /\ at < Len(text)
      /\ Ahead(1) = text[at + 1] /\ Ahead(2) = text[(at + 1) + 1] /\ (at + 1) + 1 = at + 2
  BY <1>2, <1>3 DEF peek_char, Ahead
<1>5. /\ Location(at + 1) = Moved(pos, Ahead(1))
      /\ Newlines(at + 1) # {} =>
           \E m \in Newlines(at + 1) : \A k \in Newlines(at + 1) : k <= m
  BY <1>3, <1>4, LocationMoves
<1>6. /\ Location((at + 1) + 1) = Moved(Location(at + 1), Ahead(2))
      /\ Location(at + 1) \in [line : Nat, col : Nat]
      /\ Newlines((at + 1) + 1) # {} =>
           \E m \in Newlines((at + 1) + 1) : \A k \in Newlines((at + 1) + 1) : k <= m
  <2>1. at + 1 \in Nat
    BY <1>3
  <2> QED BY <1>3, <1>4, <1>5, <2>1, LocationMoves
<1>7. pos' = Location(at') /\ pos' \in [line : Nat, col : Nat]
  <2>1. pos' = Location(at')
    BY <1>1, <1>4, <1>5, <1>6
  <2>2. pos' = Moved(Location(at + 1), Ahead(2))
    BY <1>1, <1>5
  <2>3. Moved(Location(at + 1), Ahead(2)) \in [line : Nat, col : Nat]
    BY <1>6 DEF Moved
  <2> QED BY <2>1, <2>2, <2>3
<1>8. at' \in 0 .. Len(text) /\ at <= at' /\ ~done'
  BY <1>1, <1>3, <1>4
<1>9. word' \in [start : [line : Nat, col : Nat], from : Nat, str : Seq(STRING)]
  BY <1>1 DEF TypeOK
<1>10. Double[two] \in TokenType /\ Double[two] # "END_OF_FILE" /\ <<>> \in Seq(STRING)
  BY <1>2 DEF Proper
<1>11. Newlines(at') # {} => \E m \in Newlines(at') : \A k \in Newlines(at') : k <= m
  BY <1>1, <1>4, <1>6
<1> QED BY <1>1, <1>3, <1>4, <1>7, <1>8, <1>9, <1>10, <1>11, ReturnKeeps

(* A step of the scanner that returns no token only has to say what it has *)
(* passed over.                                                            *)
LEMMA ScannerMoves ==
  ASSUME LexerInv, call # "none", UNCHANGED <<text, peeked, call, tokens>>,
         at' \in 0 .. Len(text), pos' = Location(at'), pos' \in [line : Nat, col : Nat],
         Newlines(at') # {} => \E m \in Newlines(at') : \A k \in Newlines(at') : k <= m,
         done' \in BOOLEAN, done' => at' = Len(text), End <= at',
         state' \in {"start", "comment", "blank", "word"},
         state' \in {"start", "blank"} => Skipped(at') /\ Outside(at'),
         state' = "comment" =>
           /\ Skipped(at')
           /\ \E j \in End + 1 .. at' :
                /\ j < Len(text) /\ SubSeq(text, j, j + 1) = Comment
                /\ \A k \in j .. at' : text[k] # "\n",
         state' = "word" =>
           /\ End <= word'.from /\ word'.from < at' /\ Skipped(word'.from) /\ Outside(word'.from)
           /\ Len(word'.str) > 0 /\ word'.start = Location(word'.from),
         state' # "start" => End < at',
         word' \in [start : [line : Nat, col : Nat], from : Nat, str : Seq(STRING)]
  PROVE  LexerInv'
<1> USE DEF LexerInv
<1>1. Scanned' = Scanned /\ End' = End
  BY DEF Scanned, End
<1>2. /\ \A n : Skipped(n)' = Skipped(n) /\ Outside(n)' = Outside(n)
      /\ \A n : Location(n)' = Location(n) /\ Newlines(n)' = Newlines(n)
  <2>1. \A i, f : InComment(i, f)' = InComment(i, f)
    BY DEF InComment
  <2>2. \A n : Skipped(n)' = Skipped(n)
    BY <1>1, <2>1 DEF Skipped
  <2>3. \A n : Outside(n)' = Outside(n)
    BY <1>1, <2>1 DEF Outside
  <2> QED BY <2>2, <2>3 DEF Location, Newlines
<1>3. TypeOK'
  BY DEF TypeOK
<1>4. Located'
  BY <1>2 DEF Located
<1>5. Place'
  <2>1. /\ End' <= at' /\ End' \in Nat /\ call' # "none" /\ peeked' = NoToken
        /\ \A i \in DOMAIN Scanned' : Scanned'[i].to <= End'
    BY <1>1 DEF Place
  <2>2. state' = "comment" => OpenComment'
    BY <1>1 DEF OpenComment
  <2> QED BY <1>1, <1>2, <2>1, <2>2 DEF Place
<1>6. TokensCoverText'
  <2>1. \A i \in DOMAIN Scanned : FollowsOn(i) /\ EndOK(i)
    BY CoverParts
  <2>2. \A i : Before(i)' = Before(i)
    BY <1>1 DEF Before
  <2>3. \A i, f : InComment(i, f)' = InComment(i, f)
    BY DEF InComment
  <2>4. \A i \in DOMAIN Scanned' : FollowsOn(i)' /\ EndOK(i)'
    <3>1. ASSUME NEW i \in DOMAIN Scanned
          PROVE  FollowsOn(i)'
      <4>1. FollowsOn(i) /\ Before(i)' = Before(i)
        BY <2>1, <2>2
      <4> QED BY <1>1, <2>3, <4>1 DEF FollowsOn
    <3>2. ASSUME NEW i \in DOMAIN Scanned
          PROVE  EndOK(i)'
      BY <1>1, <2>1 DEF EndOK
    <3> QED BY <1>1, <3>1, <3>2
  <2>5. (TokensCoverText <=> /\ \A i \in DOMAIN Scanned : FollowsOn(i) /\ EndOK(i)
                             /\ call = "none" => at = Before(Len(Scanned) + 1))'
    BY CoverParts, PTL
  <2> QED BY <2>4, <2>5
<1>7. LocationsAgree'
  BY <1>1, <1>2 DEF LocationsAgree
<1> QED BY <1>3, <1>4, <1>5, <1>6, <1>7

LEMMA TwoOfSequence ==
  ASSUME NEW S, NEW s \in Seq(S), NEW j \in 1 .. Len(s), j + 1 \in 1 .. Len(s)
  PROVE  SubSeq(s, j, j + 1) = <<s[j], s[j + 1]>>
<1>1. Len(s) \in Nat /\ j <= j + 1
  OBVIOUS
<1>2. SubSeq(s, j, j + 1) \in Seq(S) /\ Len(SubSeq(s, j, j + 1)) = 2
      /\ SubSeq(s, j, j + 1)[1] = s[j] /\ SubSeq(s, j, j + 1)[2] = s[j + 1]
  BY <1>1
<1>3. <<s[j], s[j + 1]>> \in Seq(S) /\ Len(<<s[j], s[j + 1]>>) = 2
  OBVIOUS
<1>4. \A i \in 1 .. 2 : SubSeq(s, j, j + 1)[i] = <<s[j], s[j + 1]>>[i]
  <2>1. \A i \in 1 .. 2 : i = 1 \/ i = 2
    OBVIOUS
  <2> QED BY <1>2, <2>1
<1> QED BY <1>2, <1>3, <1>4, SeqEqual

LEMMA CommentKeeps ==
  ASSUME LexerInv, BeginComment \/ SkipComment
  PROVE  LexerInv'
<1> USE DEF LexerInv
<1>1. /\ at \in Nat /\ Len(text) \in Nat /\ at <= Len(text) /\ text \in Seq(STRING)
      /\ End \in Nat /\ End <= at
      /\ word \in [start : [line : Nat, col : Nat], from : Nat, str : Seq(STRING)]
  BY TextType DEF TypeOK, Place
<1>2. /\ take_char /\ call # "none" /\ UNCHANGED <<text, peeked, call, word, tokens>>
  BY DEF BeginComment, SkipComment, Begins, Place
<1>3. End <= at'
  BY <1>1, <1>2, TakeCharFacts
<1>4. CASE BeginComment
  <2>1. /\ state = "start" /\ state' = "comment" /\ <<peek_char, Ahead(2)>> = Comment
        /\ Skipped(at) /\ Outside(at)
    BY <1>4 DEF BeginComment, Begins, Place
  <2>2. peek_char = "/" /\ Ahead(2) = "/" /\ "/" # Eof /\ "/" # "\n"
    <3>1. "/" # Eof /\ "/" # "\n"
      BY DEF Eof
    <3> QED BY <2>1, <3>1 DEF Comment
  <2>3. /\ at + 2 <= Len(text) /\ at < Len(text) /\ text[at + 1] = "/" /\ text[at + 2] = "/"
    BY <1>1, <2>2 DEF peek_char, Ahead
  <2>4. at' = at + 1
    BY <1>1, <1>2, <2>3, TakeCharFacts
  <2>5. at + 1 < Len(text) /\ SubSeq(text, at + 1, (at + 1) + 1) = Comment
    <3>1. at + 1 \in 1 .. Len(text) /\ at + 2 \in 1 .. Len(text) /\ (at + 1) + 1 = at + 2
      BY <1>1, <2>3
    <3>2. SubSeq(text, at + 1, at + 2) = <<text[at + 1], text[at + 2]>>
      BY <1>1, <3>1, TwoOfSequence
    <3> QED BY <1>1, <2>3, <3>1, <3>2 DEF Comment
  <2>6. Skipped(at + 1)
    <3>1. InComment(at + 1, End)
      <4>1. at + 1 \in End + 1 .. at + 1 /\ at + 1 .. (at + 1) - 1 = {}
        BY <1>1
      <4> QED BY <2>5, <4>1 DEF InComment
    <3>2. \A k \in End + 1 .. at + 1 : k = at + 1 \/ k \in End + 1 .. at
      BY <1>1
    <3> QED BY <2>1, <3>1, <3>2 DEF Skipped
  <2>7. \E j \in End + 1 .. at' :
          /\ j < Len(text) /\ SubSeq(text, j, j + 1) = Comment
          /\ \A k \in j .. at' : text[k] # "\n"
    <3>1. at + 1 \in End + 1 .. at' /\ \A k \in at + 1 .. at' : k = at + 1
      BY <1>1, <2>4
    <3> QED BY <2>2, <2>3, <2>5, <3>1
  <2>8. End < at'
    BY <1>1, <2>4
  <2> QED BY <1>1, <1>2, <1>3, <2>1, <2>4, <2>6, <2>7, <2>8, TakeCharFacts, ScannerMoves
<1>5. CASE SkipComment
  <2>1. /\ state = "comment" /\ state' = IF peek_char = "\n" THEN "start" ELSE "comment"
        /\ Skipped(at) /\ OpenComment /\ End < at
    BY <1>5 DEF SkipComment, Place
  <2>2. CASE at = Len(text)
    <3>1. at' = at /\ peek_char = Eof /\ Eof # "\n"
      BY <1>2, <2>2, TakeCharFacts DEF peek_char, Eof
    <3>2. \E j \in End + 1 .. at' :
            /\ j < Len(text) /\ SubSeq(text, j, j + 1) = Comment
            /\ \A k \in j .. at' : text[k] # "\n"
      BY <2>1, <3>1 DEF OpenComment
    <3> QED BY <1>1, <1>2, <1>3, <2>1, <3>1, <3>2, TakeCharFacts, ScannerMoves
  <2>3. CASE at # Len(text)
    <3>1. at < Len(text) /\ at' = at + 1 /\ peek_char = text[at + 1] /\ End < at'
      BY <1>1, <1>2, <2>1, <2>3, TakeCharFacts DEF peek_char
    <3> QED BY <1>1, <1>2, <1>3, <2>1, <3>1, CommentIsSkipped, TakeCharFacts, ScannerMoves
  <2> QED BY <2>2, <2>3
<1> QED BY <1>4, <1>5

LEMMA BlankKeeps ==
  ASSUME LexerInv, BeginBlank \/ SkipBlank
  PROVE  LexerInv'
<1> USE DEF LexerInv
<1>1. /\ at \in Nat /\ Len(text) \in Nat /\ at \in 0 .. Len(text) /\ End \in Nat /\ End <= at
      /\ word \in [start : [line : Nat, col : Nat], from : Nat, str : Seq(STRING)]
      /\ call # "none" /\ UNCHANGED <<text, peeked, call, word, tokens>>
      /\ Skipped(at) /\ Outside(at)
  BY TextType DEF TypeOK, Place, BeginBlank, SkipBlank, Begins
<1>2. CASE is_whitespace(peek_char) /\ take_char /\ state' = "blank"
  <2>1. peek_char # Eof
    BY <1>2 DEF is_whitespace, Eof
  <2>2. /\ at < Len(text) /\ peek_char = text[at + 1] /\ at' = at + 1
        /\ End <= at' /\ End < at'
    BY <1>1, <1>2, <2>1, TakeCharFacts DEF peek_char
  <2>3. Skipped(at') /\ Outside(at')
    BY <1>1, <1>2, <2>2, BlankIsSkipped
  <2> QED BY <1>1, <1>2, <2>2, <2>3, TakeCharFacts, ScannerMoves
<1>3. CASE state' = "start" /\ UNCHANGED streamVars
  <2>1. /\ at' = at /\ pos' = pos /\ done' = done /\ pos = Location(at)
        /\ pos \in [line : Nat, col : Nat] /\ done \in BOOLEAN /\ (done => at = Len(text))
        /\ Newlines(at) # {} => \E m \in Newlines(at) : \A k \in Newlines(at) : k <= m
    BY <1>3 DEF streamVars, TypeOK, Located
  <2> QED BY <1>1, <1>3, <2>1, ScannerMoves
<1> QED BY <1>2, <1>3 DEF BeginBlank, SkipBlank

LEMMA WordKeeps ==
  ASSUME LexerInv, BeginWord \/ ReadWord
  PROVE  LexerInv'
<1> USE DEF LexerInv
<1>1. /\ at \in Nat /\ Len(text) \in Nat /\ at <= Len(text) /\ End \in Nat /\ End <= at
      /\ text \in Seq(STRING) /\ pos \in [line : Nat, col : Nat] /\ pos = Location(at)
      /\ word \in [start : [line : Nat, col : Nat], from : Nat, str : Seq(STRING)]
      /\ call # "none" /\ UNCHANGED <<text, peeked, call, tokens>>
      /\ take_char /\ ~is_delimiter(peek_char)
  BY TextType DEF TypeOK, Located, Place, BeginWord, ReadWord, Begins
<1>2. peek_char # Eof
  BY <1>1 DEF is_delimiter, is_numeric, is_alpha, Eof
<1>3. /\ at < Len(text) /\ peek_char = text[at + 1] /\ at' = at + 1 /\ End < at' /\ End <= at'
  BY <1>1, <1>2, TakeCharFacts DEF peek_char
<1>4. peek_char \in STRING
  <2>1. at + 1 \in 1 .. Len(text)
    BY <1>1, <1>3
  <2> QED BY <1>1, <1>3, <2>1
<1>5. CASE BeginWord
  <2>1. /\ state' = "word" /\ word' = [start |-> pos, from |-> at, str |-> <<peek_char>>]
        /\ Skipped(at) /\ Outside(at)
    BY <1>5 DEF BeginWord, Begins, Place
  <2>2. /\ word'.from = at /\ word'.start = Location(at) /\ Len(word'.str) > 0
        /\ word' \in [start : [line : Nat, col : Nat], from : Nat, str : Seq(STRING)]
    BY <1>1, <1>4, <2>1
  <2>3. at < at'
    BY <1>1, <1>3
  <2> QED BY <1>1, <1>3, <2>1, <2>2, <2>3, TakeCharFacts, ScannerMoves
<1>6. CASE ReadWord
  <2>1. /\ state' = "word" /\ word' = [word EXCEPT !.str = Append(word.str, peek_char)]
        /\ state = "word"
    BY <1>6, <1>1 DEF ReadWord, TypeOK
  <2>2. /\ End <= word.from /\ word.from < at /\ Skipped(word.from) /\ Outside(word.from)
        /\ word.start = Location(word.from) /\ word.from \in Nat /\ word.str \in Seq(STRING)
    BY <1>1, <2>1 DEF Place, Located
  <2>3. Append(word.str, peek_char) \in Seq(STRING) /\ Len(Append(word.str, peek_char)) > 0
    BY <1>4, <2>2
  <2>4. /\ word'.from = word.from /\ word'.start = word.start /\ Len(word'.str) > 0
        /\ word' \in [start : [line : Nat, col : Nat], from : Nat, str : Seq(STRING)]
    BY <1>1, <2>1, <2>3
  <2>5. word'.from < at'
    BY <1>1, <1>3, <2>2, <2>4
  <2> QED BY <1>1, <1>3, <2>1, <2>2, <2>4, <2>5, TakeCharFacts, ScannerMoves
<1> QED BY <1>5, <1>6

LEMMA EndWordKeeps ==
  ASSUME LexerInv, EndWord
  PROVE  LexerInv'
<1> USE DEF LexerInv
<1> DEFINE type == WordType(word.str)
           str == IF type \in {"INT_LITERAL", "IDENT"} THEN word.str ELSE <<>>
<1>1. /\ state = "word" /\ state' = "start" /\ word' = NoWord /\ text' = text /\ call # "none"
      /\ at' = at /\ pos' = pos /\ done' = done /\ Return(type, str, word.start, word.from)
  BY DEF EndWord, streamVars, Place
<1>2. /\ at \in Nat /\ at \in 0 .. Len(text) /\ pos = Location(at) /\ Len(text) \in Nat
      /\ pos \in [line : Nat, col : Nat] /\ done \in BOOLEAN /\ (done => at = Len(text))
      /\ Newlines(at) # {} => \E m \in Newlines(at) : \A k \in Newlines(at) : k <= m
  BY TextType DEF TypeOK, Located
<1>3. /\ word \in [start : [line : Nat, col : Nat], from : Nat, str : Seq(STRING)]
      /\ End <= word.from /\ word.from < at /\ Skipped(word.from) /\ Outside(word.from)
      /\ word.start = Location(word.from)
  BY <1>1 DEF TypeOK, Place, Located
<1>4. /\ word.start \in [line : Nat, col : Nat] /\ word.from \in Nat /\ str \in Seq(STRING)
      /\ word.from <= at /\ word.from < Len(text)
  <2>1. /\ word.start \in [line : Nat, col : Nat] /\ word.from \in Nat
        /\ word.str \in Seq(STRING)
    BY <1>3
  <2>2. str \in Seq(STRING)
    <3>1. CASE type \in {"INT_LITERAL", "IDENT"}
      <4>1. str = word.str
        BY <3>1
      <4> QED BY <2>1, <4>1
    <3>2. CASE type \notin {"INT_LITERAL", "IDENT"}
      <4>1. str = <<>>
        BY <3>2
      <4>2. <<>> \in Seq(STRING)
        OBVIOUS
      <4> HIDE DEF str
      <4> QED BY <4>1, <4>2
    <3> QED BY <3>1, <3>2
  <2> HIDE DEF str
  <2>3. word.from <= at /\ word.from < Len(text)
    BY <1>2, <1>3, <2>1
  <2> QED BY <2>1, <2>2, <2>3
<1>5. type \in TokenType /\ type # "END_OF_FILE"
  <2>1. "INT_LITERAL" \in Proper /\ "IDENT" \in Proper
    BY DEF Proper, TokenType
  <2>2. \A s : WordType(s) \in Proper
    BY <2>1, KeywordFacts DEF WordType
  <2> QED BY <2>2 DEF Proper
<1>6. word' \in [start : [line : Nat, col : Nat], from : Nat, str : Seq(STRING)]
  <2>1. NoWord \in [start : [line : Nat, col : Nat], from : Nat, str : Seq(STRING)]
    BY DEF NoWord
  <2> QED BY <1>1, <2>1
<1> HIDE DEF type, str
<1> QED BY <1>1, <1>2, <1>3, <1>4, <1>5, <1>6, ReturnKeeps

(* The client's calls that do not scan change nothing that was scanned.    *)
LEMMA CallsKeep ==
  ASSUME LexerInv, take \/ peek \/ UNCHANGED vars
  PROVE  LexerInv'
<1> USE DEF LexerInv
<1>1. UNCHANGED <<text, at, done, pos, state, word>>
  BY DEF take, peek, vars, streamVars
<1>2. /\ Scanned' = Scanned /\ peeked' \in Token \cup {NoToken} /\ tokens' \in Seq(Token)
      /\ call' \in {"none", "take", "peek"} /\ (call' # "none" => peeked' = NoToken)
      /\ (call = "none" \/ call' = call)
  <2>1. CASE take
    <3>1. CASE peeked # NoToken
      <4>1. tokens' = Append(tokens, peeked) /\ peeked' = NoToken /\ call' = call /\ call = "none"
        BY <2>1, <3>1 DEF take
      <4>2. peeked \in Token /\ tokens \in Seq(Token)
        BY <3>1 DEF TypeOK
      <4> QED BY <3>1, <4>1, <4>2 DEF Scanned
    <3>2. CASE peeked = NoToken
      BY <2>1, <3>2 DEF take, Scanned, TypeOK
    <3> QED BY <3>1, <3>2
  <2>2. CASE peek
    BY <2>2 DEF peek, Scanned, TypeOK
  <2>3. CASE UNCHANGED vars
    BY <2>3 DEF vars, Scanned, TypeOK, Place
  <2> QED BY <2>1, <2>2, <2>3
<1>3. TypeOK'
  BY <1>1, <1>2 DEF TypeOK
<1>4. End' = End /\ \A i : Before(i)' = Before(i)
  BY <1>2 DEF End, Before
<1>5. \A i, f : InComment(i, f)' = InComment(i, f)
  BY <1>1 DEF InComment
<1>6. Located'
  <2>1. \A n : Location(n)' = Location(n) /\ Newlines(n)' = Newlines(n)
    BY <1>1 DEF Location, Newlines
  <2> QED BY <1>1, <2>1 DEF Located
<1>7. Place'
  <2>1. \A n : Skipped(n)' = Skipped(n)
    BY <1>1, <1>4, <1>5 DEF Skipped
  <2>2. \A n : Outside(n)' = Outside(n)
    BY <1>1, <1>4, <1>5 DEF Outside
  <2>3. OpenComment => OpenComment'
    BY <1>1, <1>4 DEF OpenComment
  <2>4. call' = "none" => at' = End' /\ state' = "start"
    BY <1>1, <1>2, <1>4 DEF Place
  <2> QED BY <1>1, <1>2, <1>4, <2>1, <2>2, <2>3, <2>4 DEF Place
<1>8. TokensCoverText'
  <2>1. \A i \in DOMAIN Scanned : FollowsOn(i) /\ EndOK(i)
    BY CoverParts
  <2>2. ASSUME NEW i \in DOMAIN Scanned
        PROVE  FollowsOn(i)'
    <3>1. FollowsOn(i) /\ Before(i)' = Before(i)
      BY <1>4, <2>1
    <3> QED BY <1>1, <1>2, <1>5, <3>1 DEF FollowsOn
  <2>3. \A i \in DOMAIN Scanned : EndOK(i)'
    BY <1>1, <1>2, <2>1 DEF EndOK
  <2>4. call' = "none" => at' = Before(Len(Scanned) + 1)'
    <3>1. call = "none" => at = Before(Len(Scanned) + 1)
      BY CoverParts
    <3>2. Before(Len(Scanned) + 1)' = Before(Len(Scanned) + 1)
      BY <1>2 DEF Before
    <3>3. call' = "none" => call = "none"
      BY <1>2
    <3> QED BY <1>1, <3>1, <3>2, <3>3
  <2>5. (TokensCoverText <=> /\ \A i \in DOMAIN Scanned : FollowsOn(i) /\ EndOK(i)
                             /\ call = "none" => at = Before(Len(Scanned) + 1))'
    BY CoverParts, PTL
  <2> QED BY <1>2, <2>2, <2>3, <2>4, <2>5
<1>9. LocationsAgree'
  <2>1. \A n : Location(n)' = Location(n)
    BY <1>1 DEF Location
  <2> QED BY <1>2, <2>1 DEF LocationsAgree
<1> QED BY <1>3, <1>6, <1>7, <1>8, <1>9

LEMMA LexerInit ==
  ASSUME Init
  PROVE  LexerInv
<1> USE DEF Init
<1>1. Scanned = <<>> /\ End = 0 /\ DOMAIN Scanned = {} /\ Len(Scanned) = 0
  BY DEF Scanned, End
<1>2. text \in Seq(STRING) /\ Len(text) \in Nat
  BY TextsAssumption
<1>3. TypeOK
  <2>1. NoWord \in [start : [line : Nat, col : Nat], from : Nat, str : Seq(STRING)]
    BY DEF NoWord
  <2>2. at \in 0 .. Len(text) /\ <<>> \in Seq(Token)
    BY <1>2
  <2> QED BY <2>1, <2>2 DEF TypeOK
<1>4. Located
  <2>1. Newlines(0) = {}
    BY DEF Newlines
  <2>2. Location(0) = [line |-> 0, col |-> 0]
    BY <2>1, FS_EmptySet DEF Location, Newlines
  <2> QED BY <2>1, <2>2 DEF Located
<1>5. Place
  <2>1. Skipped(at) /\ Outside(at)
    BY <1>1 DEF Skipped, Outside
  <2> QED BY <1>1, <2>1 DEF Place
<1>6. TokensCoverText
  <2>1. at = Before(Len(Scanned) + 1)
    BY <1>1 DEF Before
  <2> QED BY <1>1, <2>1, CoverParts
<1>7. LocationsAgree
  BY <1>1 DEF LocationsAgree
<1> QED BY <1>3, <1>4, <1>5, <1>6, <1>7 DEF LexerInv

-----------------------------------------------------------------------------
(* Whatever the client asks for and the scanner does keeps the invariant.  *)
THEOREM LexerInvariance == Spec => []LexerInv
<1>1. Init => LexerInv
  BY LexerInit
<1>2. LexerInv /\ [Next]_vars => LexerInv'
  <2>1. SUFFICES ASSUME LexerInv, [Next]_vars
                 PROVE  LexerInv'
    OBVIOUS
  <2>2. CASE EndOfFile \/ OneCharacter \/ UnexpectedChar
    BY <2>1, <2>2, TokenOfOneKeeps
  <2>3. CASE TwoCharacters
    BY <2>1, <2>3, TwoCharactersKeeps
  <2>4. CASE BeginComment \/ SkipComment
    BY <2>1, <2>4, CommentKeeps
  <2>5. CASE BeginBlank \/ SkipBlank
    BY <2>1, <2>5, BlankKeeps
  <2>6. CASE BeginWord \/ ReadWord
    BY <2>1, <2>6, WordKeeps
  <2>7. CASE EndWord
    BY <2>1, <2>7, EndWordKeeps
  <2>8. CASE take \/ peek \/ ClientEnds \/ UNCHANGED vars
    BY <2>1, <2>8, CallsKeep DEF ClientEnds
  <2> QED BY <2>1, <2>2, <2>3, <2>4, <2>5, <2>6, <2>7, <2>8 DEF Next, Scan
<1> QED BY <1>1, <1>2, PTL DEF Spec

(* The place in the text, the tokens and the word have their types.        *)
THEOREM LexerTypeCorrect == Spec => []TypeOK
<1>1. LexerInv => TypeOK
  BY DEF LexerInv
<1> QED BY <1>1, LexerInvariance, PTL

(* No character of any text is lost or read twice by take and peek.        *)
THEOREM TextIsCovered == Spec => []TokensCoverText
<1>1. LexerInv => TokensCoverText
  BY DEF LexerInv
<1> QED BY <1>1, LexerInvariance, PTL

(* The lines and columns that take_char counts are those of the tokens.    *)
THEOREM LocationsAlwaysAgree == Spec => []LocationsAgree
<1>1. LexerInv => LocationsAgree
  BY DEF LexerInv
<1> QED BY <1>1, LexerInvariance, PTL

-----------------------------------------------------------------------------
(* What the scanner keeps of the word it is in.                            *)
WordRead ==
  /\ word.str = SubSeq(text, word.from + 1, at)
  /\ \A k \in word.from + 1 .. at : ~is_delimiter(text[k])

MatchInv == LongestMatch /\ (state = "word" => WordRead)

(* Of one token: it is a token, and nothing longer is.                     *)
Longest(type, from, to) ==
  /\ Lexeme(type, SubSeq(text, from + 1, to))
  /\ \A longer \in to + 1 .. Len(text) : \A any \in TokenType :
        ~Lexeme(any, SubSeq(text, from + 1, longer))

(* Tokens that are no words begin with a character that ends a word.       *)
Begun(entry) == is_delimiter(entry[1])

LEMMA PunctuationDelimits ==
  /\ is_delimiter(";") /\ is_delimiter("(") /\ is_delimiter(")") /\ is_delimiter("[")
  /\ is_delimiter("]") /\ is_delimiter("{") /\ is_delimiter("}") /\ is_delimiter(",")
  /\ is_delimiter("^") /\ is_delimiter("~") /\ is_delimiter("+") /\ is_delimiter("*")
  /\ is_delimiter("%") /\ is_delimiter("&") /\ is_delimiter("|") /\ is_delimiter("<")
  /\ is_delimiter(">") /\ is_delimiter("=") /\ is_delimiter("!") /\ is_delimiter("-")
  /\ is_delimiter("/")
BY DEF is_delimiter, is_numeric, is_alpha

LEMMA SingleDelimits == \A c \in DOMAIN Single : is_delimiter(c)
<1>1. \A x, y : is_delimiter(x) => Begun(<<x, y>>)
  BY DEF Begun
<1>2. \A entry \in Singles : Begun(entry)
  BY <1>1, PunctuationDelimits, ZenonT(30) DEF Singles
<1>3. \A c \in DOMAIN Single : \E entry \in Singles : c = entry[1]
  BY DEF Single, Table
<1> QED BY <1>2, <1>3 DEF Begun

LEMMA DoubleDelimits == \A s \in DOMAIN Double : is_delimiter(s[1]) /\ Len(s) = 2
<1>1. \A x, y, z : is_delimiter(x) => Begun(<<<<x, y>>, z>>[1])
  BY DEF Begun
<1>2. \A entry \in Doubles : Begun(entry[1])
  BY <1>1, PunctuationDelimits, ZenonT(30) DEF Doubles
<1>3. \A s \in DOMAIN Double : \E entry \in Doubles : s = entry[1]
  BY DEF Double, Table
<1>4. \A x, y : Len(<<x, y>>) = 2
  OBVIOUS
<1>5. \A s \in DOMAIN Double : Len(s) = 2
  BY <1>4, DoubleFacts
<1> QED BY <1>2, <1>3, <1>5 DEF Begun

(* The places of a piece of the text.                                      *)
LEMMA PieceFacts ==
  ASSUME text \in Seq(STRING), NEW from \in Nat, NEW to \in Nat, from < to, to <= Len(text)
  PROVE  LET s == SubSeq(text, from + 1, to) IN
         /\ s \in Seq(STRING) /\ Len(s) = to - from /\ s # <<>>
         /\ DOMAIN s = 1 .. to - from
         /\ s[1] = text[from + 1]
         /\ \A i \in 1 .. to - from : s[i] = text[from + i]
<1> DEFINE s == SubSeq(text, from + 1, to)
<1>1. Len(text) \in Nat /\ from + 1 \in 1 .. Len(text) /\ to \in from .. Len(text)
  OBVIOUS
<1>2. /\ s \in Seq(STRING) /\ Len(s) = to - from
      /\ \A i \in 1 .. to - from : s[i] = text[from + i]
  BY <1>1
<1>3. to - from \in Nat /\ to - from > 0
  OBVIOUS
<1>4. s # <<>> /\ DOMAIN s = 1 .. to - from /\ s[1] = text[from + 1]
  BY <1>2, <1>3
<1> QED BY <1>2, <1>4

(* A text that begins with a delimiter is at most a token of two.          *)
LEMMA DelimiterLexeme ==
  ASSUME NEW s \in Seq(STRING), Len(s) >= 2, is_delimiter(s[1]), NEW type, Lexeme(type, s)
  PROVE  s \in DOMAIN Double
<1>1. Len(s) \in Nat /\ DOMAIN s = 1 .. Len(s)
  OBVIOUS
<1>2. Len(s) # 1 /\ 1 \in DOMAIN s
  BY <1>1
<1> QED BY <1>2 DEF Lexeme

(* One character, two, and a word: nothing longer from the same place is a *)
(* token.                                                                  *)
LEMMA OneIsLongest ==
  ASSUME LexerInv, at < Len(text), text[at + 1] \in DOMAIN Single,
         <<text[at + 1], Ahead(2)>> \notin DOMAIN Double
  PROVE  Longest(Single[text[at + 1]], at, at + 1)
<1> DEFINE c == text[at + 1]
<1>1. text \in Seq(STRING) /\ Len(text) \in Nat /\ at \in Nat
  BY TextType DEF LexerInv
<1>2. Lexeme(Single[c], SubSeq(text, at + 1, at + 1))
  <2>1. Len(SubSeq(text, at + 1, at + 1)) = 1 /\ SubSeq(text, at + 1, at + 1)[1] = c
    <3>1. at + 1 \in Nat /\ at < at + 1 /\ at + 1 <= Len(text) /\ (at + 1) - at = 1
      BY <1>1
    <3> QED BY <1>1, <3>1, PieceFacts
  <2> QED BY <2>1 DEF Lexeme
<1>3. ASSUME NEW to \in (at + 1) + 1 .. Len(text), NEW type,
             Lexeme(type, SubSeq(text, at + 1, to))
      PROVE  FALSE
  <2> DEFINE s == SubSeq(text, at + 1, to)
  <2>1. to \in Nat /\ at < to /\ to <= Len(text) /\ to - at >= 2
    BY <1>1
  <2>2. /\ s \in Seq(STRING) /\ Len(s) = to - at /\ s[1] = c
        /\ \A i \in 1 .. to - at : s[i] = text[at + i]
    BY <1>1, <2>1, PieceFacts
  <2>3. s \in DOMAIN Double
    <3>1. is_delimiter(s[1]) /\ Len(s) >= 2
      BY <2>1, <2>2, SingleDelimits
    <3> HIDE DEF s
    <3> QED BY <1>3, <2>2, <3>1, DelimiterLexeme DEF s
  <2>4. Len(s) = 2 /\ s = <<s[1], s[2]>>
    BY <2>3, DoubleDelimits, DoubleFacts
  <2>5. s[2] = text[at + 2] /\ at + 2 <= Len(text)
    BY <1>1, <2>1, <2>2, <2>4
  <2>6. Ahead(2) = text[at + 2]
    BY <1>1, <2>5 DEF Ahead
  <2> QED BY <2>2, <2>3, <2>4, <2>5, <2>6
<1> QED BY <1>2, <1>3 DEF Longest

LEMMA TwoIsLongest ==
  ASSUME LexerInv, at + 2 <= Len(text), <<text[at + 1], text[at + 2]>> \in DOMAIN Double
  PROVE  Longest(Double[<<text[at + 1], text[at + 2]>>], at, at + 2)
<1> DEFINE two == <<text[at + 1], text[at + 2]>>
<1>1. text \in Seq(STRING) /\ Len(text) \in Nat /\ at \in Nat
  BY TextType DEF LexerInv
<1>2. SubSeq(text, at + 1, at + 2) = two
  <2>1. at + 1 \in 1 .. Len(text) /\ at + 2 \in 1 .. Len(text) /\ (at + 1) + 1 = at + 2
    BY <1>1
  <2> QED BY <1>1, <2>1, TwoOfSequence
<1>3. Lexeme(Double[two], SubSeq(text, at + 1, at + 2))
  BY <1>2 DEF Lexeme
<1>4. ASSUME NEW to \in (at + 2) + 1 .. Len(text), NEW type,
             Lexeme(type, SubSeq(text, at + 1, to))
      PROVE  FALSE
  <2> DEFINE s == SubSeq(text, at + 1, to)
  <2>1. to \in Nat /\ at < to /\ to <= Len(text) /\ to - at > 2
    BY <1>1
  <2>2. s \in Seq(STRING) /\ Len(s) = to - at /\ s[1] = two[1]
    BY <1>1, <2>1, PieceFacts
  <2>3. s \in DOMAIN Double
    <3>1. is_delimiter(s[1]) /\ Len(s) >= 2
      BY <2>1, <2>2, DoubleDelimits
    <3> HIDE DEF s
    <3> QED BY <1>4, <2>2, <3>1, DelimiterLexeme DEF s
  <2>4. Len(s) = 2
    BY <2>3, DoubleDelimits
  <2> QED BY <2>1, <2>2, <2>4
<1> QED BY <1>3, <1>4 DEF Longest

LEMMA WordIsLongest ==
  ASSUME LexerInv, state = "word", WordRead, is_delimiter(peek_char)
  PROVE  Longest(WordType(word.str), word.from, at)
<1> DEFINE from == word.from
<1>1. /\ text \in Seq(STRING) /\ Len(text) \in Nat /\ at \in Nat /\ at <= Len(text)
      /\ from \in Nat /\ from < at /\ word.str = SubSeq(text, from + 1, at)
      /\ \A k \in from + 1 .. at : ~is_delimiter(text[k])
  BY TextType DEF LexerInv, Place, TypeOK, WordRead
<1> HIDE DEF from
<1>2. /\ DOMAIN word.str = 1 .. at - from /\ word.str # <<>>
      /\ \A i \in 1 .. at - from : word.str[i] = text[from + i]
  <2> DEFINE s == SubSeq(text, from + 1, at)
  <2>1. DOMAIN s = 1 .. at - from /\ s # <<>> /\ \A i \in 1 .. at - from : s[i] = text[from + i]
    BY <1>1, PieceFacts
  <2>2. word.str = s
    BY <1>1
  <2> HIDE DEF s
  <2> QED BY <2>1, <2>2
<1>3. Lexeme(WordType(word.str), SubSeq(text, from + 1, at))
  <2>1. \A i \in DOMAIN word.str : from + i \in from + 1 .. at
    BY <1>1, <1>2
  <2>2. \A i \in DOMAIN word.str : ~is_delimiter(word.str[i])
    BY <1>1, <1>2, <2>1
  <2> QED BY <1>1, <1>2, <2>2 DEF Lexeme
<1>4. ASSUME NEW to \in at + 1 .. Len(text), NEW type,
             Lexeme(type, SubSeq(text, from + 1, to))
      PROVE  FALSE
  <2> DEFINE s == SubSeq(text, from + 1, to)
  <2>1. /\ to \in Nat /\ from < to /\ to <= Len(text) /\ to - from >= 2
        /\ from + 1 \in from + 1 .. at /\ (at + 1) - from \in 1 .. to - from
        /\ from + ((at + 1) - from) = at + 1 /\ ~(at + 1 > Len(text))
    BY <1>1
  <2>2. /\ s \in Seq(STRING) /\ Len(s) = to - from /\ s[1] = text[from + 1]
        /\ DOMAIN s = 1 .. to - from
        /\ \A i \in 1 .. to - from : s[i] = text[from + i]
    BY <1>1, <2>1, PieceFacts
  <2>3. ~is_delimiter(s[1]) /\ Len(s) # 1
    BY <1>1, <2>1, <2>2
  <2>4. (at + 1) - from \in DOMAIN s /\ s[(at + 1) - from] = peek_char
    BY <2>1, <2>2 DEF peek_char, Ahead
  <2> HIDE DEF s
  <2>5. s \notin DOMAIN Double
    BY <2>3, DoubleDelimits
  <2> QED BY <1>4, <2>3, <2>4, <2>5 DEF Lexeme, s
<1> QED BY <1>3, <1>4 DEF Longest, from

-----------------------------------------------------------------------------
(* What was scanned before stays, and so does what holds of it.            *)
LEMMA MatchKept ==
  ASSUME LongestMatch, Scanned' = Scanned, text' = text
  PROVE  LongestMatch'
BY DEF LongestMatch

LEMMA MatchReturned ==
  ASSUME LexerInv, LongestMatch, call # "none", text' = text,
         NEW type, NEW str, NEW start, NEW from, Return(type, str, start, from),
         type \notin {"END_OF_FILE", "ERROR_UNEXPECTED_CHAR"} => Longest(type, from, at')
  PROVE  LongestMatch'
<1>1. PICK token : token = [type |-> type, str |-> str, start |-> start, end |-> pos',
                            from |-> from, to |-> at']
  OBVIOUS
<1>2. token.type = type /\ token.from = from /\ token.to = at'
  BY <1>1
<1>3. token # NoToken
  <2>1. DOMAIN token # DOMAIN NoToken
    <3>1. "to" \in DOMAIN token /\ "to" \notin DOMAIN NoToken
      BY <1>1 DEF NoToken
    <3> QED BY <3>1
  <2> QED BY <2>1
<1>4. Scanned' = Append(Scanned, token)
  <2>1. peeked = NoToken
    BY DEF LexerInv, Place
  <2> QED BY <1>1, <1>3, <2>1 DEF Return, Scanned
<1>5. PICK n : n = Len(Scanned)
  OBVIOUS
<1>6. /\ n \in Nat /\ DOMAIN Scanned = 1 .. n /\ DOMAIN Scanned' = 1 .. n + 1
      /\ Scanned'[n + 1] = token /\ \A i \in 1 .. n : Scanned'[i] = Scanned[i]
  <2>1. Scanned \in Seq(Token)
    BY ScannedType DEF LexerInv
  <2>2. Scanned \in Seq(Token \cup {token})
    BY <2>1
  <2> QED BY <1>4, <1>5, <2>2
<1>7. \A i \in 1 .. n + 1 : i = n + 1 \/ i \in 1 .. n
  BY <1>6
<1> QED BY <1>2, <1>6, <1>7 DEF LongestMatch, Longest

(* Steps that return no token extend a word, begin one, or leave it.       *)
LEMMA WordReadKept ==
  ASSUME LexerInv, BeginWord \/ (ReadWord /\ WordRead)
  PROVE  WordRead' /\ Scanned' = Scanned /\ text' = text
<1>1. /\ text \in Seq(STRING) /\ Len(text) \in Nat /\ at \in Nat /\ at <= Len(text)
      /\ take_char /\ ~is_delimiter(peek_char) /\ UNCHANGED <<text, peeked, tokens>>
      /\ word \in [start : [line : Nat, col : Nat], from : Nat, str : Seq(STRING)]
  BY TextType DEF LexerInv, TypeOK, BeginWord, ReadWord
<1>2. peek_char # Eof
  BY <1>1 DEF is_delimiter, is_numeric, is_alpha, Eof
<1>3. at < Len(text) /\ peek_char = text[at + 1] /\ at' = at + 1
  BY <1>1, <1>2, TakeCharFacts DEF peek_char
<1>4. CASE BeginWord
  <2>1. word'.from = at /\ word'.str = <<text[at + 1]>>
    BY <1>3, <1>4 DEF BeginWord
  <2>2. SubSeq(text, at + 1, at + 1) = <<text[at + 1]>>
    <3> DEFINE s == SubSeq(text, at + 1, at + 1)
    <3>1. at + 1 \in Nat /\ at < at + 1 /\ at + 1 <= Len(text) /\ (at + 1) - at = 1
          /\ at + 1 \in 1 .. Len(text)
      BY <1>1, <1>3
    <3>2. s \in Seq(STRING) /\ Len(s) = 1 /\ s[1] = text[at + 1]
      BY <1>1, <3>1, PieceFacts
    <3>3. <<text[at + 1]>> \in Seq(STRING) /\ Len(<<text[at + 1]>>) = 1
      BY <1>1, <3>1
    <3>4. \A i \in 1 .. 1 : s[i] = <<text[at + 1]>>[i]
      BY <3>2
    <3> HIDE DEF s
    <3>5. s = <<text[at + 1]>>
      BY <3>2, <3>3, <3>4, SeqEqual
    <3> QED BY <3>5 DEF s
  <2>3. \A k \in at + 1 .. at + 1 : k = at + 1
    BY <1>1
  <2> QED BY <1>1, <1>3, <2>1, <2>2, <2>3 DEF WordRead, Scanned
<1>5. CASE ReadWord /\ WordRead
  <2>1. /\ word'.from = word.from /\ word'.str = Append(word.str, text[at + 1])
        /\ word.from \in Nat /\ word.from < at
    BY <1>1, <1>3, <1>5 DEF ReadWord, LexerInv, Place
  <2>2. Append(SubSeq(text, word.from + 1, at), text[at + 1])
          = SubSeq(text, word.from + 1, at + 1)
    <3>1. /\ word.from + 1 \in 1 .. Len(text) /\ at + 1 \in word.from + 1 .. Len(text)
          /\ (at + 1) - 1 = at
      BY <1>1, <1>3, <2>1
    <3>2. SubSeq(text, word.from + 1, at + 1)
            = SubSeq(text, word.from + 1, (at + 1) - 1) \o <<text[at + 1]>>
      BY <1>1, <3>1, SubSeqRecursiveSecond
    <3>3. SubSeq(text, word.from + 1, at) \in Seq(STRING) /\ text[at + 1] \in STRING
      BY <1>1, <1>3, <2>1, PieceFacts
    <3> QED BY <3>1, <3>2, <3>3, AppendIsConcat
  <2>3. \A k \in word.from + 1 .. at + 1 : k = at + 1 \/ k \in word.from + 1 .. at
    BY <1>1, <2>1
  <2> QED BY <1>1, <1>3, <1>5, <2>1, <2>2, <2>3 DEF WordRead, Scanned
<1> QED BY <1>4, <1>5

LEMMA MatchStep ==
  ASSUME LexerInv, LexerInv', MatchInv, [Next]_vars
  PROVE  MatchInv'
<1> USE DEF MatchInv
<1>1. CASE EndOfFile \/ UnexpectedChar
  <2>1. state' = "start" /\ text' = text /\ call # "none"
    BY <1>1 DEF EndOfFile, UnexpectedChar, Begins
  <2>2. \/ Return("END_OF_FILE", <<>>, pos, at)
        \/ Return("ERROR_UNEXPECTED_CHAR", <<peek_char>>, pos, at)
    BY <1>1 DEF EndOfFile, UnexpectedChar
  <2> QED BY <2>1, <2>2, MatchReturned
<1>2. CASE OneCharacter
  <2>1. /\ state' = "start" /\ text' = text /\ call # "none" /\ take_char
        /\ peek_char \in DOMAIN Single /\ Return(Single[peek_char], <<>>, pos, at)
        /\ <<peek_char, Ahead(2)>> \notin DOMAIN Double
    BY <1>2 DEF OneCharacter, Begins
  <2>2. peek_char # Eof
    BY <2>1, SingleFacts
  <2>3. at < Len(text) /\ peek_char = text[at + 1] /\ at' = at + 1
    BY <2>1, <2>2, TakeCharFacts, TextType DEF LexerInv, peek_char
  <2>4. Longest(Single[peek_char], at, at')
    BY <2>1, <2>3, OneIsLongest
  <2> QED BY <2>1, <2>4, MatchReturned
<1>3. CASE TwoCharacters
  <2>1. /\ state' = "start" /\ text' = text /\ call # "none" /\ at' = at + 2
        /\ <<peek_char, Ahead(2)>> \in DOMAIN Double
        /\ Return(Double[<<peek_char, Ahead(2)>>], <<>>, pos, at)
    BY <1>3 DEF TwoCharacters, take_two, Begins
  <2>2. peek_char # Eof /\ Ahead(2) # Eof
    <3> DEFINE two == <<peek_char, Ahead(2)>>
    <3>1. two[1] # Eof /\ two[2] # Eof
      BY <2>1, DoubleFacts
    <3> QED BY <3>1
  <2>3. /\ at + 2 <= Len(text) /\ peek_char = text[at + 1] /\ Ahead(2) = text[at + 2]
    BY <2>2, TextType DEF LexerInv, peek_char, Ahead
  <2>4. Longest(Double[<<peek_char, Ahead(2)>>], at, at')
    BY <2>1, <2>3, TwoIsLongest
  <2> QED BY <2>1, <2>4, MatchReturned
<1>4. CASE EndWord
  <2>1. /\ state = "word" /\ state' = "start" /\ text' = text /\ call # "none" /\ at' = at
        /\ is_delimiter(peek_char) /\ WordRead
        /\ \E str : Return(WordType(word.str), str, word.start, word.from)
    BY <1>4 DEF EndWord, streamVars, LexerInv, Place
  <2>2. Longest(WordType(word.str), word.from, at')
    BY <2>1, WordIsLongest
  <2> QED BY <2>1, <2>2, MatchReturned
<1>5. CASE BeginWord \/ ReadWord
  <2>1. WordRead' /\ Scanned' = Scanned /\ text' = text
    BY <1>5, WordReadKept DEF ReadWord
  <2> QED BY <2>1, MatchKept
<1>6. CASE BeginComment \/ SkipComment \/ BeginBlank \/ SkipBlank
  <2>1. Scanned' = Scanned /\ text' = text /\ state' # "word"
    BY <1>6 DEF BeginComment, SkipComment, BeginBlank, SkipBlank, Scanned
  <2> QED BY <2>1, MatchKept
<1>7. CASE take \/ peek \/ ClientEnds \/ UNCHANGED vars
  <2>1. Scanned' = Scanned
    <3>1. CASE take /\ peeked # NoToken
      BY <3>1 DEF take, Scanned
    <3>2. CASE ~(take /\ peeked # NoToken)
      BY <1>7, <3>2 DEF take, peek, ClientEnds, vars, Scanned
    <3> QED BY <3>1, <3>2
  <2>2. UNCHANGED <<text, at, state, word>>
    BY <1>7 DEF take, peek, ClientEnds, vars, streamVars
  <2> QED BY <2>1, <2>2, MatchKept DEF WordRead
<1> QED BY <1>1, <1>2, <1>3, <1>4, <1>5, <1>6, <1>7 DEF Next, Scan

(* Maximal munch, for any text: a token is the longest piece that is a     *)
(* token of any type, however its characters were looked at one by one.    *)
THEOREM LongestAlwaysMatched == Spec => []LongestMatch
<1>1. Init => MatchInv
  <2>1. SUFFICES ASSUME Init PROVE MatchInv
    OBVIOUS
  <2>2. Scanned = <<>> /\ state = "start"
    BY <2>1 DEF Init, Scanned
  <2> QED BY <2>2 DEF MatchInv, LongestMatch
<1>2. LexerInv /\ LexerInv' /\ MatchInv /\ [Next]_vars => MatchInv'
  BY MatchStep
<1>3. MatchInv => LongestMatch
  BY DEF MatchInv
<1> QED BY <1>1, <1>2, <1>3, LexerInvariance, PTL DEF Spec
=============================================================================
