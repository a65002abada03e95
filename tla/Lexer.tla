------------------------------- MODULE Lexer -------------------------------
(***************************************************************************)
(* The lexer: a client takes tokens, or peeks at the next one, and each    *)
(* token is scanned from a stream of characters when it is asked for.      *)
(*                                                                         *)
(* An action of the scanner is what Lexer::take does for one character, or *)
(* two where it looks at the second one at once.  The recursive calls of   *)
(* take, after a comment or blanks, start over with nothing kept.          *)
(*                                                                         *)
(* Characters are strings.  take_char and peek_char return the end of the  *)
(* stream as a char, whose value -1 the byte 0xff also has, so Eof stands  *)
(* for both: peek_char cannot tell them apart, and only at can.            *)
(***************************************************************************)
EXTENDS Naturals, SequencesExt, Tokens

CONSTANTS
  Texts,      \* the texts that source files hold
  MaxTokens   \* bound: tokens the client takes

Eof == "0xff"

ASSUME TextsAssumption == \A t \in Texts : t \in Seq(STRING)
ASSUME MaxTokensAssumption == MaxTokens \in Nat

VARIABLES
  text,    \* what the stream holds
  at,      \* how many of its characters have been taken
  done, pos, peeked,
  call,    \* what the client waits for: "take", "peek" or "none"
  state,   \* where the scanner is: "start", "comment", "blank" or "word"
  word,    \* the word scanned so far
  tokens   \* all the client has taken

streamVars == <<at, done, pos>>
vars == <<text, at, done, pos, peeked, call, state, word, tokens>>

NoToken == [type |-> "none"]
NoWord == [start |-> [line |-> 0, col |-> 0], from |-> 0, str |-> <<>>]

-----------------------------------------------------------------------------
(* The token types of some texts.                                          *)
Table(entries) ==
  [chars \in {entry[1] : entry \in entries} |->
     (CHOOSE entry \in entries : entry[1] = chars)[2]]

Singles == {
  <<";", "SEMICOLON">>, <<"(", "L_PAREN">>, <<")", "R_PAREN">>,
  <<"[", "L_SQR_BRACKET">>, <<"]", "R_SQR_BRACKET">>,
  <<"{", "L_CURLY_BRACKET">>, <<"}", "R_CURLY_BRACKET">>, <<",", "COMMA">>,
  <<"^", "CARET">>, <<"~", "TILDE">>, <<"+", "PLUS">>, <<"*", "ASTERISK">>,
  <<"%", "PERCENT">>, <<"&", "AND">>, <<"|", "OR">>, <<"<", "LESS">>,
  <<">", "GREATER">>, <<"=", "EQUAL">>, <<"!", "EXCLAMATION">>, <<"-", "MINUS">>,
  <<"/", "FORWARD_SLASH">> }

Single == Table(Singles)

Doubles == {
  <<<<"&", "&">>, "AND_AND">>, <<<<"|", "|">>, "OR_OR">>,
  <<<<"<", "<">>, "LESS_LESS">>, <<<<"<", "=">>, "LESS_EQUAL">>,
  <<<<">", ">">>, "GREATER_GREATER">>, <<<<">", "=">>, "GREATER_EQUAL">>,
  <<<<"=", "=">>, "EQUAL_EQUAL">>, <<<<"!", "=">>, "EXCLAMATION_EQUAL">>,
  <<<<"-", ">">>, "THIN_ARROW">> }

Double == Table(Doubles)

Comment == <<"/", "/">>

Keywords == {
  <<<<"t", "r", "u", "e">>, "KEYWORD_TRUE">>,
  <<<<"f", "a", "l", "s", "e">>, "KEYWORD_FALSE">>,
  <<<<"f", "n">>, "KEYWORD_FN">>,
  <<<<"r", "e", "t", "u", "r", "n">>, "KEYWORD_RETURN">> }

Keyword == Table(Keywords)

(* Mutant: c <= 32, which is true of -1.                                   *)
is_whitespace_signed(c) == c \in {" ", "\t", "\n", Eof}

is_whitespace(c) == c \in {" ", "\t", "\n"}

is_numeric(c) == c \in {"0", "1", "7", "9"}

is_alpha(c) == c \in {"a", "b", "e", "f", "l", "n", "r", "s", "t", "u", "x", "Z"}

is_delimiter(c) == ~is_numeric(c) /\ ~is_alpha(c) /\ c # "_"

-----------------------------------------------------------------------------
(* The character n places after the ones taken, as take_char and peek_char *)
(* would see it.                                                           *)
Ahead(n) == IF at + n > Len(text) THEN Eof ELSE text[at + n]

peek_char == Ahead(1)

(* Mutant: a newline does not reset the column.                            *)
MovedKeepingColumn(p, c) ==
  IF c = "\n" THEN [p EXCEPT !.line = @ + 1] ELSE [p EXCEPT !.col = @ + 1]

Moved(p, c) ==
  IF c = "\n" THEN [line |-> p.line + 1, col |-> 0] ELSE [p EXCEPT !.col = @ + 1]

(* Mutant: the char is compared with Eof, in place of the int.             *)
take_char_as_char ==
  IF peek_char = Eof
  THEN done' = TRUE /\ UNCHANGED <<at, pos>>
  ELSE at' = at + 1 /\ pos' = Moved(pos, peek_char) /\ UNCHANGED done

take_char ==
  IF at = Len(text)
  THEN done' = TRUE /\ UNCHANGED <<at, pos>>
  ELSE at' = at + 1 /\ pos' = Moved(pos, peek_char) /\ UNCHANGED done

(* take_char twice, when there is a second character and it is no newline. *)
take_two ==
  /\ at' = at + 2
  /\ pos' = Moved(Moved(pos, Ahead(1)), Ahead(2))
  /\ UNCHANGED done

(* take returns, to the client or to Lexer::peek, which keeps the token.   *)
(* Besides its type and location a token has here the part of the text it  *)
(* stands for.                                                             *)
Return(type, str, start, from) ==
  LET token == [type |-> type, str |-> str, start |-> start, end |-> pos',
                from |-> from, to |-> at'] IN
  /\ call' = "none"
  /\ IF call = "peek"
     THEN peeked' = token /\ UNCHANGED tokens
     ELSE tokens' = Append(tokens, token) /\ UNCHANGED peeked

Begins == call # "none" /\ state = "start"

EndOfFile ==
  /\ Begins
  /\ peek_char = Eof
  /\ take_char
  /\ Return("END_OF_FILE", <<>>, pos, at)
  /\ UNCHANGED <<text, state, word>>

(* Mutant: a token of two characters is not looked for.                    *)
OneCharacterAlways ==
  /\ Begins
  /\ peek_char \in DOMAIN Single
  /\ <<peek_char, Ahead(2)>> # Comment
  /\ take_char
  /\ Return(Single[peek_char], <<>>, pos, at)
  /\ UNCHANGED <<text, state, word>>

OneCharacter ==
  /\ Begins
  /\ peek_char \in DOMAIN Single
  /\ <<peek_char, Ahead(2)>> \notin DOMAIN Double \cup {Comment}
  /\ take_char
  /\ Return(Single[peek_char], <<>>, pos, at)
  /\ UNCHANGED <<text, state, word>>

TwoCharacters ==
  /\ Begins
  /\ <<peek_char, Ahead(2)>> \in DOMAIN Double
  /\ take_two
  /\ Return(Double[<<peek_char, Ahead(2)>>], <<>>, pos, at)
  /\ UNCHANGED <<text, state, word>>

BeginComment ==
  /\ Begins
  /\ <<peek_char, Ahead(2)>> = Comment
  /\ take_char
  /\ state' = "comment"
  /\ UNCHANGED <<text, peeked, call, word, tokens>>

(* The loop ends with the line only: where the text ends first, take_char  *)
(* returns Eof for ever.                                                   *)
SkipComment ==
  /\ state = "comment"
  /\ take_char
  /\ state' = IF peek_char = "\n" THEN "start" ELSE "comment"
  /\ UNCHANGED <<text, peeked, call, word, tokens>>

BeginBlank ==
  /\ Begins
  /\ is_whitespace(peek_char)
  /\ take_char
  /\ state' = "blank"
  /\ UNCHANGED <<text, peeked, call, word, tokens>>

SkipBlank ==
  /\ state = "blank"
  /\ IF is_whitespace(peek_char)
     THEN take_char /\ UNCHANGED state
     ELSE state' = "start" /\ UNCHANGED streamVars
  /\ UNCHANGED <<text, peeked, call, word, tokens>>

BeginWord ==
  /\ Begins
  /\ ~is_delimiter(peek_char)
  /\ take_char
  /\ state' = "word"
  /\ word' = [start |-> pos, from |-> at, str |-> <<peek_char>>]
  /\ UNCHANGED <<text, peeked, call, tokens>>

ReadWord ==
  /\ state = "word"
  /\ ~is_delimiter(peek_char)
  /\ take_char
  /\ word' = [word EXCEPT !.str = Append(@, peek_char)]
  /\ UNCHANGED <<text, peeked, call, state, tokens>>

(* The type of a word, and what the token keeps of it.                     *)
WordType(str) ==
  CASE is_numeric(str[1]) -> "INT_LITERAL"
    [] str \in DOMAIN Keyword -> Keyword[str]
    [] OTHER -> "IDENT"

EndWord ==
  /\ state = "word"
  /\ is_delimiter(peek_char)
  /\ UNCHANGED streamVars
  /\ Return(WordType(word.str),
            IF WordType(word.str) \in {"INT_LITERAL", "IDENT"} THEN word.str ELSE <<>>,
            word.start, word.from)
  /\ state' = "start"
  /\ word' = NoWord
  /\ UNCHANGED text

UnexpectedChar ==
  /\ Begins
  /\ peek_char \notin DOMAIN Single \cup {Eof}
  /\ is_delimiter(peek_char) /\ ~is_whitespace(peek_char)
  /\ take_char
  /\ Return("ERROR_UNEXPECTED_CHAR", <<peek_char>>, pos, at)
  /\ UNCHANGED <<text, state, word>>

-----------------------------------------------------------------------------
(* Lexer::take with a token peeked before, or the start of a scan.         *)
take ==
  /\ call = "none"
  /\ Len(tokens) < MaxTokens
  /\ IF peeked # NoToken
     THEN tokens' = Append(tokens, peeked) /\ peeked' = NoToken /\ UNCHANGED call
     ELSE call' = "take" /\ UNCHANGED <<tokens, peeked>>
  /\ UNCHANGED <<text, streamVars, state, word>>

(* Mutant: peek scans another token although one was peeked already.       *)
peek_again ==
  /\ call = "none"
  /\ Len(tokens) < MaxTokens
  /\ call' = "peek"
  /\ UNCHANGED <<text, streamVars, peeked, state, word, tokens>>

(* Lexer::peek when it has to scan; otherwise it changes nothing.          *)
peek ==
  /\ call = "none"
  /\ Len(tokens) < MaxTokens
  /\ peeked = NoToken
  /\ call' = "peek"
  /\ UNCHANGED <<text, streamVars, peeked, state, word, tokens>>

ClientEnds == Len(tokens) = MaxTokens /\ UNCHANGED vars

Init ==
  /\ text \in Texts
  /\ at = 0
  /\ done = FALSE
  /\ pos = [line |-> 0, col |-> 0]
  /\ peeked = NoToken
  /\ call = "none"
  /\ state = "start"
  /\ word = NoWord
  /\ tokens = <<>>

Scan ==
  \/ EndOfFile \/ OneCharacter \/ TwoCharacters
  \/ BeginComment \/ SkipComment
  \/ BeginBlank \/ SkipBlank
  \/ BeginWord \/ ReadWord \/ EndWord
  \/ UnexpectedChar

Next == take \/ peek \/ Scan \/ ClientEnds

(* A call that was made is executed.                                       *)
Spec == Init /\ [][Next]_vars /\ WF_vars(Scan)

-----------------------------------------------------------------------------
Token ==
  [type : TokenType, str : Seq(STRING), from : Nat, to : Nat,
   start : [line : Nat, col : Nat], end : [line : Nat, col : Nat]]

TypeOK ==
  /\ text \in Texts
  /\ at \in 0 .. Len(text)
  /\ done \in BOOLEAN
  /\ pos \in [line : Nat, col : Nat]
  /\ peeked \in Token \cup {NoToken}
  /\ call \in {"none", "take", "peek"}
  /\ state \in {"start", "comment", "blank", "word"}
  /\ word \in [start : [line : Nat, col : Nat], from : Nat, str : Seq(STRING)]
  /\ tokens \in Seq(Token)
  /\ done => at = Len(text)

(* All that was scanned, whether the client has taken it or only peeked.   *)
Scanned == IF peeked = NoToken THEN tokens ELSE Append(tokens, peeked)

(* Character i of the text is skipped if it is a blank or in a comment     *)
(* that starts after character f.                                          *)
InComment(i, f) ==
  \E j \in f + 1 .. i :
    /\ j < Len(text) /\ SubSeq(text, j, j + 1) = Comment
    /\ "\n" \notin {text[k] : k \in j .. i - 1}

(* Nothing of the text is lost or read twice, however takes and peeks      *)
(* follow each other: a token begins where the one before it ended, but    *)
(* for blanks and whole comments, and the scanner has read no further than *)
(* the last token. The end of the file is reported at the end of the text, *)
(* from then on for ever, or at a byte 0xff, with the rest still to come.  *)
TokensCoverText ==
  LET From(i) == IF i = 1 THEN 0 ELSE Scanned[i - 1].to IN
  /\ \A i \in DOMAIN Scanned :
        LET token == Scanned[i] IN
        /\ From(i) <= token.from /\ token.from <= token.to
        /\ \A k \in From(i) + 1 .. token.from :
              is_whitespace(text[k]) \/ InComment(k, From(i))
        /\ token.from > From(i) => ~InComment(token.from, From(i)) \/ text[token.from] = "\n"
  /\ call = "none" => at = From(Len(Scanned) + 1)
  /\ \A i \in DOMAIN Scanned :
        Scanned[i].type = "END_OF_FILE" =>
          \/ /\ Scanned[i].from = Len(text)
             /\ \A j \in i .. Len(Scanned) : Scanned[j].type = "END_OF_FILE"
          \/ Scanned[i].to = Scanned[i].from + 1 /\ text[Scanned[i].to] = Eof

Lexeme(type, s) ==
  \/ Len(s) = 1 /\ s[1] \in DOMAIN Single /\ type = Single[s[1]]
  \/ s \in DOMAIN Double /\ type = Double[s]
  \/ s # <<>> /\ (\A k \in DOMAIN s : ~is_delimiter(s[k])) /\ type = WordType(s)

(* A token is the longest piece of the text, from where it begins, that is *)
(* a token of any type.                                                    *)
LongestMatch ==
  \A i \in DOMAIN Scanned :
    LET token == Scanned[i] IN
    token.type \notin {"END_OF_FILE", "ERROR_UNEXPECTED_CHAR"} =>
      /\ Lexeme(token.type, SubSeq(text, token.from + 1, token.to))
      /\ \A to \in token.to + 1 .. Len(text) : \A type \in TokenType :
            ~Lexeme(type, SubSeq(text, token.from + 1, to))

(* The line and column of the place after the first n characters.          *)
Location(n) ==
  LET newlines == {k \in 1 .. n : text[k] = "\n"} IN
  [line |-> Cardinality(newlines),
   col  |-> IF newlines = {} THEN n ELSE n - Max(newlines)]

(* Error messages point at the text they are about: the locations of a     *)
(* token are those of the characters it was read from.                     *)
LocationsAgree ==
  \A i \in DOMAIN Scanned :
    Scanned[i].start = Location(Scanned[i].from) /\ Scanned[i].end = Location(Scanned[i].to)

(* The last line of the text has a comment that the call is in.            *)
InLastComment ==
  /\ state = "comment" /\ at = Len(text)
  /\ InComment(Len(text), 0) /\ (text = <<>> \/ Last(text) # "\n")

(* take and peek return, unless the text ends in a comment.                *)
CallsReturn == call # "none" ~> (call = "none" \/ InLastComment)

(* take and peek return: "Consumes and returns the next token".            *)
EveryCallReturns == call # "none" ~> call = "none"
=============================================================================
