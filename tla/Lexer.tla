-------------------------------- MODULE Lexer --------------------------------
(***************************************************************************)
(* The lexing of one file: threadEntry of                                  *)
(* compiler/src/code/frontend/lexer.cpp, with tokenBreakChar and           *)
(* tokenMapKeywords of lexerTokens.h. A step is one turn of a loop of the  *)
(* function, or what it does between two loops.                            *)
(*                                                                         *)
(* A source is a sequence of characters; as in the code, offsets count     *)
(* from 0. A token's lexeme is given by the part of the source it is       *)
(* copied from. A symbol is its own kind: TOKEN_ARROW, which the code      *)
(* names but does not declare, is the kind of the text "->".               *)
(***************************************************************************)
EXTENDS Integers, Sequences, FiniteSets

CONSTANTS
  Sources,   \* the contents a file may have
  Keywords   \* the texts of tokenMapKeywords

ASSUME SourcesAssumption == Sources \subseteq Seq(STRING)

Digits == {"0"}                     \* for all ten, which are treated alike
Spaces == {"space", "tab", "return"}

(* The characters a case of the switch handles, and those in the set.      *)
Symbols ==
  {"+", "-", "*", "/", "%", "&", "|", "^", "<", ">", "=", "!", ":", ".",
   "(", ")", "{", "}", "[", "]", ",", ";", "~", "?"}
BreakChars == (Symbols \ {"?"}) \cup {"doublequote", "quote", "space"}

LongSymbols ==
  {<<c, "=">> : c \in {"+", "-", "*", "/", "%", "&", "|", "^", "<", ">", "=", "!"}}
    \cup {<<c, c>> : c \in {"+", "-", "&", "|", "<", ">", ":", "."}}
    \cup {<<"-", ">">>, <<"<", "<", "=">>, <<">", ">", "=">>}

VARIABLES
  source,    \* the mapped file
  mode,      \* the loop that is running
  pos, line, col,
  start,     \* where the lexeme being read begins
  isFloat, valid,
  tokens

vars == <<source, mode, pos, line, col, start, isFloat, valid, tokens>>

Size == Len(source)
At(k, C) == k < Size /\ source[k + 1] \in C
Text(from, to) == SubSeq(source, from + 1, to)

Init ==
  /\ source \in Sources
  /\ mode = "open"
  /\ pos = 0 /\ line = 1 /\ col = 1
  /\ start = 0
  /\ isFloat = FALSE /\ valid = TRUE
  /\ tokens = <<>>

-----------------------------------------------------------------------------
Goto(here, there) == mode = here /\ mode' = there

(* n characters of the current line are consumed.                          *)
Consume(n) == pos' = pos + n /\ col' = col + n

Token(kind, from, to, c) ==
  [kind |-> kind, from |-> from, to |-> to, line |-> line, col |-> c]

Push(kind, from, to, c) == tokens' = Append(tokens, Token(kind, from, to, c))

(* The file cannot be opened or mapped, or is empty.                       *)
NoSource ==
  /\ Goto("open", "done")
  /\ UNCHANGED <<source, pos, line, col, start, isFloat, valid, tokens>>

OpenSource ==
  /\ Size > 0
  /\ Goto("open", "code")
  /\ UNCHANGED <<source, pos, line, col, start, isFloat, valid, tokens>>

Newline ==
  /\ Goto("code", "code")
  /\ At(pos, {"newline"})
  /\ pos' = pos + 1 /\ line' = line + 1 /\ col' = 1
  /\ UNCHANGED <<source, start, isFloat, valid, tokens>>

Space ==
  /\ Goto("code", "code")
  /\ At(pos, Spaces)
  /\ Consume(1)
  /\ UNCHANGED <<source, line, start, isFloat, valid, tokens>>

-----------------------------------------------------------------------------
(* Comments.                                                               *)

BlockOpen ==
  /\ Goto("code", "block")
  /\ At(pos, {"/"}) /\ At(pos + 1, {"*"})
  /\ Consume(2)
  /\ UNCHANGED <<source, line, start, isFloat, valid, tokens>>

BlockEnds == pos + 1 >= Size \/ (At(pos, {"*"}) /\ At(pos + 1, {"/"}))

BlockTurn ==
  /\ Goto("block", "block")
  /\ ~BlockEnds
  /\ line' = IF At(pos, {"newline"}) THEN line + 1 ELSE line
  /\ Consume(1)
  /\ UNCHANGED <<source, start, isFloat, valid, tokens>>

(* Variant: the closing mark is taken for three characters.                *)
BlockCloseFar ==
  /\ Goto("block", "code")
  /\ BlockEnds
  /\ Consume(3)
  /\ UNCHANGED <<source, line, start, isFloat, valid, tokens>>

(* Two characters are skipped even if there is no closing mark.            *)
BlockClose ==
  /\ Goto("block", "code")
  /\ BlockEnds
  /\ Consume(2)
  /\ UNCHANGED <<source, line, start, isFloat, valid, tokens>>

(* Variant: the slashes are not stepped over.                              *)
LineOpenInPlace ==
  /\ Goto("code", "line")
  /\ At(pos, {"/"}) /\ At(pos + 1, {"/"})
  /\ UNCHANGED <<source, pos, line, col, start, isFloat, valid, tokens>>

LineOpen ==
  /\ Goto("code", "line")
  /\ At(pos, {"/"}) /\ At(pos + 1, {"/"})
  /\ Consume(2)
  /\ UNCHANGED <<source, line, start, isFloat, valid, tokens>>

(* Variant: the end of the file is not looked for.                         *)
LineTurnUnbounded ==
  /\ Goto("line", "line")
  /\ ~At(pos, {"newline"})
  /\ Consume(1)
  /\ UNCHANGED <<source, line, start, isFloat, valid, tokens>>

LineTurn ==
  /\ Goto("line", "line")
  /\ pos < Size /\ ~At(pos, {"newline"})
  /\ Consume(1)
  /\ UNCHANGED <<source, line, start, isFloat, valid, tokens>>

LineClose ==
  /\ Goto("line", "code")
  /\ pos >= Size \/ At(pos, {"newline"})
  /\ UNCHANGED <<source, pos, line, col, start, isFloat, valid, tokens>>

-----------------------------------------------------------------------------
(* Numbers: pos stays on the last character taken.                         *)

Point(k) == At(k, {"."}) /\ At(k + 1, Digits)

NumberOpen ==
  /\ Goto("code", "number")
  /\ At(pos, Digits) \/ Point(pos)
  /\ start' = pos /\ isFloat' = FALSE /\ valid' = TRUE
  /\ UNCHANGED <<source, pos, line, col, tokens>>

(* Variant: a dot is taken whatever follows it.                            *)
NumberTurnGreedy ==
  /\ Goto("number", "number")
  /\ At(pos + 1, Digits \cup {"."})
  /\ Consume(1)
  /\ isFloat' = (isFloat \/ At(pos + 1, {"."}))
  /\ valid' = (valid /\ ~(isFloat /\ At(pos + 1, {"."})))
  /\ UNCHANGED <<source, line, start, tokens>>

NumberTurn ==
  /\ Goto("number", "number")
  /\ At(pos + 1, Digits) \/ Point(pos + 1)
  /\ Consume(1)
  /\ isFloat' = (isFloat \/ At(pos + 1, {"."}))
  /\ valid' = (valid /\ ~(isFloat /\ At(pos + 1, {"."})))
  /\ UNCHANGED <<source, line, start, tokens>>

NumberClose ==
  /\ Goto("number", "code")
  /\ ~At(pos + 1, Digits) /\ ~Point(pos + 1)
  /\ Consume(1)
  /\ Push(IF ~valid THEN "ERROR" ELSE IF isFloat THEN "FLOAT" ELSE "INTEGER",
          start, pos + 1, col + 1)
  /\ UNCHANGED <<source, line, start, isFloat, valid>>

-----------------------------------------------------------------------------
(* Symbols: the longest one the switch knows at this place.                *)

SymbolHere(n) ==
  /\ pos + n <= Size
  /\ IF n = 1 THEN At(pos, Symbols) ELSE Text(pos, pos + n) \in LongSymbols

Symbol ==
  /\ Goto("code", "code")
  /\ ~(At(pos, {"/"}) /\ At(pos + 1, {"*", "/"}))
  /\ ~Point(pos)
  /\ \E n \in 1..3 :
       /\ SymbolHere(n) /\ \A m \in n + 1 .. 3 : ~SymbolHere(m)
       /\ Push("SYMBOL", pos, pos + n, col)
       /\ Consume(n)
  /\ UNCHANGED <<source, line, start, isFloat, valid>>

-----------------------------------------------------------------------------
(* Character literals.                                                     *)

Plain   == At(pos + 2, {"quote"})
Escaped == At(pos + 1, {"backslash"}) /\ At(pos + 3, {"quote"})

PlainChar ==
  /\ Goto("code", "code")
  /\ At(pos, {"quote"}) /\ Plain
  /\ Push("CHAR", pos + 1, pos + 2, col)
  /\ Consume(3)
  /\ UNCHANGED <<source, line, start, isFloat, valid>>

(* Variant: the column counts the characters of an unescaped literal.      *)
EscapedCharNarrow ==
  /\ Goto("code", "code")
  /\ At(pos, {"quote"}) /\ ~Plain /\ Escaped
  /\ Push("CHAR", pos + 1, pos + 3, col)
  /\ pos' = pos + 4 /\ col' = col + 3
  /\ UNCHANGED <<source, line, start, isFloat, valid>>

EscapedChar ==
  /\ Goto("code", "code")
  /\ At(pos, {"quote"}) /\ ~Plain /\ Escaped
  /\ Push("CHAR", pos + 1, pos + 3, col)
  /\ Consume(4)
  /\ UNCHANGED <<source, line, start, isFloat, valid>>

(* The lexeme is a message, in the place of the quote.                     *)
BadChar ==
  /\ Goto("code", "code")
  /\ At(pos, {"quote"}) /\ ~Plain /\ ~Escaped
  /\ Push("ERROR", pos, pos + 1, col)
  /\ Consume(1)
  /\ UNCHANGED <<source, line, start, isFloat, valid>>

-----------------------------------------------------------------------------
(* Strings.                                                                *)

StringOpen ==
  /\ Goto("code", "string")
  /\ At(pos, {"doublequote"})
  /\ Consume(1)
  /\ start' = pos + 1
  /\ UNCHANGED <<source, line, isFloat, valid, tokens>>

(* Variant: the backslash is skipped without what it escapes.              *)
StringEscapeShort ==
  /\ Goto("string", "string")
  /\ At(pos, {"backslash"}) /\ pos + 1 < Size
  /\ Consume(1)
  /\ UNCHANGED <<source, line, start, isFloat, valid, tokens>>

StringEscape ==
  /\ Goto("string", "string")
  /\ At(pos, {"backslash"}) /\ pos + 1 < Size
  /\ Consume(2)
  /\ UNCHANGED <<source, line, start, isFloat, valid, tokens>>

(* Variants: a newline in a string does not start a line; it starts one    *)
(* but is not counted.                                                     *)
StringTurnPlain ==
  /\ Goto("string", "string")
  /\ pos < Size /\ ~At(pos, {"doublequote"})
  /\ ~(At(pos, {"backslash"}) /\ pos + 1 < Size)
  /\ Consume(1)
  /\ UNCHANGED <<source, line, start, isFloat, valid, tokens>>

StringTurnReset ==
  /\ Goto("string", "string")
  /\ pos < Size /\ ~At(pos, {"doublequote"})
  /\ ~(At(pos, {"backslash"}) /\ pos + 1 < Size)
  /\ pos' = pos + 1
  /\ col' = IF At(pos, {"newline"}) THEN 2 ELSE col + 1
  /\ UNCHANGED <<source, line, start, isFloat, valid, tokens>>

(* After a newline col is 1 and then counts the newline itself.            *)
StringTurn ==
  /\ Goto("string", "string")
  /\ pos < Size /\ ~At(pos, {"doublequote"})
  /\ ~(At(pos, {"backslash"}) /\ pos + 1 < Size)
  /\ pos' = pos + 1
  /\ IF At(pos, {"newline"})
       THEN line' = line + 1 /\ col' = 2
       ELSE line' = line /\ col' = col + 1
  /\ UNCHANGED <<source, start, isFloat, valid, tokens>>

(* The closing quote, or the end of the file.                              *)
StringClose ==
  /\ Goto("string", "code")
  /\ pos >= Size \/ At(pos, {"doublequote"})
  /\ Push("STRING", start, pos, col)
  /\ Consume(1)
  /\ UNCHANGED <<source, line, start, isFloat, valid>>

-----------------------------------------------------------------------------
(* Words: whatever none of the above takes.                                *)

WordOpen ==
  /\ Goto("code", "word")
  /\ pos < Size
  /\ ~At(pos, Digits \cup Spaces \cup Symbols
               \cup {"newline", "quote", "doublequote"})
  /\ start' = pos
  /\ UNCHANGED <<source, pos, line, col, isFloat, valid, tokens>>

WordTurn ==
  /\ Goto("word", "word")
  /\ pos < Size /\ ~At(pos, BreakChars)
  /\ Consume(1)
  /\ UNCHANGED <<source, line, start, isFloat, valid, tokens>>

WordClose ==
  /\ Goto("word", "code")
  /\ pos >= Size \/ At(pos, BreakChars)
  /\ Push(IF Text(start, pos) \in Keywords THEN "KEYWORD" ELSE "IDENTIFIER",
          start, pos, col)
  /\ UNCHANGED <<source, pos, line, col, start, isFloat, valid>>

EndOfFile ==
  /\ Goto("code", "done")
  /\ pos >= Size
  /\ UNCHANGED <<source, pos, line, col, start, isFloat, valid, tokens>>

Done == mode = "done" /\ UNCHANGED vars

-----------------------------------------------------------------------------
Step ==
  \/ NoSource \/ OpenSource \/ Newline \/ Space
  \/ BlockOpen \/ BlockTurn \/ BlockClose \/ LineOpen \/ LineTurn \/ LineClose
  \/ NumberOpen \/ NumberTurn \/ NumberClose
  \/ Symbol \/ PlainChar \/ EscapedChar \/ BadChar
  \/ StringOpen \/ StringEscape \/ StringTurn \/ StringClose
  \/ WordOpen \/ WordTurn \/ WordClose \/ EndOfFile

Next == Step \/ Done

Spec == Init /\ [][Next]_vars

-----------------------------------------------------------------------------
TokenKinds ==
  {"SYMBOL", "INTEGER", "FLOAT", "ERROR", "CHAR", "STRING", "KEYWORD", "IDENTIFIER"}

(* Every variable stays in its range. An unterminated comment or string    *)
(* leaves pos past the end, by at most two; every lexeme lies in the file. *)
TypeOK ==
  /\ source \in Seq(STRING)
  /\ mode \in {"open", "code", "block", "line", "number", "string", "word", "done"}
  /\ pos \in 0 .. Size + 2
  /\ line \in 1 .. Size + 1
  /\ col \in 1 .. Size + 3
  /\ start \in 0..Size
  /\ isFloat \in BOOLEAN /\ valid \in BOOLEAN
  /\ tokens \in Seq([kind : TokenKinds, from : 0..Size, to : 0..Size,
                       line : 1 .. Size + 1, col : 1 .. Size + 3])
  /\ \A n \in DOMAIN tokens : tokens[n].from <= tokens[n].to

(* The characters a token was made of, its quotes included.                *)
Extent(t) ==
  CASE t.kind = "STRING" -> t.from - 1 .. t.to
    [] t.kind = "CHAR"   -> t.from - 1 .. t.to
    [] OTHER             -> t.from .. t.to - 1

(* A comment beginning at offset b takes the characters up to e.           *)
CommentAt(b, e) ==
  /\ At(b, {"/"}) /\ e < Size
  /\ \/ /\ At(b + 1, {"/"})
        /\ \A k \in b + 2 .. e : ~At(k, {"newline"})
     \/ /\ At(b + 1, {"*"})
        /\ \A k \in b + 2 .. e - 2 : ~(At(k, {"*"}) /\ At(k + 1, {"/"}))

(* No character belongs to two tokens, and none is dropped but blanks and  *)
(* comments: outside every token, what is not blank is in a comment that   *)
(* begins and ends outside every token.                                    *)
NothingDropped ==
  /\ \A m, n \in DOMAIN tokens : m # n => Extent(tokens[m]) \cap Extent(tokens[n]) = {}
  /\ mode = "done" /\ pos > 0 =>
       LET taken == UNION {Extent(tokens[n]) : n \in DOMAIN tokens}
           free  == (0 .. Size - 1) \ taken
       IN \A k \in free :
            \/ At(k, Spaces \cup {"newline"})
            \/ \E b \in 0..k : \E e \in k .. Size - 1 :
                 b..e \subseteq free /\ CommentAt(b, e)

(* The character at k is the last of an odd number of backslashes that     *)
(* follow one another from b on.                                           *)
Backslashed(b, k) ==
  \E m \in 0 .. k - b :
    /\ m % 2 = 1
    /\ \A j \in k - m .. k - 1 : At(j, {"backslash"})
    /\ k - m = b \/ ~At(k - m - 1, {"backslash"})

EndsAtQuote(t) ==
  t.kind = "STRING" =>
    /\ t.to < Size => At(t.to, {"doublequote"}) /\ ~Backslashed(t.from, t.to)
    /\ \A k \in t.from .. t.to - 1 : At(k, {"doublequote"}) => Backslashed(t.from, k)

(* A string ends at the first quote no backslash escapes, or, when there   *)
(* is none, with the file.                                                 *)
StringsEndAtQuote == \A n \in DOMAIN tokens : EndsAtQuote(tokens[n])

NewlinesBefore(k) == Cardinality({j \in 0 .. k - 1 : At(j, {"newline"})})

(* Every newline follows a symbol, a blank, a string's quote or another    *)
(* newline, never a word, an opening quote or a backslash.                 *)
Separated ==
  \A k \in 1 .. Size - 1 : At(k, {"newline"}) =>
    At(k - 1, (BreakChars \ {"quote"}) \cup {"newline"})

LineCounted(t) ==
  /\ t.line <= 1 + NewlinesBefore(t.to)
  /\ Separated => t.line = 1 + NewlinesBefore(t.to)

(* In such a file a token's line is the line its lexeme ends on; in others *)
(* it lags behind, since a newline inside a word, a character literal or   *)
(* an escape is not counted.                                               *)
LinesCounted == \A n \in DOMAIN tokens : LineCounted(tokens[n])

ColumnExact(t) ==
  t.col = CASE t.kind = "SYMBOL" -> t.from + 1
            [] t.kind = "CHAR"   -> t.from
            [] t.kind = "ERROR" /\ At(t.from, {"quote"}) -> t.from + 1
            [] OTHER             -> t.to + 1

(* On the first line the column is exact, counted from 1: that of the      *)
(* first character for symbols and character literals, of the one after    *)
(* the last for numbers and words, of the closing quote for strings.       *)
FirstLineColumns ==
  \A n \in DOMAIN tokens :
    NewlinesBefore(tokens[n].to) = 0 => ColumnExact(tokens[n])

(* Reported positions never go backwards, whatever newlines are missed.    *)
PositionsSorted ==
  \A m, n \in DOMAIN tokens : m < n =>
    \/ tokens[m].line < tokens[n].line
    \/ tokens[m].line = tokens[n].line /\ tokens[m].col <= tokens[n].col

Number(t) ==
  t.kind \in {"INTEGER", "FLOAT"} \/ (t.kind = "ERROR" /\ ~At(t.from, {"quote"}))

Maximal(t) ==
  /\ \A k \in t.from .. t.to - 1 : At(k, Digits) \/ (Point(k) /\ k + 1 < t.to)
  /\ ~At(t.to, Digits) /\ ~Point(t.to)

(* A dot of a number is followed by a digit of it, so that a range such as *)
(* 0..0 is never read as a malformed number, and the number goes on as far *)
(* as it can.                                                              *)
NumbersMaximal == \A n \in DOMAIN tokens : Number(tokens[n]) => Maximal(tokens[n])

(* Each step uses up a budget fixed by the size of the file: no content    *)
(* keeps the lexer busy for ever.                                          *)
Budget ==
  3 * (Size + 2 - pos) +
    CASE mode \in {"open", "line"} -> 3
      [] mode = "word" -> IF pos > start THEN 3 ELSE 1
      [] mode = "code" -> 2
      [] mode \in {"number", "block", "string"} -> 1
      [] mode = "done" -> 0

WorkBounded == [][Budget' < Budget /\ Budget' >= 0]_vars

=============================================================================
