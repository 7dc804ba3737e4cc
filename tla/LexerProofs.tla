----------------------------- MODULE LexerProofs -----------------------------
(***************************************************************************)
(* What Lexer's runs show of short texts over small alphabets, for every   *)
(* text: TypeOK, the properties of the tokens and their positions, and     *)
(* WorkBounded.                                                            *)
(***************************************************************************)
EXTENDS Lexer, FiniteSetTheorems, SequenceTheorems, TLAPS

TokenSet ==
  [kind : TokenKinds, from : 0..Size, to : 0..Size, line : 1 .. Size + 1, col : 1 .. Size + 3]

Modes == {"open", "code", "block", "line", "number", "string", "word", "done"}

(* Where pos can be in each loop, and how far line and col can be.         *)
InPlace ==
  /\ source \in Seq(STRING) /\ Size \in Nat
  /\ mode \in Modes
  /\ pos \in 0 .. Size + 2
  /\ start \in 0..Size
  /\ mode = "open" => pos = 0
  /\ mode \in {"block", "line"} => pos <= Size
  /\ mode = "number" => start <= pos /\ pos < Size
  /\ mode \in {"string", "word"} => start <= pos /\ pos <= Size
  /\ line \in 1 .. Size + 1 /\ line <= pos + 1
  /\ col \in 1 .. pos + 1
  /\ isFloat \in BOOLEAN /\ valid \in BOOLEAN

(* Where a word began there is a character that does not end it.           *)
WordBegun ==
  mode = "word" /\ pos = start =>
    pos < Size /\ ~At(pos, BreakChars \cup {"newline"})

-----------------------------------------------------------------------------
(* Each loop keeps pos where it may be.                                    *)
LEMMA PlaceStep ==
  ASSUME InPlace, Next
  PROVE  InPlace'
<1> USE DEF InPlace, Modes, Goto, Consume, Size
<1>1. CASE NoSource
  BY <1>1 DEF NoSource, At
<1>2. CASE OpenSource
  BY <1>2 DEF OpenSource, At
<1>3. CASE Newline
  BY <1>3 DEF Newline, At
<1>4. CASE Space
  BY <1>4 DEF Space, At
<1>5. CASE BlockOpen
  BY <1>5 DEF BlockOpen, At
<1>6. CASE BlockTurn
  BY <1>6 DEF BlockTurn, BlockEnds, At
<1>7. CASE BlockClose
  BY <1>7 DEF BlockClose, BlockEnds
<1>8. CASE LineOpen
  BY <1>8 DEF LineOpen, At
<1>9. CASE LineTurn
  BY <1>9 DEF LineTurn, At
<1>10. CASE LineClose
  BY <1>10 DEF LineClose
<1>11. CASE NumberOpen
  <2>1. pos < Size
    BY <1>11 DEF NumberOpen, Point, At
  <2>2. /\ mode' = "number" /\ start' = pos /\ isFloat' \in BOOLEAN /\ valid' \in BOOLEAN
        /\ UNCHANGED <<source, pos, line, col>>
    BY <1>11 DEF NumberOpen
  <2> QED
    BY <2>1, <2>2
<1>12. CASE NumberTurn
  BY <1>12 DEF NumberTurn, Point, At
<1>13. CASE NumberClose
  BY <1>13 DEF NumberClose
<1>14. CASE Symbol
  <2>1. PICK n \in 1..3 : pos + n <= Size /\ pos' = pos + n /\ col' = col + n
    BY <1>14 DEF Symbol, SymbolHere
  <2>2. mode = "code" /\ mode' = "code" /\ UNCHANGED <<source, start, line, isFloat, valid>>
    BY <1>14 DEF Symbol
  <2> QED
    BY <2>1, <2>2
<1>15. CASE PlainChar
  BY <1>15 DEF PlainChar, Plain, At
<1>16. CASE EscapedChar
  <2>1. pos + 3 < Size
    BY <1>16 DEF EscapedChar, Escaped, At
  <2>2. /\ mode = "code" /\ mode' = "code" /\ pos' = pos + 4 /\ col' = col + 4
        /\ UNCHANGED <<source, start, line, isFloat, valid>>
    BY <1>16 DEF EscapedChar
  <2> QED
    BY <2>1, <2>2
<1>17. CASE BadChar
  BY <1>17 DEF BadChar, At
<1>18. CASE StringOpen
  BY <1>18 DEF StringOpen, At
<1>19. CASE StringEscape
  BY <1>19 DEF StringEscape, At
<1>20. CASE StringTurn
  BY <1>20 DEF StringTurn, At
<1>21. CASE StringClose
  BY <1>21 DEF StringClose
<1>22. CASE WordOpen
  BY <1>22 DEF WordOpen, At
<1>23. CASE WordTurn
  BY <1>23 DEF WordTurn, At
<1>24. CASE WordClose
  BY <1>24 DEF WordClose
<1>25. CASE EndOfFile
  BY <1>25 DEF EndOfFile, At
<1>26. CASE Done
  BY <1>26 DEF Done, vars, At
<1> QED
  BY <1>1, <1>2, <1>3, <1>4, <1>5, <1>6, <1>7, <1>8, <1>9, <1>10, <1>11, <1>12, <1>13, <1>14, <1>15, <1>16, <1>17, <1>18, <1>19, <1>20, <1>21, <1>22, <1>23, <1>24, <1>25, <1>26
  DEF Next, Step

(* A word is begun where it may be.                                        *)
LEMMA WordStep ==
  ASSUME InPlace, WordBegun, Next
  PROVE  WordBegun'
<1> USE DEF InPlace, WordBegun, Goto, Consume, At, Size
<1>1. CASE mode' = "word"
  <2>1. WordOpen \/ WordTurn \/ (Done /\ mode = "done")
    BY <1>1 DEF Next, Step, NoSource, OpenSource, Newline, Space, BlockOpen, BlockTurn, BlockClose,
       LineOpen, LineTurn, LineClose, NumberOpen, NumberTurn, NumberClose, Symbol, PlainChar,
       EscapedChar, BadChar, StringOpen, StringEscape, StringTurn, StringClose, WordOpen,
       WordClose, EndOfFile, Done
  <2>2. CASE WordOpen
    BY <2>2 DEF WordOpen, BreakChars, Spaces
  <2>3. CASE WordTurn
    BY <2>3 DEF WordTurn
  <2> QED
    BY <1>1, <2>1, <2>2, <2>3 DEF Done, vars
<1> QED
  BY <1>1

-----------------------------------------------------------------------------
(* The budget.                                                             *)

(* What each loop leaves of it, before and after a step.                   *)
LEMMA BudgetOf ==
  ASSUME InPlace, InPlace'
  PROVE  /\ mode \in {"open", "line"} => Budget = 3 * (Size + 2 - pos) + 3
         /\ mode = "code" => Budget = 3 * (Size + 2 - pos) + 2
         /\ mode \in {"number", "block", "string"} => Budget = 3 * (Size + 2 - pos) + 1
         /\ mode = "word" => Budget = 3 * (Size + 2 - pos) + (IF pos > start THEN 3 ELSE 1)
         /\ mode' = "line" => Budget' = 3 * (Size' + 2 - pos') + 3
         /\ mode' = "code" => Budget' = 3 * (Size' + 2 - pos') + 2
         /\ mode' \in {"number", "block", "string"} => Budget' = 3 * (Size' + 2 - pos') + 1
         /\ mode' = "word" =>
              Budget' = 3 * (Size' + 2 - pos') + (IF pos' > start' THEN 3 ELSE 1)
         /\ mode' = "done" => Budget' = 3 * (Size' + 2 - pos') + 0
BY DEF Budget, InPlace

(* From p to q of s characters: what is consumed makes up for what is owed.*)
LEMMA Sum ==
  ASSUME NEW s \in Int, NEW p \in Int, NEW q \in Int, p <= q, q <= s + 2,
         NEW a \in 0..3, NEW b \in 0..3, q = p => b < a, a = 0 => b < 3
  PROVE  3 * (s + 2 - q) + b < 3 * (s + 2 - p) + a /\ 3 * (s + 2 - q) + b >= 0
<1>1. b < 3 * (q - p) + a
  BY q = p \/ q >= p + 1
<1> QED
  BY <1>1

(* The step is paid for then.                                              *)
LEMMA Pays ==
  ASSUME InPlace, InPlace', Size' = Size, NEW a \in 0..3, NEW b \in 0..3,
         Budget = 3 * (Size + 2 - pos) + a, Budget' = 3 * (Size' + 2 - pos') + b,
         pos' >= pos, pos' = pos => b < a, a = 0 => b < 3
  PROVE  Budget' < Budget /\ Budget' >= 0
<1>1. Size \in Int /\ pos \in Int /\ pos' \in Int /\ pos <= pos' /\ pos' <= Size + 2
  BY DEF InPlace
<1>2. /\ 3 * (Size + 2 - pos') + b < 3 * (Size + 2 - pos) + a
      /\ 3 * (Size + 2 - pos') + b >= 0
  BY <1>1, Sum
<1> QED
  BY <1>2, Zenon

(* Within the code something is consumed.                                  *)
LEMMA CodePays ==
  ASSUME InPlace, InPlace', Size' = Size, mode = "code", mode' = "code", pos' > pos
  PROVE  Budget' < Budget /\ Budget' >= 0
<1>1. pos' >= pos /\ pos' # pos
  BY DEF InPlace
<1> QED
  BY <1>1, BudgetOf, Pays

(* Whatever is consumed pays for the loop that is entered after it.        *)
LEMMA BudgetStep ==
  ASSUME InPlace, WordBegun, Step
  PROVE  Budget' < Budget /\ Budget' >= 0
<1>1. InPlace'
  BY PlaceStep DEF Next
<1>2. Size' = Size
  <2>1. source' = source
    BY DEF Step, NoSource, OpenSource, Newline, Space, BlockOpen, BlockTurn, BlockClose,
       LineOpen, LineTurn, LineClose, NumberOpen, NumberTurn, NumberClose, Symbol, PlainChar,
       EscapedChar, BadChar, StringOpen, StringEscape, StringTurn, StringClose, WordOpen,
       WordTurn, WordClose, EndOfFile
  <2> QED
    BY <2>1 DEF Size
<1>3. pos \in Nat /\ start \in Nat
  BY DEF InPlace
<1>4. CASE Symbol
  <2>1. mode = "code" /\ mode' = "code" /\ \E n \in 1..3 : pos' = pos + n
    BY <1>4 DEF Symbol, Consume, Goto
  <2> QED
    BY <1>1, <1>2, <1>3, <2>1, CodePays
<1>5. CASE Newline \/ Space \/ PlainChar \/ EscapedChar \/ BadChar
  <2>1. mode = "code" /\ mode' = "code" /\ pos' \in {pos + 1, pos + 3, pos + 4}
    BY <1>5 DEF Newline, Space, PlainChar, EscapedChar, BadChar, Consume, Goto
  <2> QED
    BY <1>1, <1>2, <1>3, <2>1, CodePays
<1>6. CASE NoSource \/ OpenSource
  <2>1. mode = "open" /\ mode' \in {"code", "done"} /\ pos' = pos
    BY <1>6 DEF NoSource, OpenSource, Goto
  <2> QED
    BY <1>1, <1>2, <1>3, <2>1, BudgetOf, Pays
<1>7. CASE BlockOpen \/ LineOpen \/ StringOpen
  <2>1. mode = "code" /\ mode' \in {"block", "line", "string"} /\ pos' \in {pos + 1, pos + 2}
    BY <1>7 DEF BlockOpen, LineOpen, StringOpen, Consume, Goto
  <2>2. pos' >= pos /\ pos' # pos
    BY <1>3, <2>1
  <2> QED
    BY <1>1, <1>2, <2>1, <2>2, BudgetOf, Pays
<1>8. CASE NumberOpen \/ WordOpen \/ EndOfFile
  <2>1. /\ mode = "code" /\ mode' \in {"number", "word", "done"} /\ pos' = pos
        /\ mode' = "word" => start' = pos'
    BY <1>8 DEF NumberOpen, WordOpen, EndOfFile, Goto
  <2> QED
    BY <1>1, <1>2, <1>3, <2>1, BudgetOf, Pays
<1>9. CASE BlockTurn \/ NumberTurn \/ StringEscape \/ StringTurn
  <2>1. /\ mode \in {"block", "number", "string"} /\ mode' \in {"block", "number", "string"}
        /\ pos' \in {pos + 1, pos + 2}
    BY <1>9 DEF BlockTurn, NumberTurn, StringEscape, StringTurn, Consume, Goto
  <2>2. pos' >= pos /\ pos' # pos
    BY <1>3, <2>1
  <2> QED
    BY <1>1, <1>2, <2>1, <2>2, BudgetOf, Pays
<1>10. CASE BlockClose \/ NumberClose \/ StringClose
  <2>1. /\ mode \in {"block", "number", "string"} /\ mode' = "code"
        /\ pos' \in {pos + 1, pos + 2}
    BY <1>10 DEF BlockClose, NumberClose, StringClose, Consume, Goto
  <2>2. pos' >= pos /\ pos' # pos
    BY <1>3, <2>1
  <2> QED
    BY <1>1, <1>2, <2>1, <2>2, BudgetOf, Pays
<1>11. CASE LineTurn
  <2>1. mode = "line" /\ mode' = "line" /\ pos' = pos + 1
    BY <1>11 DEF LineTurn, Consume, Goto
  <2> QED
    BY <1>1, <1>2, <1>3, <2>1, BudgetOf, Pays
<1>12. CASE LineClose
  <2>1. mode = "line" /\ mode' = "code" /\ pos' = pos
    BY <1>12 DEF LineClose, Goto
  <2> QED
    BY <1>1, <1>2, <1>3, <2>1, BudgetOf, Pays
<1>13. CASE WordTurn
  <2>1. mode = "word" /\ mode' = "word" /\ pos' = pos + 1 /\ start' = start
    BY <1>13 DEF WordTurn, Consume, Goto
  <2>2. pos' >= pos /\ pos' # pos /\ pos' > start'
    BY <1>3, <2>1 DEF InPlace
  <2>3. Budget' = 3 * (Size' + 2 - pos') + 3
    BY <1>1, <2>1, <2>2, BudgetOf
  <2>4. PICK a \in {1, 3} : Budget = 3 * (Size + 2 - pos) + a
    BY <1>1, <2>1, BudgetOf
  <2> QED
    BY <1>1, <1>2, <2>2, <2>3, <2>4, Pays
<1>14. CASE WordClose
  <2>1. mode = "word" /\ mode' = "code" /\ pos' = pos
    BY <1>14 DEF WordClose, Goto
  <2>2. pos > start
    <3>1. pos >= Size \/ At(pos, BreakChars)
      BY <1>14 DEF WordClose
    <3>2. pos # start
      BY <2>1, <3>1 DEF WordBegun, At, InPlace
    <3> QED
      BY <2>1, <3>2 DEF InPlace
  <2>3. Budget = 3 * (Size + 2 - pos) + 3
    BY <1>1, <2>1, <2>2, BudgetOf
  <2> QED
    BY <1>1, <1>2, <1>3, <2>1, <2>3, BudgetOf, Pays
<1> QED
  BY <1>4, <1>5, <1>6, <1>7, <1>8, <1>9, <1>10, <1>11, <1>12, <1>13, <1>14 DEF Step

-----------------------------------------------------------------------------
(* The loops: how each is entered and gone on with.                        *)
LEMMA Loops ==
  ASSUME Next
  PROVE  /\ mode' = "number" => NumberOpen \/ NumberTurn
         /\ mode' = "string" => StringOpen \/ StringEscape \/ StringTurn
         /\ mode' = "word" => WordOpen \/ WordTurn
         /\ mode' = "block" => BlockOpen \/ BlockTurn
         /\ mode' = "line" => LineOpen \/ LineTurn
<1> USE DEF Goto
<1>1. CASE NoSource \/ OpenSource \/ Newline \/ Space \/ EndOfFile \/ Done
  BY <1>1 DEF NoSource, OpenSource, Newline, Space, EndOfFile, Done, vars
<1>2. CASE BlockClose \/ LineClose \/ NumberClose \/ StringClose \/ WordClose
  BY <1>2 DEF BlockClose, LineClose, NumberClose, StringClose, WordClose
<1>3. CASE Symbol \/ PlainChar \/ EscapedChar \/ BadChar
  BY <1>3 DEF Symbol, PlainChar, EscapedChar, BadChar
<1>4. CASE BlockOpen \/ BlockTurn
  BY <1>4 DEF BlockOpen, BlockTurn
<1>5. CASE LineOpen \/ LineTurn
  BY <1>5 DEF LineOpen, LineTurn
<1>6. CASE NumberOpen \/ NumberTurn
  BY <1>6 DEF NumberOpen, NumberTurn
<1>7. CASE StringOpen \/ StringEscape \/ StringTurn
  BY <1>7 DEF StringOpen, StringEscape, StringTurn
<1>8. CASE WordOpen \/ WordTurn
  BY <1>8 DEF WordOpen, WordTurn
<1> QED
  BY <1>1, <1>2, <1>3, <1>4, <1>5, <1>6, <1>7, <1>8 DEF Next, Step

(* The file stays as it is.                                                *)
LEMMA SourceKept ==
  ASSUME Next
  PROVE  source' = source
BY DEF Next, Step, NoSource, OpenSource, Newline, Space, BlockOpen, BlockTurn, BlockClose,
   LineOpen, LineTurn, LineClose, NumberOpen, NumberTurn, NumberClose, Symbol, PlainChar,
   EscapedChar, BadChar, StringOpen, StringEscape, StringTurn, StringClose, WordOpen,
   WordTurn, WordClose, EndOfFile, Done, vars

-----------------------------------------------------------------------------
(* Numbers.                                                                *)

(* What has been taken of a number is digits and points before digits.     *)
NumberSoFar ==
  mode = "number" => \A k \in start..pos : At(k, Digits) \/ Point(k)

(* NumberSoFar is kept.                                                    *)
LEMMA NumberStep ==
  ASSUME InPlace, NumberSoFar, Next
  PROVE  NumberSoFar'
<1> USE DEF InPlace, Goto, Consume
<1>1. source' = source
  BY SourceKept
<1>2. \A k : (At(k, Digits)' <=> At(k, Digits)) /\ (Point(k)' <=> Point(k))
  BY <1>1 DEF At, Point, Size
<1>3. SUFFICES ASSUME mode' = "number"
               PROVE  \A k \in start'..pos' : At(k, Digits) \/ Point(k)
  BY <1>2 DEF NumberSoFar
<1>4. CASE NumberOpen
  BY <1>4 DEF NumberOpen
<1>5. CASE NumberTurn
  <2>1. \A k \in start..pos : At(k, Digits) \/ Point(k)
    BY <1>5 DEF NumberTurn, NumberSoFar
  <2>2. At(pos + 1, Digits) \/ Point(pos + 1)
    BY <1>5 DEF NumberTurn
  <2>3. start' = start /\ pos' = pos + 1
    BY <1>5 DEF NumberTurn
  <2> QED
    BY <2>1, <2>2, <2>3
<1> QED
  BY <1>3, <1>4, <1>5, Loops

(* A number is pushed when it cannot go on.                                *)
LEMMA NumberPushed ==
  ASSUME InPlace, NumberSoFar, NumberClose, NEW kind, NEW c
  PROVE  Maximal(Token(kind, start, pos + 1, c))
<1>1. \A k \in start..pos : At(k, Digits) \/ Point(k)
  BY DEF NumberClose, Goto, NumberSoFar
<1>2. ~At(pos + 1, Digits) /\ ~Point(pos + 1)
  BY DEF NumberClose
<1>3. ~Point(pos)
  BY <1>2 DEF Point
<1>4. pos \in Nat /\ start \in Nat
  BY DEF InPlace
<1> QED
  BY <1>1, <1>2, <1>3, <1>4 DEF Maximal, Token

-----------------------------------------------------------------------------
(* Strings.                                                                *)

(* An even number of backslashes, or none, comes before k.                 *)
Unescaped(b, k) ==
  \E m \in 0 .. k - b :
    /\ m % 2 = 0
    /\ \A j \in k - m .. k - 1 : At(j, {"backslash"})
    /\ k - m = b \/ ~At(k - m - 1, {"backslash"})

(* No character is both escaped and not.                                   *)
LEMMA EvenNotOdd ==
  ASSUME NEW b \in Nat, NEW k \in Nat, Unescaped(b, k)
  PROVE  ~Backslashed(b, k)
<1>1. PICK m \in 0 .. k - b :
        /\ m % 2 = 0
        /\ \A j \in k - m .. k - 1 : At(j, {"backslash"})
        /\ k - m = b \/ ~At(k - m - 1, {"backslash"})
  BY DEF Unescaped
<1>2. SUFFICES ASSUME NEW n \in 0 .. k - b, n % 2 = 1,
                      \A j \in k - n .. k - 1 : At(j, {"backslash"}),
                      k - n = b \/ ~At(k - n - 1, {"backslash"})
               PROVE  FALSE
  BY DEF Backslashed
<1>3. m # n
  BY <1>1, <1>2
<1>4. CASE m < n
  <2>1. k - m - 1 \in k - n .. k - 1 /\ k - m # b
    BY <1>4
  <2> QED
    BY <1>1, <1>2, <2>1
<1>5. CASE n < m
  <2>1. k - n - 1 \in k - m .. k - 1 /\ k - n # b
    BY <1>5
  <2> QED
    BY <1>1, <1>2, <2>1
<1> QED
  BY <1>3, <1>4, <1>5

(* What follows a backslash that is not escaped itself is escaped.         *)
LEMMA OneMoreBackslash ==
  ASSUME NEW b \in Nat, NEW k \in Nat, b <= k, Unescaped(b, k), At(k, {"backslash"})
  PROVE  Backslashed(b, k + 1)
<1>1. PICK m \in 0 .. k - b :
        /\ m % 2 = 0
        /\ \A j \in k - m .. k - 1 : At(j, {"backslash"})
        /\ k - m = b \/ ~At(k - m - 1, {"backslash"})
  BY DEF Unescaped
<1>2. m + 1 \in 0 .. k + 1 - b /\ (m + 1) % 2 = 1
  BY <1>1
<1>3. \A j \in k + 1 - (m + 1) .. k + 1 - 1 : At(j, {"backslash"})
  BY <1>1
<1>4. k + 1 - (m + 1) = b \/ ~At(k + 1 - (m + 1) - 1, {"backslash"})
  BY <1>1
<1> QED
  BY <1>2, <1>3, <1>4 DEF Backslashed

(* What follows an escaped character is not escaped.                       *)
LEMMA TwoMore ==
  ASSUME NEW b \in Nat, NEW k \in Nat, b <= k, Unescaped(b, k), At(k, {"backslash"})
  PROVE  Unescaped(b, k + 2)
<1>1. PICK m \in 0 .. k - b :
        /\ m % 2 = 0
        /\ \A j \in k - m .. k - 1 : At(j, {"backslash"})
        /\ k - m = b \/ ~At(k - m - 1, {"backslash"})
  BY DEF Unescaped
<1>2. CASE At(k + 1, {"backslash"})
  <2>1. m + 2 \in 0 .. k + 2 - b /\ (m + 2) % 2 = 0
    BY <1>1
  <2>2. \A j \in k + 2 - (m + 2) .. k + 2 - 1 : At(j, {"backslash"})
    BY <1>1, <1>2
  <2>3. k + 2 - (m + 2) = b \/ ~At(k + 2 - (m + 2) - 1, {"backslash"})
    BY <1>1
  <2> QED
    BY <2>1, <2>2, <2>3 DEF Unescaped
<1>3. CASE ~At(k + 1, {"backslash"})
  <2>1. 0 \in 0 .. k + 2 - b /\ 0 % 2 = 0 /\ ~At(k + 2 - 0 - 1, {"backslash"})
    BY <1>3
  <2> QED
    BY <2>1 DEF Unescaped
<1> QED
  BY <1>2, <1>3

(* Nothing is escaped by another character than a backslash.               *)
LEMMA NoBackslash ==
  ASSUME NEW b \in Nat, NEW k \in Nat, b <= k, k = b \/ ~At(k - 1, {"backslash"})
  PROVE  Unescaped(b, k)
<1>1. 0 \in 0 .. k - b /\ 0 % 2 = 0 /\ (k - 0 = b \/ ~At(k - 0 - 1, {"backslash"}))
  OBVIOUS
<1> QED
  BY <1>1 DEF Unescaped

(* Every quote in what has been read of a string is escaped, and the next  *)
(* character is not.                                                       *)
StringSoFar ==
  mode = "string" =>
    /\ start > 0
    /\ pos < Size => Unescaped(start, pos)
    /\ \A k \in start .. pos - 1 : At(k, {"doublequote"}) => Backslashed(start, k)

(* StringSoFar is kept.                                                    *)
LEMMA StringStep ==
  ASSUME InPlace, StringSoFar, Next
  PROVE  StringSoFar'
<1> USE DEF InPlace, Goto, Consume
<1>1. source' = source
  BY SourceKept
<1>2. /\ \A k, C : At(k, C)' <=> At(k, C)
      /\ Size' = Size
  BY <1>1 DEF At, Size
<1>3. \A b, k : (Unescaped(b, k)' <=> Unescaped(b, k)) /\ (Backslashed(b, k)' <=> Backslashed(b, k))
  BY <1>2 DEF Unescaped, Backslashed
<1>4. SUFFICES ASSUME mode' = "string"
               PROVE  /\ start' > 0
                      /\ pos' < Size => Unescaped(start', pos')
                      /\ \A k \in start' .. pos' - 1 :
                           At(k, {"doublequote"}) => Backslashed(start', k)
  BY <1>2, <1>3 DEF StringSoFar
<1>5. CASE StringOpen
  <2>1. start' = pos + 1 /\ pos' = pos + 1 /\ pos \in Nat
    BY <1>5 DEF StringOpen
  <2> QED
    BY <2>1, NoBackslash
<1>6. CASE StringEscape
  <2>1. /\ mode = "string" /\ start' = start /\ pos' = pos + 2
        /\ At(pos, {"backslash"}) /\ pos + 1 < Size
    BY <1>6 DEF StringEscape
  <2>2. /\ start \in Nat /\ pos \in Nat /\ start <= pos /\ start > 0 /\ Unescaped(start, pos)
        /\ \A k \in start .. pos - 1 : At(k, {"doublequote"}) => Backslashed(start, k)
    BY <2>1 DEF StringSoFar
  <2>3. Backslashed(start, pos + 1) /\ Unescaped(start, pos + 2)
    BY <2>1, <2>2, OneMoreBackslash, TwoMore
  <2>4. ~At(pos, {"doublequote"})
    BY <2>1 DEF At
  <2> QED
    BY <2>1, <2>2, <2>3, <2>4
<1>7. CASE StringTurn
  <2>1. /\ mode = "string" /\ start' = start /\ pos' = pos + 1
        /\ ~At(pos, {"doublequote"})
        /\ At(pos, {"backslash"}) => pos + 1 >= Size
    BY <1>7 DEF StringTurn
  <2>2. /\ start \in Nat /\ pos \in Nat /\ start <= pos /\ start > 0
        /\ \A k \in start .. pos - 1 : At(k, {"doublequote"}) => Backslashed(start, k)
    BY <2>1 DEF StringSoFar
  <2>3. ~At(pos, {"backslash"}) => Unescaped(start, pos + 1)
    BY <2>2, NoBackslash
  <2> QED
    BY <2>1, <2>2, <2>3
<1> QED
  BY <1>4, <1>5, <1>6, <1>7, Loops

(* A string is pushed at a quote that is not escaped, or at the end.       *)
LEMMA StringPushed ==
  ASSUME InPlace, StringSoFar, StringClose, NEW c
  PROVE  EndsAtQuote(Token("STRING", start, pos, c))
<1>1. /\ mode = "string" /\ start \in Nat /\ pos \in Nat /\ Size \in Nat
      /\ pos >= Size \/ At(pos, {"doublequote"})
  BY DEF StringClose, Goto, InPlace
<1>2. pos < Size => ~Backslashed(start, pos)
  BY <1>1, EvenNotOdd DEF StringSoFar
<1>3. \A k \in start .. pos - 1 : At(k, {"doublequote"}) => Backslashed(start, k)
  BY <1>1 DEF StringSoFar
<1> QED
  BY <1>1, <1>2, <1>3 DEF EndsAtQuote, Token

-----------------------------------------------------------------------------
(* Lines and columns.                                                      *)

(* Newlines are counted one character at a time.                           *)
LEMMA NewlineSets ==
  ASSUME NEW k \in Nat
  PROVE  /\ IsFiniteSet({j \in 0 .. k - 1 : At(j, {"newline"})})
         /\ NewlinesBefore(k) \in Nat
         /\ NewlinesBefore(k) = 0 <=> \A j \in 0 .. k - 1 : ~At(j, {"newline"})
<1> DEFINE S == {j \in 0 .. k - 1 : At(j, {"newline"})}
<1>1. IsFiniteSet(0 .. k - 1)
  BY FS_Interval
<1>2. IsFiniteSet(S)
  BY <1>1, FS_Subset
<1>3. Cardinality(S) \in Nat /\ (Cardinality(S) = 0 <=> S = {})
  BY <1>2, FS_CardinalityType, FS_EmptySet
<1> QED
  BY <1>2, <1>3 DEF NewlinesBefore

(* A newline adds one.                                                     *)
LEMMA OneMoreNewline ==
  ASSUME NEW k \in Nat, At(k, {"newline"})
  PROVE  NewlinesBefore(k + 1) = NewlinesBefore(k) + 1
<1> DEFINE S == {j \in 0 .. k - 1 : At(j, {"newline"})}
<1>1. {j \in 0 .. (k + 1) - 1 : At(j, {"newline"})} = S \cup {k}
  OBVIOUS
<1>2. k \notin S /\ IsFiniteSet(S)
  BY NewlineSets
<1>3. Cardinality(S \cup {k}) = Cardinality(S) + 1
  BY <1>2, FS_AddElement
<1> QED
  BY <1>1, <1>3 DEF NewlinesBefore

(* Characters that are no newlines add none.                               *)
LEMMA NoNewline ==
  ASSUME NEW k \in Nat, NEW n \in Nat, \A j \in k .. k + n - 1 : ~At(j, {"newline"})
  PROVE  NewlinesBefore(k + n) = NewlinesBefore(k)
<1>1. {j \in 0 .. (k + n) - 1 : At(j, {"newline"})} = {j \in 0 .. k - 1 : At(j, {"newline"})}
  OBVIOUS
<1> QED
  BY <1>1 DEF NewlinesBefore

(* More characters have no fewer newlines.                                 *)
LEMMA NewlinesGrow ==
  ASSUME NEW k \in Nat, NEW n \in Nat
  PROVE  NewlinesBefore(k) <= NewlinesBefore(k + n)
<1>1. {j \in 0 .. k - 1 : At(j, {"newline"})} \subseteq {j \in 0 .. (k + n) - 1 : At(j, {"newline"})}
  OBVIOUS
<1>2. IsFiniteSet({j \in 0 .. (k + n) - 1 : At(j, {"newline"})})
  <2>1. k + n \in Nat
    OBVIOUS
  <2> QED
    BY <2>1, NewlineSets
<1> QED
  BY <1>1, <1>2, FS_Subset DEF NewlinesBefore

(* col is exact before the first newline; line is at most what it should   *)
(* be, and is what it should be in a file where newlines are separated.    *)
ColumnAt(c, k) == NewlinesBefore(k) = 0 => c = k + 1
LineAt(l, k) ==
  /\ l <= 1 + NewlinesBefore(k)
  /\ Separated => l = 1 + NewlinesBefore(k)

PositionSoFar ==
  /\ ColumnAt(col, pos)
  /\ pos <= Size => LineAt(line, pos)

(* In a word no character ends it, nor, in such a file, a line.            *)
WordSoFar ==
  mode = "word" /\ pos > start =>
    /\ ~At(pos - 1, BreakChars)
    /\ Separated => ~At(pos - 1, {"newline"})

(* In a file where they are separated, a newline is not where it would not *)
(* be counted: after what is neither blank, symbol, double quote nor       *)
(* newline.                                                                *)
LEMMA NewlineSeparated ==
  ASSUME InPlace, Separated, NEW k \in Nat, k > 0, At(k, {"newline"})
  PROVE  At(k - 1, (BreakChars \ {"quote"}) \cup {"newline"})
BY DEF Separated, InPlace, At

(* n characters further, newlines among them only if the file is not       *)
(* separated.                                                              *)
LEMMA Advance ==
  ASSUME InPlace, NEW k \in Nat, NEW n \in Nat, NEW c \in Nat, NEW l \in Nat,
         Separated /\ k + n <= Size => \A j \in k .. k + n - 1 : ~At(j, {"newline"})
  PROVE  /\ ColumnAt(c, k) => ColumnAt(c + n, k + n)
         /\ k + n <= Size /\ LineAt(l, k) => LineAt(l, k + n)
<1>1. /\ NewlinesBefore(k) \in Nat /\ NewlinesBefore(k + n) \in Nat
      /\ NewlinesBefore(k) <= NewlinesBefore(k + n)
  <2>1. k + n \in Nat
    OBVIOUS
  <2> QED
    BY <2>1, NewlineSets, NewlinesGrow
<1>2. Separated /\ k + n <= Size => NewlinesBefore(k + n) = NewlinesBefore(k)
  BY NoNewline
<1> QED
  BY <1>1, <1>2 DEF ColumnAt, LineAt

(* A symbol of several characters is made of symbols.                      *)
LEMMA LongSymbolChars ==
  ASSUME NEW t \in LongSymbols, NEW i \in 1..Len(t)
  PROVE  t[i] \in Symbols
<1>1. CASE \E c \in {"+", "-", "*", "/", "%", "&", "|", "^", "<", ">", "=", "!"} : t = <<c, "=">>
  <2>1. PICK c \in {"+", "-", "*", "/", "%", "&", "|", "^", "<", ">", "=", "!"} : t = <<c, "=">>
    BY <1>1
  <2>2. t[1] = c /\ t[2] = "=" /\ i \in {1, 2}
    BY <2>1
  <2> QED
    BY <2>1, <2>2 DEF Symbols
<1>2. CASE \E c \in {"+", "-", "&", "|", "<", ">", ":", "."} : t = <<c, c>>
  <2>1. PICK c \in {"+", "-", "&", "|", "<", ">", ":", "."} : t = <<c, c>>
    BY <1>2
  <2>2. t[1] = c /\ t[2] = c /\ i \in {1, 2}
    BY <2>1
  <2> QED
    BY <2>1, <2>2 DEF Symbols
<1>3. CASE t = <<"-", ">">>
  <2>1. t[1] = "-" /\ t[2] = ">" /\ i \in {1, 2}
    BY <1>3
  <2> QED
    BY <2>1 DEF Symbols
<1>4. CASE \E c \in {"<", ">"} : t = <<c, c, "=">>
  <2>1. PICK c \in {"<", ">"} : t = <<c, c, "=">>
    BY <1>4
  <2>2. t[1] = c /\ t[2] = c /\ t[3] = "=" /\ i \in {1, 2, 3}
    BY <2>1
  <2> QED
    BY <2>1, <2>2 DEF Symbols
<1> QED
  BY <1>1, <1>2, <1>3, <1>4 DEF LongSymbols

(* The characters of a symbol are symbols.                                 *)
LEMMA SymbolText ==
  ASSUME InPlace, NEW n \in 1..3, SymbolHere(n), NEW j \in pos .. pos + n - 1
  PROVE  At(j, Symbols)
<1>1. source \in Seq(STRING) /\ pos \in Nat /\ pos + n <= Len(source)
  BY DEF InPlace, SymbolHere, Size
<1>2. CASE n = 1
  BY <1>1, <1>2 DEF SymbolHere
<1>3. CASE n # 1
  <2>1. Text(pos, pos + n) \in LongSymbols
    BY <1>3 DEF SymbolHere
  <2>2. /\ Len(Text(pos, pos + n)) = n
        /\ Text(pos, pos + n)[j - pos + 1] = source[j + 1]
        /\ j - pos + 1 \in 1..n
    BY <1>1, SubSeqProperties DEF Text
  <2>3. \A t \in LongSymbols : \A i \in 1..Len(t) : t[i] \in Symbols
    BY LongSymbolChars
  <2> QED
    BY <1>1, <2>1, <2>2, <2>3 DEF At, Size
<1> QED
  BY <1>2, <1>3

(* What is not counted in these actions is no newline of a separated file. *)
LEMMA Uncounted ==
  ASSUME InPlace, WordBegun, WordSoFar, NumberSoFar, Separated, NEW n \in Nat, pos + n <= Size,
         \/ n = 1 /\ (Space \/ LineTurn \/ NumberTurn \/ NumberClose \/ BadChar \/ StringOpen
                       \/ StringClose \/ WordTurn)
         \/ n = 2 /\ (BlockOpen \/ LineOpen \/ StringEscape \/ BlockClose)
         \/ n = 3 /\ PlainChar
         \/ n = 4 /\ EscapedChar
         \/ n \in 1..3 /\ SymbolHere(n)
  PROVE  \A j \in pos .. pos + n - 1 : ~At(j, {"newline"})
<1> SUFFICES ASSUME NEW j \in pos .. pos + n - 1, At(j, {"newline"})
             PROVE  FALSE
  OBVIOUS
<1>1. pos \in Nat /\ Size \in Nat /\ j \in Nat
  BY DEF InPlace
<1>2. \A C : At(j, C) => "newline" \in C
  BY DEF At
<1>3. \A C : j > 0 /\ At(j - 1, C) => C \cap ((BreakChars \ {"quote"}) \cup {"newline"}) # {}
  BY <1>1, NewlineSeparated DEF At
<1>4. "newline" \notin Symbols /\ "newline" \notin Spaces /\ "newline" \notin Digits
  BY DEF Symbols, Spaces, Digits
<1>5. {"quote"} \cap ((BreakChars \ {"quote"}) \cup {"newline"}) = {}
      /\ {"backslash"} \cap ((BreakChars \ {"quote"}) \cup {"newline"}) = {}
  BY DEF BreakChars, Symbols
<1>6. CASE n = 1
  <2>1. j = pos
    BY <1>1, <1>6
  <2>2. CASE Space \/ LineTurn \/ StringOpen \/ BadChar
    BY <1>2, <1>4, <2>1, <2>2 DEF Space, LineTurn, StringOpen, BadChar
  <2>3. CASE NumberTurn \/ NumberClose
    <3>1. At(pos, Digits) \/ At(pos, {"."})
      BY <1>1, <2>3 DEF NumberTurn, NumberClose, Goto, NumberSoFar, Point, InPlace
    <3> QED
      BY <1>2, <1>4, <2>1, <3>1
  <2>4. CASE StringClose
    BY <1>1, <1>2, <1>6, <2>1, <2>4 DEF StringClose
  <2>5. CASE WordTurn
    <3>1. mode = "word" /\ start \in Nat /\ start <= pos
      BY <2>5 DEF WordTurn, Goto, InPlace
    <3>2. CASE pos = start
      <4>1. ~At(pos, BreakChars \cup {"newline"})
        BY <3>1, <3>2 DEF WordBegun
      <4> QED
        BY <2>1, <4>1 DEF At
    <3>3. CASE pos > start
      <4>1. ~At(pos - 1, BreakChars) /\ ~At(pos - 1, {"newline"})
        BY <3>1, <3>3 DEF WordSoFar
      <4>2. At(pos - 1, (BreakChars \ {"quote"}) \cup {"newline"})
        BY <1>1, <2>1, <3>1, <3>3, NewlineSeparated
      <4> QED
        BY <4>1, <4>2 DEF At
    <3> QED
      BY <1>1, <3>1, <3>2, <3>3
  <2>6. CASE SymbolHere(n)
    BY <1>2, <1>4, <1>6, <2>6, SymbolText
  <2> QED
    BY <1>6, <2>2, <2>3, <2>4, <2>5, <2>6
<1>7. CASE n # 1
  <2>1. CASE SymbolHere(n) /\ n \in 1..3
    BY <1>2, <1>4, <2>1, SymbolText
  <2>2. CASE n = 2 /\ (BlockOpen \/ LineOpen)
    <3>1. At(pos, {"/"}) /\ At(pos + 1, {"/", "*"})
      BY <2>2 DEF BlockOpen, LineOpen, At
    <3> QED
      BY <1>1, <1>2, <2>2, <3>1
  <2>3. CASE n = 2 /\ BlockClose
    <3>1. At(pos, {"*"}) /\ At(pos + 1, {"/"})
      BY <1>1, <2>3 DEF BlockClose, BlockEnds
    <3> QED
      BY <1>1, <1>2, <2>3, <3>1
  <2>4. CASE n = 2 /\ StringEscape
    <3>1. At(pos, {"backslash"})
      BY <2>4 DEF StringEscape
    <3>2. j = pos \/ j - 1 = pos
      BY <1>1, <2>4
    <3> QED
      BY <1>1, <1>2, <1>3, <1>5, <3>1, <3>2
  <2>5. CASE n = 3 /\ PlainChar
    <3>1. At(pos, {"quote"}) /\ At(pos + 2, {"quote"})
      BY <2>5 DEF PlainChar, Plain
    <3>2. j = pos \/ j - 1 = pos \/ j = pos + 2
      BY <1>1, <2>5
    <3> QED
      BY <1>1, <1>2, <1>3, <1>5, <3>1, <3>2
  <2>6. CASE n = 4 /\ EscapedChar
    <3>1. At(pos, {"quote"}) /\ At(pos + 1, {"backslash"}) /\ At(pos + 3, {"quote"})
      BY <2>6 DEF EscapedChar, Escaped
    <3>2. j = pos \/ j = pos + 1 \/ j - 1 = pos + 1 \/ j = pos + 3
      BY <1>1, <2>6
    <3> QED
      BY <1>1, <1>2, <1>3, <1>5, <3>1, <3>2
  <2> QED
    BY <1>7, <2>1, <2>2, <2>3, <2>4, <2>5, <2>6
<1> QED
  BY <1>6, <1>7

(* A step leaves the position in line with what it has consumed.           *)
LEMMA PositionAfter ==
  ASSUME InPlace, WordBegun, WordSoFar, NumberSoFar, PositionSoFar, Next
  PROVE  ColumnAt(col', pos') /\ (pos' <= Size => LineAt(line', pos'))
<1> USE DEF Goto, Consume
<1>5. /\ pos \in Nat /\ Size \in Nat /\ col \in Nat /\ line \in Nat
      /\ ColumnAt(col, pos) /\ (pos <= Size => LineAt(line, pos))
  BY DEF InPlace, PositionSoFar
<1>6. CASE \/ NoSource \/ OpenSource \/ LineClose \/ NumberOpen \/ WordOpen \/ WordClose
           \/ EndOfFile \/ Done
  <2>1. pos' = pos /\ col' = col /\ line' = line
    BY <1>6 DEF NoSource, OpenSource, LineClose, NumberOpen, WordOpen, WordClose, EndOfFile,
       Done, vars
  <2> QED
    BY <1>5, <2>1
<1>7. ASSUME NEW n \in Nat, pos' = pos + n, col' = col + n, line' = line,
             Separated /\ pos + n <= Size => \A j \in pos .. pos + n - 1 : ~At(j, {"newline"})
      PROVE  ColumnAt(col', pos') /\ (pos' <= Size => LineAt(line', pos'))
  <2>1. pos + n <= Size => pos <= Size
    BY <1>5
  <2> QED
    BY <1>5, <1>7, <2>1, Advance
<1>8. ASSUME pos' = pos + 1, line' = line + 1, At(pos, {"newline"})
      PROVE  ColumnAt(col', pos') /\ (pos' <= Size => LineAt(line', pos'))
  <2>1. NewlinesBefore(pos + 1) = NewlinesBefore(pos) + 1 /\ NewlinesBefore(pos) \in Nat
    BY <1>5, <1>8, OneMoreNewline, NewlineSets
  <2>2. pos <= Size
    BY <1>5, <1>8 DEF At
  <2> QED
    BY <1>5, <1>8, <2>1, <2>2 DEF ColumnAt, LineAt
<1>9. CASE Newline
  BY <1>8, <1>9 DEF Newline
<1>10. CASE BlockTurn \/ StringTurn
  <2>1. pos' = pos + 1
    BY <1>10 DEF BlockTurn, StringTurn
  <2>2. CASE At(pos, {"newline"})
    BY <1>8, <1>10, <2>1, <2>2 DEF BlockTurn, StringTurn
  <2>3. CASE ~At(pos, {"newline"})
    <3>1. col' = col + 1 /\ line' = line
      BY <1>10, <2>3 DEF BlockTurn, StringTurn
    <3>2. \A j \in pos .. pos + 1 - 1 : ~At(j, {"newline"})
      BY <1>5, <2>3
    <3> QED
      BY <1>7, <2>1, <3>1, <3>2
  <2> QED
    BY <2>2, <2>3
<1>11. CASE \/ Space \/ LineTurn \/ NumberTurn \/ NumberClose \/ BadChar \/ StringOpen
            \/ StringClose \/ WordTurn
  <2>1. pos' = pos + 1 /\ col' = col + 1 /\ line' = line
    BY <1>11 DEF Space, LineTurn, NumberTurn, NumberClose, BadChar, StringOpen, StringClose, WordTurn
  <2> QED
    BY <1>7, <1>11, <2>1, Uncounted
<1>12. CASE BlockOpen \/ LineOpen \/ StringEscape \/ BlockClose
  <2>1. pos' = pos + 2 /\ col' = col + 2 /\ line' = line
    BY <1>12 DEF BlockOpen, LineOpen, StringEscape, BlockClose
  <2> QED
    BY <1>7, <1>12, <2>1, Uncounted
<1>13. CASE PlainChar
  <2>1. pos' = pos + 3 /\ col' = col + 3 /\ line' = line
    BY <1>13 DEF PlainChar
  <2> QED
    BY <1>7, <1>13, <2>1, Uncounted
<1>14. CASE EscapedChar
  <2>1. pos' = pos + 4 /\ col' = col + 4 /\ line' = line
    BY <1>14 DEF EscapedChar
  <2> QED
    BY <1>7, <1>14, <2>1, Uncounted
<1>15. CASE Symbol
  <2>1. PICK n \in 1..3 : SymbolHere(n) /\ pos' = pos + n /\ col' = col + n
    BY <1>15 DEF Symbol
  <2>2. line' = line /\ n \in Nat
    BY <1>15 DEF Symbol
  <2> QED
    BY <1>7, <2>1, <2>2, Uncounted
<1> QED
  BY <1>6, <1>9, <1>10, <1>11, <1>12, <1>13, <1>14, <1>15 DEF Next, Step

(* The positions are kept.                                                 *)
LEMMA PositionStep ==
  ASSUME InPlace, WordBegun, WordSoFar, NumberSoFar, PositionSoFar, Next
  PROVE  PositionSoFar'
<1>1. source' = source
  BY SourceKept
<1>2. \A k : NewlinesBefore(k)' = NewlinesBefore(k)
  BY <1>1 DEF NewlinesBefore, At, Size
<1>3. (Separated' <=> Separated) /\ Size' = Size
  BY <1>1 DEF Separated, At, Size
<1> QED
  BY <1>2, <1>3, PositionAfter DEF PositionSoFar, ColumnAt, LineAt

(* What is said of the characters of a word is kept.                       *)
LEMMA InWordStep ==
  ASSUME InPlace, WordBegun, WordSoFar, NumberSoFar, Next
  PROVE  WordSoFar'
<1>1. source' = source
  BY SourceKept
<1>2. (\A k, C : At(k, C)' <=> At(k, C)) /\ (Separated' <=> Separated)
  BY <1>1 DEF Separated, At, Size
<1>3. SUFFICES ASSUME mode' = "word", pos' > start'
               PROVE  /\ ~At(pos' - 1, BreakChars)
                      /\ Separated => ~At(pos' - 1, {"newline"})
  BY <1>2 DEF WordSoFar
<1>4. pos \in Nat
  BY DEF InPlace
<1>5. WordTurn
  BY <1>3, <1>4, Loops DEF WordOpen
<1>6. pos' = pos + 1 /\ pos < Size /\ ~At(pos, BreakChars)
  BY <1>5 DEF WordTurn, Consume
<1>7. Separated => \A j \in pos .. pos + 1 - 1 : ~At(j, {"newline"})
  <2>1. pos + 1 <= Size
    BY <1>4, <1>6 DEF InPlace
  <2> QED
    BY <1>5, <2>1, Uncounted
<1> QED
  BY <1>4, <1>6, <1>7

-----------------------------------------------------------------------------
(* Tokens.                                                                 *)

(* What is to hold of a token once and for all.                            *)
Right(t) ==
  /\ t.from <= t.to
  /\ EndsAtQuote(t)
  /\ LineCounted(t)
  /\ NewlinesBefore(t.to) = 0 => ColumnExact(t)
  /\ Number(t) => Maximal(t)

(* The first character that is not of a token, a comment or blank yet, out *)
(* of a comment.                                                           *)
Frontier ==
  CASE mode \in {"number", "word"} -> start
    [] mode = "string" -> start - 1
    [] OTHER -> pos

(* What a step may push: its position is not before the one reached, nor   *)
(* after the one reached next, and all that was not settled is of it.      *)
Follows(t) ==
  /\ t \in TokenSet /\ Right(t)
  /\ t.line = line /\ line' = line
  /\ t.col \in col..col'
  /\ tokens' = Append(tokens, t)
  /\ mode' = "code" /\ mode \notin {"block", "line"} /\ Frontier \in 0..pos'
  /\ Extent(t) = Frontier .. pos' - 1

ReadSoFar ==
  /\ InPlace /\ WordBegun /\ WordSoFar /\ NumberSoFar /\ StringSoFar /\ PositionSoFar

(* The types of a token with a lexeme in the file.                         *)
LEMMA TokenType ==
  ASSUME InPlace, NEW kind \in TokenKinds, NEW from \in Nat, NEW to \in from..Size,
         NEW c \in 1 .. Size + 3
  PROVE  Token(kind, from, to, c) \in TokenSet
BY DEF Token, TokenSet, InPlace

(* A number.                                                               *)
LEMMA NumberNext ==
  ASSUME ReadSoFar, NumberClose
  PROVE  \E t : Follows(t)
<1> USE DEF ReadSoFar
<1>1. PICK kind \in {"ERROR", "FLOAT", "INTEGER"} :
        tokens' = Append(tokens, Token(kind, start, pos + 1, col + 1))
  BY DEF NumberClose, Push
<1> DEFINE t == Token(kind, start, pos + 1, col + 1)
<1>2. /\ mode = "number" /\ pos' = pos + 1 /\ col' = col + 1 /\ line' = line
      /\ start \in 0..Size /\ pos \in Nat /\ pos < Size /\ start <= pos
      /\ col \in 1 .. pos + 1 /\ Size \in Nat
  BY DEF NumberClose, Goto, Consume, InPlace
<1>3. t \in TokenSet
  BY <1>2, TokenType DEF TokenKinds
<1>4. Maximal(t)
  BY NumberPushed
<1>5. ColumnAt(col', pos') /\ LineAt(line', pos')
  BY <1>2, PositionAfter DEF Next, Step
<1>6. ~At(start, {"quote"})
  <2>1. At(start, Digits) \/ At(start, {"."})
    BY <1>2 DEF NumberSoFar, Point
  <2> QED
    BY <2>1 DEF At, Digits
<1>7. NewlinesBefore(t.to) = 0 => ColumnExact(t)
  BY <1>2, <1>5, <1>6 DEF ColumnExact, ColumnAt, Token
<1>8. LineCounted(t)
  BY <1>2, <1>5 DEF LineCounted, LineAt, Token
<1>9. Right(t)
  BY <1>2, <1>4, <1>7, <1>8 DEF Right, EndsAtQuote, Token
<1>10. t.line = line /\ t.col \in col..col'
  BY <1>2 DEF Token
<1>11. /\ mode' = "code" /\ mode \notin {"block", "line"} /\ Frontier \in 0..pos'
      /\ Extent(t) = Frontier .. pos' - 1
  <2>1. mode' = "code" /\ mode = "number"
    BY DEF NumberClose, Goto
  <2>2. Extent(t) = start .. pos + 1 - 1
    BY <1>2 DEF Extent, Token
  <2> QED
    BY <1>2, <2>1, <2>2 DEF Frontier
<1> QED
  BY <1>1, <1>2, <1>3, <1>9, <1>10, <1>11 DEF Follows

(* A symbol.                                                               *)
LEMMA SymbolNext ==
  ASSUME ReadSoFar, Symbol
  PROVE  \E t : Follows(t)
<1> USE DEF ReadSoFar
<1>1. PICK n \in 1..3 : /\ SymbolHere(n) /\ pos' = pos + n /\ col' = col + n
                        /\ tokens' = Append(tokens, Token("SYMBOL", pos, pos + n, col))
  BY DEF Symbol, Push, Consume
<1> DEFINE t == Token("SYMBOL", pos, pos + n, col)
<1>2. /\ line' = line /\ pos \in Nat /\ pos + n <= Size
      /\ col \in 1 .. pos + 1 /\ Size \in Nat /\ n \in Nat
  BY <1>1 DEF Symbol, InPlace, SymbolHere
<1>3. t \in TokenSet
  <2>1. pos + n \in pos..Size /\ col \in 1 .. Size + 3
    BY <1>2
  <2> QED
    BY <1>2, <2>1, TokenType DEF TokenKinds
<1>4. LineAt(line', pos')
  BY <1>1, <1>2, PositionAfter DEF Next, Step
<1>5. NewlinesBefore(pos + n) = 0 => NewlinesBefore(pos) = 0
  <2>1. NewlinesBefore(pos) \in Nat /\ NewlinesBefore(pos) <= NewlinesBefore(pos + n)
    BY <1>2, NewlineSets, NewlinesGrow
  <2> QED
    BY <2>1
<1>6. NewlinesBefore(t.to) = 0 => ColumnExact(t)
  BY <1>2, <1>5 DEF ColumnExact, PositionSoFar, ColumnAt, Token
<1>7. LineCounted(t)
  BY <1>1, <1>2, <1>4 DEF LineCounted, LineAt, Token
<1>8. Right(t)
  BY <1>2, <1>6, <1>7 DEF Right, EndsAtQuote, Number, Token
<1>9. t.line = line /\ t.col \in col..col'
  BY <1>1, <1>2 DEF Token
<1>10. /\ mode' = "code" /\ mode \notin {"block", "line"} /\ Frontier \in 0..pos'
      /\ Extent(t) = Frontier .. pos' - 1
  <2>1. mode' = "code" /\ mode = "code"
    BY DEF Symbol, Goto
  <2>2. Extent(t) = pos .. pos + n - 1
    BY <1>1, <1>2 DEF Extent, Token
  <2> QED
    BY <1>1, <1>2, <2>1, <2>2 DEF Frontier
<1> QED
  BY <1>1, <1>2, <1>3, <1>8, <1>9, <1>10 DEF Follows

(* A character literal, whose last character is its closing quote.         *)
LEMMA CharNext ==
  ASSUME ReadSoFar, PlainChar \/ EscapedChar
  PROVE  \E t : Follows(t)
<1> USE DEF ReadSoFar
<1>1. PICK n \in 3..4 : /\ At(pos + n - 1, {"quote"}) /\ pos' = pos + n /\ col' = col + n
                        /\ tokens' = Append(tokens, Token("CHAR", pos + 1, pos + n - 1, col))
  <2>1. pos \in Nat
    BY DEF InPlace
  <2>2. CASE PlainChar
    <3>1. pos + 3 - 1 = pos + 2 /\ 3 \in 3..4
      BY <2>1
    <3> QED
      BY <2>2, <3>1 DEF PlainChar, Plain, Push, Consume
  <2>3. CASE EscapedChar
    <3>1. pos + 4 - 1 = pos + 3 /\ 4 \in 3..4
      BY <2>1
    <3> QED
      BY <2>3, <3>1 DEF EscapedChar, Escaped, Push, Consume
  <2> QED
    BY <2>2, <2>3
<1> DEFINE t == Token("CHAR", pos + 1, pos + n - 1, col)
<1>2. /\ line' = line /\ pos \in Nat /\ pos + n <= Size
      /\ col \in 1 .. pos + 1 /\ Size \in Nat /\ n \in Nat
  BY <1>1 DEF PlainChar, EscapedChar, InPlace, At
<1>3. t \in TokenSet
  <2>1. pos + 1 \in Nat /\ pos + n - 1 \in pos + 1 .. Size /\ col \in 1 .. Size + 3
    BY <1>1, <1>2
  <2> QED
    BY <2>1, TokenType DEF TokenKinds
<1>4. LineAt(line', pos')
  BY <1>1, <1>2, PositionAfter DEF Next, Step
<1>5. NewlinesBefore(pos + n) = NewlinesBefore(pos + n - 1)
  <2>1. pos + n - 1 \in Nat /\ \A j \in pos + n - 1 .. (pos + n - 1) + 1 - 1 : ~At(j, {"newline"})
    BY <1>1, <1>2 DEF At
  <2>2. NewlinesBefore((pos + n - 1) + 1) = NewlinesBefore(pos + n - 1)
    BY <2>1, NoNewline
  <2> QED
    BY <1>2, <2>2
<1>6. NewlinesBefore(pos + n) = 0 => NewlinesBefore(pos) = 0
  <2>1. NewlinesBefore(pos) \in Nat /\ NewlinesBefore(pos) <= NewlinesBefore(pos + n)
    BY <1>2, NewlineSets, NewlinesGrow
  <2> QED
    BY <2>1
<1>7. NewlinesBefore(t.to) = 0 => ColumnExact(t)
  BY <1>2, <1>5, <1>6 DEF ColumnExact, PositionSoFar, ColumnAt, Token
<1>8. LineCounted(t)
  BY <1>1, <1>2, <1>4, <1>5 DEF LineCounted, LineAt, Token
<1>9. Right(t)
  BY <1>1, <1>2, <1>7, <1>8 DEF Right, EndsAtQuote, Number, Token
<1>10. t.line = line /\ t.col \in col..col'
  BY <1>1, <1>2 DEF Token
<1>11. /\ mode' = "code" /\ mode \notin {"block", "line"} /\ Frontier \in 0..pos'
      /\ Extent(t) = Frontier .. pos' - 1
  <2>1. mode' = "code" /\ mode = "code"
    BY DEF PlainChar, EscapedChar, Goto
  <2>2. Extent(t) = pos + 1 - 1 .. pos + n - 1
    BY <1>1, <1>2 DEF Extent, Token
  <2>3. Frontier = pos
    BY <2>1 DEF Frontier
  <2>4. pos + 1 - 1 = pos /\ pos + n - 1 = pos' - 1 /\ pos \in 0..pos'
    BY <1>1, <1>2
  <2> QED
    BY <2>1, <2>2, <2>3, <2>4
<1> QED
  BY <1>1, <1>2, <1>3, <1>9, <1>10, <1>11 DEF Follows

(* A quote that begins no character literal.                               *)
LEMMA BadCharNext ==
  ASSUME ReadSoFar, BadChar
  PROVE  \E t : Follows(t)
<1> USE DEF ReadSoFar
<1> DEFINE t == Token("ERROR", pos, pos + 1, col)
<1>1. /\ line' = line /\ pos \in Nat /\ pos + 1 <= Size /\ At(pos, {"quote"})
      /\ col \in 1 .. pos + 1 /\ Size \in Nat /\ pos' = pos + 1 /\ col' = col + 1
      /\ tokens' = Append(tokens, t)
  BY DEF BadChar, InPlace, At, Consume, Push
<1>2. t \in TokenSet
  BY <1>1, TokenType DEF TokenKinds
<1>3. LineAt(line', pos')
  BY <1>1, PositionAfter DEF Next, Step
<1>4. NewlinesBefore(pos + 1) = 0 => NewlinesBefore(pos) = 0
  <2>1. NewlinesBefore(pos) \in Nat /\ NewlinesBefore(pos) <= NewlinesBefore(pos + 1)
    BY <1>1, NewlineSets, NewlinesGrow
  <2> QED
    BY <2>1
<1>5. NewlinesBefore(t.to) = 0 => ColumnExact(t)
  BY <1>1, <1>4 DEF ColumnExact, PositionSoFar, ColumnAt, Token
<1>6. LineCounted(t)
  BY <1>1, <1>3 DEF LineCounted, LineAt, Token
<1>7. Right(t)
  BY <1>1, <1>5, <1>6 DEF Right, EndsAtQuote, Number, Token
<1>8. t.line = line /\ t.col \in col..col'
  BY <1>1 DEF Token
<1>9. /\ mode' = "code" /\ mode \notin {"block", "line"} /\ Frontier \in 0..pos'
      /\ Extent(t) = Frontier .. pos' - 1
  <2>1. mode' = "code" /\ mode = "code"
    BY DEF BadChar, Goto
  <2>2. Extent(t) = pos .. pos + 1 - 1
    BY <1>1 DEF Extent, Token
  <2> QED
    BY <1>1, <2>1, <2>2 DEF Frontier
<1> QED
  BY <1>1, <1>2, <1>7, <1>8, <1>9 DEF Follows

(* A string or a word, which ends before pos.                              *)
LEMMA TextNext ==
  ASSUME ReadSoFar, StringClose \/ WordClose
  PROVE  \E t : Follows(t)
<1> USE DEF ReadSoFar
<1>1. PICK kind \in {"STRING", "KEYWORD", "IDENTIFIER"} :
        /\ tokens' = Append(tokens, Token(kind, start, pos, col))
        /\ kind = "STRING" => StringClose
        /\ kind # "STRING" => WordClose
  BY DEF StringClose, WordClose, Push
<1> DEFINE t == Token(kind, start, pos, col)
<1>2. /\ line' = line /\ pos \in Nat /\ pos <= Size /\ start \in Nat /\ start <= pos
      /\ col \in 1 .. pos + 1 /\ Size \in Nat /\ col' \in {col, col + 1}
  BY DEF StringClose, WordClose, InPlace, Goto, Consume
<1>3. t \in TokenSet
  <2>1. pos \in start..Size /\ col \in 1 .. Size + 3
    BY <1>2
  <2> QED
    BY <1>2, <2>1, TokenType DEF TokenKinds
<1>4. LineAt(line, pos) /\ ColumnAt(col, pos)
  BY <1>2 DEF PositionSoFar
<1>5. NewlinesBefore(t.to) = 0 => ColumnExact(t)
  BY <1>2, <1>4 DEF ColumnExact, ColumnAt, Token
<1>6. LineCounted(t)
  BY <1>4 DEF LineCounted, LineAt, Token
<1>7. EndsAtQuote(t)
  <2>1. CASE kind = "STRING"
    BY <1>1, <2>1, StringPushed
  <2>2. CASE kind # "STRING"
    BY <2>2 DEF EndsAtQuote, Token
  <2> QED
    BY <2>1, <2>2
<1>8. Right(t)
  BY <1>2, <1>5, <1>6, <1>7 DEF Right, Number, Token
<1>9. t.line = line /\ t.col \in col..col'
  BY <1>2 DEF Token
<1>10. /\ mode' = "code" /\ mode \notin {"block", "line"} /\ Frontier \in 0..pos'
       /\ Extent(t) = Frontier .. pos' - 1
  <2>1. CASE kind = "STRING"
    <3>1. mode = "string" /\ mode' = "code" /\ pos' = pos + 1 /\ start > 0
      BY <1>1, <2>1 DEF StringClose, Goto, Consume, StringSoFar
    <3>2. Extent(t) = start - 1 .. pos
      BY <2>1 DEF Extent, Token
    <3> QED
      BY <1>2, <3>1, <3>2 DEF Frontier
  <2>2. CASE kind # "STRING"
    <3>1. mode = "word" /\ mode' = "code" /\ pos' = pos
      BY <1>1, <2>2 DEF WordClose, Goto
    <3>2. Extent(t) = start .. pos - 1
      BY <2>2 DEF Extent, Token
    <3> QED
      BY <1>2, <3>1, <3>2 DEF Frontier
  <2> QED
    BY <2>1, <2>2
<1> QED
  BY <1>1, <1>2, <1>3, <1>8, <1>9, <1>10 DEF Follows

(* A step that pushes no such token leaves the tokens alone.               *)
LEMMA StepFollows ==
  ASSUME ReadSoFar, Next, tokens' # tokens
  PROVE  \E t : Follows(t)
<1>1. \/ NumberClose \/ Symbol \/ PlainChar \/ EscapedChar \/ BadChar \/ StringClose \/ WordClose
  BY DEF Next, Step, NoSource, OpenSource, Newline, Space, BlockOpen, BlockTurn, BlockClose,
     LineOpen, LineTurn, LineClose, NumberOpen, NumberTurn, StringOpen, StringEscape, StringTurn,
     WordOpen, WordTurn, EndOfFile, Done, vars
<1> QED
  BY <1>1, NumberNext, SymbolNext, CharNext, BadCharNext, TextNext

(* line and col do not go backwards.                                       *)
LEMMA Forward ==
  ASSUME InPlace, Next
  PROVE  line' > line \/ (line' = line /\ col' >= col)
<1> USE DEF InPlace, Consume
<1>1. CASE \/ NoSource \/ OpenSource \/ Newline \/ Space \/ BlockOpen \/ BlockClose
  BY <1>1 DEF NoSource, OpenSource, Newline, Space, BlockOpen, BlockClose
<1>2. CASE BlockTurn \/ LineOpen \/ LineTurn \/ LineClose \/ NumberOpen \/ NumberTurn \/ NumberClose
  BY <1>2 DEF BlockTurn, LineOpen, LineTurn, LineClose, NumberOpen, NumberTurn, NumberClose
<1>3. CASE Symbol \/ PlainChar \/ EscapedChar \/ BadChar
  BY <1>3 DEF Symbol, PlainChar, EscapedChar, BadChar
<1>4. CASE StringOpen \/ StringEscape \/ StringTurn \/ StringClose
  BY <1>4 DEF StringOpen, StringEscape, StringTurn, StringClose
<1>5. CASE WordOpen \/ WordTurn \/ WordClose \/ EndOfFile \/ Done
  BY <1>5 DEF WordOpen, WordTurn, WordClose, EndOfFile, Done, vars
<1> QED
  BY <1>1, <1>2, <1>3, <1>4, <1>5 DEF Next, Step

(* Every token is right, and reported at or before the position reached.   *)
Reached(t) == t.line < line \/ (t.line = line /\ t.col <= col)

TokensSoFar ==
  /\ tokens \in Seq(TokenSet)
  /\ \A n \in DOMAIN tokens : Right(tokens[n]) /\ Reached(tokens[n])
  /\ PositionsSorted

(* A token is appended to the others.                                      *)
LEMMA Appended ==
  ASSUME NEW S, NEW s \in Seq(S), NEW t \in S
  PROVE  /\ Append(s, t) \in Seq(S)
         /\ DOMAIN s = 1..Len(s) /\ Len(s) \in Nat
         /\ DOMAIN Append(s, t) = 1 .. Len(s) + 1
         /\ \A n \in DOMAIN s : Append(s, t)[n] = s[n]
         /\ Append(s, t)[Len(s) + 1] = t
OBVIOUS

(* What is said of the tokens is kept.                                     *)
LEMMA TokensStep ==
  ASSUME ReadSoFar, TokensSoFar, Next
  PROVE  TokensSoFar'
<1>1. source' = source
  BY SourceKept
<1>2. TokenSet' = TokenSet
  BY <1>1 DEF TokenSet, Size
<1>3. \A t : Right(t)' <=> Right(t)
  BY <1>1 DEF Right, EndsAtQuote, LineCounted, ColumnExact, Number, Maximal, Backslashed,
     NewlinesBefore, Separated, Point, At, Size
<1>4. InPlace /\ line \in Nat /\ col \in Nat /\ line' \in Nat /\ col' \in Nat
  BY PlaceStep DEF InPlace, ReadSoFar
<1>5. \A t \in TokenSet : Reached(t) => Reached(t)'
  <2>1. \A t \in TokenSet : t.line \in Nat /\ t.col \in Nat
    BY <1>4 DEF TokenSet, InPlace
  <2> QED
    BY <1>4, <2>1, Forward DEF Reached
<1>6. CASE tokens' = tokens
  <2>1. \A n \in DOMAIN tokens : tokens[n] \in TokenSet
    BY DEF TokensSoFar
  <2> QED
    BY <1>2, <1>3, <1>5, <1>6, <2>1 DEF TokensSoFar, PositionsSorted
<1>7. CASE tokens' # tokens
  <2>1. PICK t : Follows(t)
    BY <1>7, StepFollows
  <2>2. t \in TokenSet /\ Right(t) /\ t.line = line /\ line' = line /\ t.col \in col..col'
        /\ tokens' = Append(tokens, t)
    BY <2>1 DEF Follows
  <2>3. tokens \in Seq(TokenSet)
    BY DEF TokensSoFar
  <2>4. /\ tokens' \in Seq(TokenSet)
        /\ DOMAIN tokens = 1..Len(tokens) /\ Len(tokens) \in Nat
        /\ DOMAIN tokens' = 1 .. Len(tokens) + 1
        /\ \A n \in DOMAIN tokens : tokens'[n] = tokens[n]
        /\ tokens'[Len(tokens) + 1] = t
    BY <2>2, <2>3, Appended
  <2>5. t.line < line' \/ (t.line = line' /\ t.col <= col')
    BY <1>4, <2>2
  <2>6. \A n \in DOMAIN tokens : tokens[n] \in TokenSet
    BY <2>3
  <2>7. \A n \in DOMAIN tokens' :
          /\ Right(tokens'[n])
          /\ tokens'[n].line < line' \/ (tokens'[n].line = line' /\ tokens'[n].col <= col')
    <3>1. \A n \in DOMAIN tokens :
            /\ Right(tokens[n])
            /\ tokens[n].line < line' \/ (tokens[n].line = line' /\ tokens[n].col <= col')
      BY <1>5, <2>6 DEF TokensSoFar, Reached
    <3>2. \A n \in DOMAIN tokens' : n \in DOMAIN tokens \/ n = Len(tokens) + 1
      BY <2>4
    <3> QED
      BY <2>2, <2>4, <2>5, <3>1, <3>2
  <2>8. \A n \in DOMAIN tokens : tokens[n].line \in Nat /\ tokens[n].col \in Nat
    <3>1. \A u \in TokenSet : u.line \in Nat /\ u.col \in Nat
      BY <1>4 DEF TokenSet, InPlace
    <3> QED
      BY <2>6, <3>1
  <2>9. PositionsSorted'
    <3> SUFFICES ASSUME NEW m \in DOMAIN tokens', NEW n \in DOMAIN tokens', m < n
                 PROVE  \/ tokens'[m].line < tokens'[n].line
                        \/ /\ tokens'[m].line = tokens'[n].line
                           /\ tokens'[m].col <= tokens'[n].col
      BY DEF PositionsSorted
    <3>1. m \in DOMAIN tokens
      BY <2>4
    <3>2. CASE n \in DOMAIN tokens
      BY <2>4, <3>1, <3>2 DEF TokensSoFar, PositionsSorted
    <3>3. CASE n = Len(tokens) + 1
      <4>1. Reached(tokens[m])
        BY <3>1 DEF TokensSoFar
      <4> QED
        BY <1>4, <2>2, <2>4, <2>8, <3>1, <3>3, <4>1 DEF Reached
    <3> QED
      BY <2>4, <3>2, <3>3
  <2> QED
    BY <1>2, <1>3, <2>4, <2>7, <2>9 DEF TokensSoFar, Reached
<1> QED
  BY <1>6, <1>7

-----------------------------------------------------------------------------
(* What becomes of each character.                                         *)

Taken(k) == \E n \in DOMAIN tokens : k \in Extent(tokens[n])

(* Before lim every character of the file is of a token, blank or of a     *)
(* comment, and the tokens are before lim.                                 *)
InComment(k, lim) ==
  \E b \in 0..k : \E e \in k .. Size - 1 :
    /\ e < lim
    /\ \A j \in b..e : ~Taken(j)
    /\ CommentAt(b, e)

Settled(lim) ==
  /\ \A n \in DOMAIN tokens : Extent(tokens[n]) \subseteq 0 .. lim - 1
  /\ \A k \in 0 .. Size - 1 : k < lim =>
       Taken(k) \/ At(k, Spaces \cup {"newline"}) \/ InComment(k, lim)

(* The comment being read begins at b.                                     *)
BlockFrom(b) ==
  /\ b + 2 <= pos /\ Settled(b)
  /\ At(b, {"/"}) /\ At(b + 1, {"*"})
  /\ \A k \in b + 2 .. pos - 1 : ~(At(k, {"*"}) /\ At(k + 1, {"/"}))

LineFrom(b) ==
  /\ b + 2 <= pos /\ Settled(b)
  /\ At(b, {"/"}) /\ At(b + 1, {"/"})
  /\ \A k \in b + 2 .. pos - 1 : ~At(k, {"newline"})

Apart ==
  \A m, n \in DOMAIN tokens : m # n => Extent(tokens[m]) \cap Extent(tokens[n]) = {}

ExtentsSoFar ==
  /\ Apart
  /\ mode = "block" => \E b \in Nat : BlockFrom(b)
  /\ mode = "line" => \E b \in Nat : LineFrom(b)
  /\ mode \notin {"block", "line"} => Settled(Frontier)
  /\ mode = "done" /\ pos > 0 => pos >= Size

(* A blank is settled.                                                     *)
LEMMA BlankSettled ==
  ASSUME NEW k \in Nat, Size \in Nat, Settled(k), At(k, Spaces \cup {"newline"})
  PROVE  Settled(k + 1)
<1>1. \A n \in DOMAIN tokens : Extent(tokens[n]) \subseteq 0 .. (k + 1) - 1
  BY DEF Settled
<1>2. ASSUME NEW j \in 0 .. Size - 1, j < k + 1
      PROVE  Taken(j) \/ At(j, Spaces \cup {"newline"}) \/ InComment(j, k + 1)
  <2>1. CASE j = k
    BY <2>1
  <2>2. CASE j < k
    <3>1. InComment(j, k) => InComment(j, k + 1)
      BY DEF InComment
    <3> QED
      BY <2>2, <3>1 DEF Settled
  <2> QED
    BY <1>2, <2>1, <2>2
<1> QED
  BY <1>1, <1>2 DEF Settled

(* A comment that ends before lim, or with the file, is settled.           *)
LEMMA CommentSettled ==
  ASSUME Size \in Nat, NEW b \in Nat, NEW e \in b .. Size - 1, NEW lim \in Nat,
         Settled(b), CommentAt(b, e), e < lim, e = lim - 1 \/ e = Size - 1
  PROVE  Settled(lim)
<1>1. \A n \in DOMAIN tokens : Extent(tokens[n]) \subseteq 0 .. lim - 1
  BY DEF Settled
<1>2. \A j \in b..e : ~Taken(j)
  BY DEF Settled, Taken
<1>3. ASSUME NEW j \in 0 .. Size - 1, j < lim
      PROVE  Taken(j) \/ At(j, Spaces \cup {"newline"}) \/ InComment(j, lim)
  <2>1. CASE j < b
    <3>1. InComment(j, b) => InComment(j, lim)
      BY DEF InComment
    <3> QED
      BY <2>1, <3>1 DEF Settled
  <2>2. CASE j >= b
    <3>1. b \in 0..j /\ e \in j .. Size - 1
      BY <1>3, <2>2
    <3> QED
      BY <1>2, <3>1 DEF InComment
  <2> QED
    BY <2>1, <2>2
<1> QED
  BY <1>1, <1>3 DEF Settled

(* A step that pushes nothing keeps what has become of the characters.     *)
LEMMA SilentExtents ==
  ASSUME ReadSoFar, ExtentsSoFar, Next, tokens' = tokens, ~ \E t : Follows(t)
  PROVE  ExtentsSoFar'
<1> USE DEF Goto, Consume
<1>1. source' = source
  BY SourceKept
<1>2. (\A k, C : At(k, C)' <=> At(k, C)) /\ Size' = Size /\ (Apart' <=> Apart)
  BY <1>1 DEF At, Size, Apart
<1>3. \A l : Settled(l)' <=> Settled(l)
  BY <1>1 DEF Settled, Taken, InComment, CommentAt, At, Size
<1>4. /\ Size \in Nat /\ pos \in Nat /\ pos' \in Nat /\ start \in Nat
      /\ mode = "open" => pos = 0
      /\ mode \in {"block", "line"} => pos <= Size
      /\ Apart
  BY PlaceStep DEF ReadSoFar, InPlace, ExtentsSoFar
<1>5. ASSUME mode' \notin {"block", "line", "done"}, Settled(Frontier')
      PROVE  ExtentsSoFar'
  BY <1>2, <1>3, <1>4, <1>5 DEF ExtentsSoFar
<1>6. CASE OpenSource \/ NumberOpen \/ WordOpen \/ StringOpen
  <2>1. /\ mode \in {"open", "code"} /\ mode' \in {"code", "number", "word", "string"}
        /\ Frontier' = Frontier
    BY <1>4, <1>6 DEF OpenSource, NumberOpen, WordOpen, StringOpen, Frontier
  <2>2. Settled(Frontier)
    BY <2>1 DEF ExtentsSoFar
  <2> QED
    BY <1>5, <2>1, <2>2
<1>7. CASE NumberTurn \/ WordTurn \/ StringEscape \/ StringTurn
  <2>1. /\ mode \in {"number", "word", "string"} /\ mode' = mode
        /\ Frontier' = Frontier
    BY <1>7 DEF NumberTurn, WordTurn, StringEscape, StringTurn, Frontier
  <2>2. Settled(Frontier)
    BY <2>1 DEF ExtentsSoFar
  <2> QED
    BY <1>5, <2>1, <2>2
<1>8. CASE NoSource \/ EndOfFile \/ Done
  <2>1. /\ mode \in {"open", "code", "done"} /\ mode' = "done" /\ pos' = pos
        /\ mode = "code" => pos >= Size
    BY <1>8 DEF NoSource, EndOfFile, Done, vars
  <2>2. Settled(pos) /\ Frontier' = pos
    BY <2>1 DEF ExtentsSoFar, Frontier
  <2>3. pos > 0 => pos >= Size
    BY <1>4, <2>1 DEF ExtentsSoFar
  <2> QED
    BY <1>2, <1>3, <1>4, <2>1, <2>2, <2>3 DEF ExtentsSoFar
<1>9. CASE Newline \/ Space
  <2>1. /\ mode = "code" /\ mode' = "code" /\ pos' = pos + 1
        /\ At(pos, Spaces \cup {"newline"})
    BY <1>9 DEF Newline, Space, At
  <2>2. Settled(pos)
    BY <2>1 DEF ExtentsSoFar, Frontier
  <2>3. Settled(pos + 1) /\ Frontier' = pos + 1
    BY <1>4, <2>1, <2>2, BlankSettled DEF Frontier
  <2> QED
    BY <1>5, <2>1, <2>3
<1>10. ASSUME NEW b \in Nat, mode' = "block", b + 2 <= pos', Settled(b),
              At(b, {"/"}) /\ At(b + 1, {"*"}),
              \A k \in b + 2 .. pos' - 1 : ~(At(k, {"*"}) /\ At(k + 1, {"/"}))
       PROVE  ExtentsSoFar'
  BY <1>2, <1>3, <1>4, <1>10 DEF ExtentsSoFar, BlockFrom
<1>11. ASSUME NEW b \in Nat, mode' = "line", b + 2 <= pos', Settled(b),
              At(b, {"/"}) /\ At(b + 1, {"/"}),
              \A k \in b + 2 .. pos' - 1 : ~At(k, {"newline"})
       PROVE  ExtentsSoFar'
  BY <1>2, <1>3, <1>4, <1>11 DEF ExtentsSoFar, LineFrom
<1>12. CASE BlockOpen
  <2>1. /\ mode = "code" /\ mode' = "block" /\ pos' = pos + 2
        /\ At(pos, {"/"}) /\ At(pos + 1, {"*"})
    BY <1>12 DEF BlockOpen
  <2>2. Settled(pos)
    BY <2>1 DEF ExtentsSoFar, Frontier
  <2> QED
    BY <1>4, <1>10, <2>1, <2>2
<1>13. CASE LineOpen
  <2>1. /\ mode = "code" /\ mode' = "line" /\ pos' = pos + 2
        /\ At(pos, {"/"}) /\ At(pos + 1, {"/"})
    BY <1>13 DEF LineOpen
  <2>2. Settled(pos)
    BY <2>1 DEF ExtentsSoFar, Frontier
  <2> QED
    BY <1>4, <1>11, <2>1, <2>2
<1>14. CASE BlockTurn
  <2>1. mode = "block" /\ mode' = "block" /\ pos' = pos + 1 /\ ~(At(pos, {"*"}) /\ At(pos + 1, {"/"}))
    BY <1>14 DEF BlockTurn, BlockEnds
  <2>2. PICK b \in Nat : BlockFrom(b)
    BY <2>1 DEF ExtentsSoFar
  <2>3. \A k \in b + 2 .. pos' - 1 : k = pos \/ k \in b + 2 .. pos - 1
    BY <1>4, <2>1
  <2> QED
    BY <1>4, <1>10, <2>1, <2>2, <2>3 DEF BlockFrom
<1>15. CASE LineTurn
  <2>1. mode = "line" /\ mode' = "line" /\ pos' = pos + 1 /\ ~At(pos, {"newline"})
    BY <1>15 DEF LineTurn
  <2>2. PICK b \in Nat : LineFrom(b)
    BY <2>1 DEF ExtentsSoFar
  <2>3. \A k \in b + 2 .. pos' - 1 : k = pos \/ k \in b + 2 .. pos - 1
    BY <1>4, <2>1
  <2> QED
    BY <1>4, <1>11, <2>1, <2>2, <2>3 DEF LineFrom
<1>16. CASE BlockClose
  <2>1. mode = "block" /\ mode' = "code" /\ pos' = pos + 2 /\ pos <= Size
    BY <1>4, <1>16 DEF BlockClose
  <2>2. PICK b \in Nat : BlockFrom(b)
    BY <2>1 DEF ExtentsSoFar
  <2>3. PICK e \in {pos + 1, Size - 1} : e < Size /\ e <= pos + 1 /\ (e = pos + 1 \/ e = Size - 1)
    BY <1>4
  <2>4. b + 1 < Size /\ b + 2 <= pos
    BY <2>2 DEF BlockFrom, At
  <2>5. e \in b .. Size - 1
    BY <1>4, <2>1, <2>3, <2>4
  <2>6. \A k \in b + 2 .. e - 2 : k \in b + 2 .. pos - 1
    BY <1>4, <2>3, <2>5
  <2>7. CommentAt(b, e)
    BY <2>2, <2>3, <2>6 DEF CommentAt, BlockFrom
  <2>8. Settled(pos + 2)
    BY <1>4, <2>2, <2>3, <2>5, <2>7, CommentSettled DEF BlockFrom
  <2> QED
    BY <1>5, <2>1, <2>8 DEF Frontier
<1>17. CASE LineClose
  <2>1. mode = "line" /\ mode' = "code" /\ pos' = pos /\ pos <= Size
    BY <1>4, <1>17 DEF LineClose
  <2>2. PICK b \in Nat : LineFrom(b)
    BY <2>1 DEF ExtentsSoFar
  <2>3. b + 2 <= pos /\ pos - 1 \in b .. Size - 1
    BY <1>4, <2>1, <2>2 DEF LineFrom
  <2>4. CommentAt(b, pos - 1)
    BY <1>4, <2>1, <2>2 DEF CommentAt, LineFrom
  <2>5. Settled(pos)
    BY <1>4, <2>2, <2>3, <2>4, CommentSettled DEF LineFrom
  <2> QED
    BY <1>5, <2>1, <2>5 DEF Frontier
<1>18. CASE \/ NumberClose \/ Symbol \/ PlainChar \/ EscapedChar \/ BadChar \/ StringClose
            \/ WordClose
  BY <1>18, NumberNext, SymbolNext, CharNext, BadCharNext, TextNext
<1> QED
  BY <1>6, <1>7, <1>8, <1>9, <1>12, <1>13, <1>14, <1>15, <1>16, <1>17, <1>18 DEF Next, Step

(* A token that is pushed is made of what was not settled.                 *)
LEMMA PushExtents ==
  ASSUME ReadSoFar, TokensSoFar, ExtentsSoFar, Next, NEW t, Follows(t)
  PROVE  ExtentsSoFar'
<1>1. source' = source
  BY SourceKept
<1>2. (\A k, C : At(k, C)' <=> At(k, C)) /\ Size' = Size
  BY <1>1 DEF At, Size
<1>3. \A b, e : CommentAt(b, e)' <=> CommentAt(b, e)
  BY <1>1 DEF CommentAt, At, Size
<1>4. /\ t \in TokenSet /\ tokens' = Append(tokens, t)
      /\ mode' = "code" /\ mode \notin {"block", "line"} /\ Frontier \in 0..pos'
      /\ Extent(t) = Frontier .. pos' - 1
  BY DEF Follows
<1>5. tokens \in Seq(TokenSet)
  BY DEF TokensSoFar
<1>6. /\ DOMAIN tokens = 1..Len(tokens) /\ Len(tokens) \in Nat
      /\ DOMAIN tokens' = 1 .. Len(tokens) + 1
      /\ \A n \in DOMAIN tokens : tokens'[n] = tokens[n]
      /\ tokens'[Len(tokens) + 1] = t
  BY <1>4, <1>5, Appended
<1>7. /\ \A n \in DOMAIN tokens' : n \in DOMAIN tokens \/ n = Len(tokens) + 1
      /\ Len(tokens) + 1 \in DOMAIN tokens' /\ DOMAIN tokens \subseteq DOMAIN tokens'
  BY <1>6
<1>8. Settled(Frontier) /\ Apart
  BY <1>4 DEF ExtentsSoFar
<1>9. Size \in Nat /\ pos' \in Nat /\ Frontier \in Nat
  BY <1>4, PlaceStep DEF ReadSoFar, InPlace
<1>10. \A n \in DOMAIN tokens : Extent(tokens[n]) \subseteq 0 .. Frontier - 1
  BY <1>8 DEF Settled
<1>11. Apart'
  <2> SUFFICES ASSUME NEW m \in DOMAIN tokens', NEW n \in DOMAIN tokens', m # n
               PROVE  Extent(tokens'[m]) \cap Extent(tokens'[n]) = {}
    BY DEF Apart, Extent
  <2>1. CASE m \in DOMAIN tokens /\ n \in DOMAIN tokens
    BY <1>6, <1>8, <2>1 DEF Apart
  <2>2. \A k \in DOMAIN tokens : Extent(tokens[k]) \cap Extent(t) = {}
    BY <1>4, <1>9, <1>10
  <2> QED
    BY <1>6, <1>7, <2>1, <2>2
<1>12. \A k \in Int : (\E n \in DOMAIN tokens' : k \in Extent(tokens'[n])) <=> Taken(k) \/ k \in Extent(t)
  BY <1>6, <1>7 DEF Taken
<1>13. ASSUME NEW n \in DOMAIN tokens'
       PROVE  Extent(tokens'[n]) \subseteq 0 .. pos' - 1
  <2>1. CASE n \in DOMAIN tokens
    BY <1>4, <1>6, <1>9, <1>10, <2>1
  <2>2. CASE n = Len(tokens) + 1
    BY <1>4, <1>6, <1>9, <2>2
  <2> QED
    BY <1>7, <2>1, <2>2
<1>14. \A j \in Extent(t) : j >= Frontier
  BY <1>4, <1>9
<1>15. ASSUME NEW k \in 0 .. Size - 1, k < pos'
       PROVE  \/ \E n \in DOMAIN tokens' : k \in Extent(tokens'[n])
              \/ At(k, Spaces \cup {"newline"})
              \/ \E b \in 0..k : \E e \in k .. Size - 1 :
                   /\ e < pos'
                   /\ \A j \in b..e : ~ \E n \in DOMAIN tokens' : j \in Extent(tokens'[n])
                   /\ CommentAt(b, e)
  <2>1. CASE k >= Frontier
    BY <1>4, <1>9, <1>12, <1>15, <2>1
  <2>2. CASE k < Frontier
    <3>1. Taken(k) \/ At(k, Spaces \cup {"newline"}) \/ InComment(k, Frontier)
      BY <1>8, <2>2 DEF Settled
    <3>2. ASSUME NEW b \in 0..k, NEW e \in k .. Size - 1, e < Frontier,
                 \A j \in b..e : ~Taken(j)
          PROVE  /\ e < pos'
                 /\ \A j \in b..e : ~ \E n \in DOMAIN tokens' : j \in Extent(tokens'[n])
      <4>1. e < pos'
        BY <1>4, <1>9, <3>2
      <4>2. ASSUME NEW j \in b..e
            PROVE  ~ \E n \in DOMAIN tokens' : j \in Extent(tokens'[n])
        <5>1. j \in Int /\ j < Frontier /\ ~Taken(j)
          BY <1>9, <3>2
        <5>2. ~(j >= Frontier)
          BY <1>9, <5>1
        <5> QED
          BY <1>12, <1>14, <5>1, <5>2
      <4> QED
        BY <4>1, <4>2
    <3> QED
      BY <1>12, <3>1, <3>2 DEF InComment
  <2> QED
    BY <1>9, <2>1, <2>2
<1>16. Frontier' = pos'
  BY <1>4 DEF Frontier
<1>17. Settled(Frontier)'
  BY <1>2, <1>3, <1>13, <1>15, <1>16 DEF Settled, Taken, InComment
<1> QED
  BY <1>4, <1>11, <1>17 DEF ExtentsSoFar

(* What becomes of the characters is kept.                                 *)
LEMMA ExtentsStep ==
  ASSUME ReadSoFar, TokensSoFar, ExtentsSoFar, Next
  PROVE  ExtentsSoFar'
<1>1. CASE \E t : Follows(t)
  BY <1>1, PushExtents
<1>2. CASE ~ \E t : Follows(t)
  BY <1>2, StepFollows, SilentExtents
<1> QED
  BY <1>1, <1>2

-----------------------------------------------------------------------------
(* The theorems.                                                           *)

(* The inductive invariant: where each variable is in each loop, what has  *)
(* been read of the lexeme, that the tokens are right and in order, and    *)
(* what has become of each character so far.                               *)
IndInv == ReadSoFar /\ TokensSoFar /\ ExtentsSoFar

(* At the beginning nothing has been read.                                 *)
LEMMA InitIndInv ==
  ASSUME Init
  PROVE  IndInv
<1>1. /\ source \in Seq(STRING) /\ Size \in Nat
      /\ mode = "open" /\ pos = 0 /\ line = 1 /\ col = 1 /\ start = 0 /\ tokens = <<>>
  BY SourcesAssumption DEF Init, Size
<1>2. InPlace /\ WordBegun /\ WordSoFar /\ NumberSoFar /\ StringSoFar
  <2>1. isFloat \in BOOLEAN /\ valid \in BOOLEAN
    BY DEF Init
  <2> QED
    BY <1>1, <2>1 DEF InPlace, Modes, WordBegun, WordSoFar, NumberSoFar, StringSoFar
<1>3. NewlinesBefore(0) = 0
  <2>1. 0 \in Nat /\ \A j \in 0 .. 0 - 1 : ~At(j, {"newline"})
    OBVIOUS
  <2> QED
    BY <2>1, NewlineSets
<1>4. PositionSoFar
  BY <1>1, <1>3 DEF PositionSoFar, ColumnAt, LineAt
<1>5. TokensSoFar
  BY <1>1 DEF TokensSoFar, PositionsSorted
<1>6. ExtentsSoFar
  BY <1>1 DEF ExtentsSoFar, Apart, Settled, Frontier
<1> QED
  BY <1>2, <1>4, <1>5, <1>6 DEF IndInv, ReadSoFar

(* It speaks of the variables only.                                        *)
LEMMA Stutter ==
  ASSUME IndInv, UNCHANGED vars
  PROVE  IndInv'
<1>1. UNCHANGED <<source, mode, pos, line, col, start, isFloat, valid, tokens>>
  BY DEF vars
<1>2. InPlace' /\ WordBegun' /\ WordSoFar' /\ NumberSoFar'
  BY <1>1 DEF IndInv, ReadSoFar, InPlace, WordBegun, WordSoFar, NumberSoFar, Separated, Point,
     At, Size
<1>3. StringSoFar' /\ PositionSoFar'
  BY <1>1 DEF IndInv, ReadSoFar, StringSoFar, PositionSoFar, Unescaped, Backslashed, ColumnAt,
     LineAt, NewlinesBefore, Separated, At, Size
<1>4. TokensSoFar'
  <2>1. TokenSet' = TokenSet
    BY <1>1 DEF TokenSet, Size
  <2>2. \A t : (Right(t)' <=> Right(t)) /\ (Reached(t)' <=> Reached(t))
    BY <1>1 DEF Reached, Right, EndsAtQuote, LineCounted, ColumnExact, Number, Maximal, Backslashed,
       NewlinesBefore, Separated, Point, At, Size
  <2> QED
    BY <1>1, <2>1, <2>2 DEF IndInv, TokensSoFar, PositionsSorted
<1>5. ExtentsSoFar'
  <2>1. \A l : Settled(l)' <=> Settled(l)
    BY <1>1 DEF Settled, Taken, InComment, CommentAt, At, Size
  <2>2. Apart' <=> Apart
    BY <1>1 DEF Apart
  <2>3. \A b : (BlockFrom(b)' <=> BlockFrom(b)) /\ (LineFrom(b)' <=> LineFrom(b))
    BY <1>1, <2>1 DEF BlockFrom, LineFrom, At, Size
  <2>4. Settled(Frontier)' <=> Settled(Frontier)
    BY <1>1 DEF Settled, Taken, InComment, CommentAt, At, Size, Frontier
  <2> QED
    BY <1>1, <2>2, <2>3, <2>4 DEF IndInv, ExtentsSoFar, Size
<1> QED
  BY <1>2, <1>3, <1>4, <1>5 DEF IndInv, ReadSoFar

(* The inductive invariant holds in every reachable state.                 *)
THEOREM Invariance == Spec => []IndInv
<1>1. Init => IndInv
  BY InitIndInv
<1>2. ASSUME IndInv, [Next]_vars
      PROVE  IndInv'
  <2>1. CASE Next
    <3>1. ReadSoFar'
      BY <1>2, <2>1, PlaceStep, WordStep, InWordStep, NumberStep, StringStep, PositionStep
      DEF IndInv, ReadSoFar
    <3> QED
      BY <1>2, <2>1, <3>1, TokensStep, ExtentsStep DEF IndInv
  <2>2. CASE UNCHANGED vars
    BY <1>2, <2>2, Stutter
  <2> QED
    BY <1>2, <2>1, <2>2
<1> QED
  BY <1>1, <1>2, PTL DEF Spec

(* What the inductive invariant says of the tokens.                        *)
LEMMA TokensInv ==
  ASSUME IndInv
  PROVE  /\ tokens \in Seq(TokenSet)
         /\ \A n \in DOMAIN tokens : Right(tokens[n])
         /\ PositionsSorted
BY DEF IndInv, TokensSoFar

(* No variable leaves its range: pos passes the end of the file by at most *)
(* two, and every lexeme lies in the file.                                 *)
THEOREM TypeCorrect == Spec => []TypeOK
<1>1. IndInv => TypeOK
  <2> SUFFICES ASSUME IndInv PROVE TypeOK
    OBVIOUS
  <2>1. InPlace
    BY DEF IndInv, ReadSoFar
  <2>2. /\ source \in Seq(STRING) /\ mode \in Modes /\ pos \in 0 .. Size + 2
        /\ line \in 1 .. Size + 1 /\ col \in 1 .. Size + 3 /\ start \in 0..Size
    BY <2>1 DEF InPlace
  <2>3. isFloat \in BOOLEAN /\ valid \in BOOLEAN
    BY <2>1 DEF InPlace
  <2>4. tokens \in Seq(TokenSet) /\ \A n \in DOMAIN tokens : tokens[n].from <= tokens[n].to
    BY TokensInv DEF Right
  <2> QED
    BY <2>2, <2>3, <2>4 DEF TypeOK, Modes, TokenSet
<1> QED
  BY <1>1, Invariance, PTL

(* In any text a string ends at the first quote no backslash escapes.      *)
THEOREM StringsCorrect == Spec => []StringsEndAtQuote
<1>1. IndInv => StringsEndAtQuote
  BY TokensInv DEF Right, StringsEndAtQuote
<1> QED
  BY <1>1, Invariance, PTL

(* A token's line is never too large, and exact where newlines are         *)
(* separated from words.                                                   *)
THEOREM LinesCorrect == Spec => []LinesCounted
<1>1. IndInv => LinesCounted
  BY TokensInv DEF Right, LinesCounted
<1> QED
  BY <1>1, Invariance, PTL

(* A token's column is exact on the first line.                            *)
THEOREM ColumnsCorrect == Spec => []FirstLineColumns
<1>1. IndInv => FirstLineColumns
  BY TokensInv DEF Right, FirstLineColumns
<1> QED
  BY <1>1, Invariance, PTL

(* Reported positions never go backwards.                                  *)
THEOREM PositionsCorrect == Spec => []PositionsSorted
<1>1. IndInv => PositionsSorted
  BY TokensInv
<1> QED
  BY <1>1, Invariance, PTL

(* A number has all the digits and points that can be of it, and no other. *)
THEOREM NumbersCorrect == Spec => []NumbersMaximal
<1>1. IndInv => NumbersMaximal
  BY TokensInv DEF Right, NumbersMaximal
<1> QED
  BY <1>1, Invariance, PTL

(* Nothing but blanks and comments is dropped, and nothing is of two       *)
(* tokens, in any text.                                                    *)
THEOREM DroppedCorrect == Spec => []NothingDropped
<1>1. IndInv => NothingDropped
  <2> SUFFICES ASSUME IndInv PROVE NothingDropped
    OBVIOUS
  <2>1. ExtentsSoFar /\ InPlace
    BY DEF IndInv, ReadSoFar
  <2>2. \A m, n \in DOMAIN tokens : m # n => Extent(tokens[m]) \cap Extent(tokens[n]) = {}
    BY <2>1 DEF ExtentsSoFar, Apart
  <2> DEFINE taken == UNION {Extent(tokens[n]) : n \in DOMAIN tokens}
             free  == (0 .. Size - 1) \ taken
  <2>3. ASSUME mode = "done", pos > 0, NEW k \in free
        PROVE  \/ At(k, Spaces \cup {"newline"})
               \/ \E b \in 0..k : \E e \in k .. Size - 1 : b..e \subseteq free /\ CommentAt(b, e)
    <3>1. Settled(pos) /\ pos >= Size /\ Size \in Nat
      BY <2>1, <2>3 DEF ExtentsSoFar, Frontier, InPlace
    <3>2. \A j : Taken(j) <=> j \in taken
      BY DEF Taken
    <3>3. k \in 0 .. Size - 1 /\ k < pos /\ ~Taken(k)
      BY <2>1, <3>1, <3>2 DEF InPlace
    <3>4. CASE InComment(k, pos)
      <4>1. PICK b \in 0..k, e \in k .. Size - 1 :
              (\A j \in b..e : ~Taken(j)) /\ CommentAt(b, e)
        BY <3>4 DEF InComment
      <4>2. b..e \subseteq free
        BY <3>1, <3>2, <3>3, <4>1
      <4> QED
        BY <4>1, <4>2
    <3> QED
      BY <3>1, <3>3, <3>4 DEF Settled
  <2> QED
    BY <2>2, <2>3 DEF NothingDropped
<1> QED
  BY <1>1, Invariance, PTL

(* Each step uses up some of a budget of 3n + 9 fixed by the text's length.*)
THEOREM WorkCorrect == Spec => WorkBounded
<1>1. IndInv /\ [Next]_vars => [Budget' < Budget /\ Budget' >= 0]_vars
  <2> SUFFICES ASSUME IndInv, Next, ~UNCHANGED vars
               PROVE  Budget' < Budget /\ Budget' >= 0
    OBVIOUS
  <2>1. Step
    BY DEF Next, Done
  <2> QED
    BY <2>1, BudgetStep DEF IndInv, ReadSoFar
<1> QED
  BY <1>1, Invariance, PTL DEF Spec, WorkBounded
=============================================================================
