------------------------------ MODULE MCLexer ------------------------------
(* Sources for checking Lexer, every text up to a length over an alphabet, *)
(* and what the repository says of some of them.                           *)
EXTENDS Lexer

CONSTANT MaxSize

(* Every text over an alphabet. One letter stands for any character of a   *)
(* word; "k" is a keyword.                                                 *)
Texts(alphabet) == UNION {[1..n -> alphabet] : n \in 0..MaxSize}

OneKeyword == {<<"k">>}

LayoutTexts == Texts({"newline", "space", "/", "*", "k", "<"})
QuoteTexts  == Texts({"newline", "doublequote", "quote", "backslash", "k"})
NumberTexts == Texts({"0", ".", "k", "="})

AllSources == LayoutTexts \cup QuoteTexts \cup NumberTexts

ArrowTexts == Texts({"<", "-", "k"})
WordTexts  == Texts({"k", "?", ":", "newline"})

Lexeme(n) == Text(tokens[n].from, tokens[n].to)
IsWord(n) == tokens[n].kind \in {"KEYWORD", "IDENTIFIER"}

(* tokenMapSymbols, lexerTokens.h:133, and the compiler reference, line 50,*)
(* have "<-" as one symbol: it is never split in two.                      *)
LeftArrowIsSymbol ==
  \A n \in DOMAIN tokens : n > 1 /\ Lexeme(n - 1) = <<"<">> /\ Lexeme(n) = <<"-">> =>
    tokens[n - 1].to < tokens[n].from

(* Control flow is written as in C (merix_language.md:253), where a line   *)
(* may end after a keyword such as else or do, and ? is a symbol           *)
(* (lexerTokens.h:145): no word holds a newline or a question mark.        *)
WordsEnd ==
  \A n \in DOMAIN tokens : IsWord(n) =>
    \A k \in DOMAIN Lexeme(n) : Lexeme(n)[k] \notin {"newline", "?"}
=============================================================================
