---------------------------- MODULE MCAstFactory ----------------------------
(* Calls for checking AstFactory: every data type over a struct, a nested  *)
(* struct or none, and every list of a few parameters.                     *)
EXTENDS AstFactory

CONSTANT MaxPara

AllDataTypes ==
  MetaDataTypes({<<>>, <<"s">>, <<"s", "t">>}, {NoReg, "r"}, {-1, 0, 1})

UpTo(S) == UNION {[1..n -> S] : n \in 0..MaxPara}

AllVRegs == [para : UpTo(Numerals), name : {"n"}, reg : {NoReg, "r"}, isCall : BOOLEAN]

Token(kind, number, lexeme) == [kind |-> kind, number |-> number, lexeme |-> lexeme]

Number(n) == [spelt |-> TRUE, value |-> n]

(* The lexeme of a token that is no number may be one too: a digit, or the *)
(* text of a string, a sign or a blank at its beginning.                   *)
Tokens ==
  {Token(kind, num, <<>>) : kind \in {"TOKEN_INTEGER", "TOKEN_FLOAT"}, num \in Numerals}
    \cup {Token("TOKEN_CHAR", NoNumber, s) : s \in {<<>>, <<"k">>, <<"\\", "k">>}}
    \cup {Token("TOKEN_STRING", NoNumber, s) : s \in {<<>>, <<"k", "\\", "k">>}}
    \cup {Token("TOKEN_CHAR", Number(1), <<"1">>),
          Token("TOKEN_STRING", Number(-1), <<"-", "1">>),
          Token("TOKEN_STRING", Number(1), <<" ", "1">>),
          Token("other", NoNumber, <<>>)}

AllArrays == [para : UpTo(Tokens), name : {"n"}, isCall : BOOLEAN]

AllCalls ==
  [fun : {"createDataType"}, info : AllDataTypes]
    \cup [fun : {"createVReg"}, info : AllVRegs]
    \cup [fun : {"createArray"}, info : AllArrays]
=============================================================================
