------------------------------ MODULE MCParser ------------------------------
(* Inputs for checking Parser: token sequences up to a length, and lines   *)
(* of the documentation.                                                   *)
EXTENDS Parser

CONSTANTS
  MaxTokens,   \* bound on the sequences of any kinds
  MaxDeep      \* bound on the sequences of blocks and operands

Sequences(K, max) == UNION {[1..n -> K] : n \in 0..max}

(* The lexer never produces arrow_left: see Lexer.                         *)
AllInputs ==
  Sequences(Kinds \ {"arrow_left"}, MaxTokens)
    \cup Sequences({"reg", "vreg", "identifier", "lbrace", "rbrace", "gt"}, MaxDeep)

(* merix_compiler(Planned).md:49   reg<r1> -> reg<r2>;                     *)
(* merix_compiler(Planned).md:97   vreg<x> -> vreg<y>;                     *)
(* The kinds the lexer gives reg<r1> and vreg<x>.                          *)
Operand(kind) == <<kind, "lt", "identifier", "gt">>
DocumentedMoves ==
  {Operand(kind) \o <<"arrow_right">> \o Operand(kind) \o <<"semicolon">> :
     kind \in {"reg", "vreg"}}

(* Every move the compiler reference documents is parsed to its end.       *)
DocumentedMovesParse == <>(status = "done")
=============================================================================
