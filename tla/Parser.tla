------------------------------- MODULE Parser -------------------------------
(***************************************************************************)
(* One parse: threadEntry of compiler/src/code/frontend/syntax.cpp on the  *)
(* tokens of one file, with ParseScope, ParseREG and the two helpers as    *)
(* frames of an explicit call stack. A step is one turn of the loop of the *)
(* function on top of the stack, or its return.                            *)
(*                                                                         *)
(* A turn that consumes nothing and leaves con alone repeats for ever:     *)
(* that is the action Spin, which changes nothing.                         *)
(*                                                                         *)
(* Token kinds are grouped by what the four switches do with them; "other" *)
(* is any kind none of them names, mem among them (it is consumed like a   *)
(* kind without a case).                                                   *)
(***************************************************************************)
EXTENDS Integers, Sequences

CONSTANTS
  Inputs     \* the token sequences a file may have

Arrows     == {"arrow_right", "arrow_left"}
(* struct override if while do switch return break continue                *)
Statements == {"statement"}

Kinds ==
  {"reg", "vreg", "identifier", "lbrace", "rbrace", "lt", "gt", "semicolon",
   "other"} \cup Arrows \cup Statements

ASSUME InputsAssumption == Inputs \subseteq Seq(Kinds)

VARIABLES
  tokens,    \* the tokens of the file
  pos,       \* the index all functions share by reference
  stack,     \* the active calls, the innermost last
  con,       \* the innermost call's loop condition, for callers still true
  me,        \* ParseREG's metaMove: which operands have been recorded
  iden,      \* the helper of a vreg operand has read its identifier
  status     \* "parsing", "done", or "crashed" for the whole process

vars == <<tokens, pos, stack, con, me, iden, status>>

Functions == {"ParseScope", "ParseREG", "ParseHelperREG", "ParseHelperCallVREG"}

Empty == [one |-> FALSE, two |-> FALSE]

Top == stack[Len(stack)]
More == pos < Len(tokens)
Kind == tokens[pos + 1]      \* the vector counts from 0

Init ==
  /\ tokens \in Inputs
  /\ pos = 0
  /\ stack = <<"ParseScope">>
  /\ con = TRUE
  /\ me = Empty
  /\ iden = FALSE
  /\ status = "parsing"

-----------------------------------------------------------------------------

(* The innermost call is of f and its loop makes a turn on a kind of K.    *)
Turn(f, K) ==
  /\ status = "parsing"
  /\ Top = f /\ con /\ More /\ Kind \in K
  /\ UNCHANGED <<tokens, status>>

Consume == pos' = pos + 1
Call(f) == stack' = Append(stack, f)

(* The case is left with a break: neither pos nor con has changed.         *)
StuckOn == [f \in Functions |->
  CASE f = "ParseScope" -> {"identifier"} \cup Statements
    [] f = "ParseREG" -> Kinds \ ({"reg", "vreg", "semicolon"} \cup Arrows)
    [] OTHER -> {"lt"}]

Spin ==
  /\ \E f \in Functions : Turn(f, StuckOn[f])
  /\ UNCHANGED <<pos, stack, con, me, iden>>

ScopeSkip ==
  /\ Turn("ParseScope", {"vreg", "gt", "lt", "semicolon", "other"} \cup Arrows)
  /\ Consume
  /\ UNCHANGED <<stack, con, me, iden>>

ScopeREG ==
  /\ Turn("ParseScope", {"reg"})
  /\ Consume
  /\ Call("ParseREG")
  /\ me' = Empty
  /\ UNCHANGED <<con, iden>>

(* Variants: the token after the brace is lost; the brace is not consumed. *)
ScopeOpenFar ==
  /\ Turn("ParseScope", {"lbrace"})
  /\ pos' = pos + 2
  /\ Call("ParseScope")
  /\ UNCHANGED <<con, me, iden>>

ScopeOpenInPlace ==
  /\ Turn("ParseScope", {"lbrace"})
  /\ Call("ParseScope")
  /\ UNCHANGED <<pos, con, me, iden>>

ScopeOpen ==
  /\ Turn("ParseScope", {"lbrace"})
  /\ Consume
  /\ Call("ParseScope")
  /\ UNCHANGED <<con, me, iden>>

(* Variant: the brace is consumed, and closes one block only.              *)
ScopeCloseOne ==
  /\ Turn("ParseScope", {"rbrace"})
  /\ Consume
  /\ con' = FALSE
  /\ UNCHANGED <<stack, me, iden>>

(* The brace ends the loop but stays where it is.                          *)
ScopeClose ==
  /\ Turn("ParseScope", {"rbrace"})
  /\ con' = FALSE
  /\ UNCHANGED <<pos, stack, me, iden>>

(* Variant: the arrow is not consumed.                                     *)
RegArrowInPlace ==
  /\ Turn("ParseREG", Arrows)
  /\ UNCHANGED <<pos, stack, con, me, iden>>

RegArrow ==
  /\ Turn("ParseREG", Arrows)
  /\ Consume
  /\ UNCHANGED <<stack, con, me, iden>>

(* reg and vreg: the helper is called while an operand is still missing.   *)
RegOperand ==
  /\ Turn("ParseREG", {"reg", "vreg"})
  /\ Consume
  /\ IF me.one /\ me.two
       THEN UNCHANGED stack
       ELSE Call(IF Kind = "reg" THEN "ParseHelperREG" ELSE "ParseHelperCallVREG")
  /\ iden' = FALSE
  /\ UNCHANGED <<con, me>>

RegEnd ==
  /\ Turn("ParseREG", {"semicolon"})
  /\ Consume
  /\ con' = FALSE
  /\ UNCHANGED <<stack, me, iden>>

Helpers == {"ParseHelperREG", "ParseHelperCallVREG"}

HelperSkip ==
  /\ \E f \in Helpers : Turn(f, Kinds \ {"gt", "lt"})
  /\ Consume
  /\ iden' = (iden \/ Kind = "identifier")
  /\ UNCHANGED <<stack, con, me>>

(* Variant: the > is consumed.                                             *)
HelperCloseConsuming ==
  /\ \E f \in Helpers : Turn(f, {"gt"})
  /\ Consume
  /\ con' = FALSE
  /\ UNCHANGED <<stack, me, iden>>

(* The > ends the loop but stays where it is.                              *)
HelperClose ==
  /\ \E f \in Helpers : Turn(f, {"gt"})
  /\ con' = FALSE
  /\ UNCHANGED <<pos, stack, me, iden>>

-----------------------------------------------------------------------------
LoopEnds == status = "parsing" /\ ~(con /\ More)

(* The caller's own con is still true: it called from inside its loop.     *)
Back ==
  /\ stack' = SubSeq(stack, 1, Len(stack) - 1)
  /\ con' = TRUE
  /\ UNCHANGED <<tokens, pos>>

ReturnToCaller ==
  /\ LoopEnds
  /\ Top \in {"ParseScope", "ParseREG"} /\ Len(stack) > 1
  /\ Back
  /\ UNCHANGED <<me, iden, status>>

(* The string a helper returns is the operand, whichever is still missing. *)
Record(filled) ==
  me' = IF ~me.one THEN [me EXCEPT !.one = filled] ELSE [me EXCEPT !.two = filled]

(* The identifier read last, or the empty string.                          *)
VregReturn ==
  /\ LoopEnds
  /\ Top = "ParseHelperCallVREG"
  /\ Back
  /\ Record(iden)
  /\ UNCHANGED <<iden, status>>

(* ParseHelperREG runs off its end without a return: the caller goes on    *)
(* with whatever is in the string, or, there or when the string is         *)
(* destroyed, the process dies of it.                                      *)
HelperRegFallsOff ==
  /\ LoopEnds
  /\ Top = "ParseHelperREG"
  /\ Back
  /\ \E filled \in BOOLEAN : Record(filled)
  /\ UNCHANGED <<iden, status>>

HelperRegCrash ==
  /\ LoopEnds
  /\ Top = "ParseHelperREG"
  /\ status' = "crashed"
  /\ UNCHANGED <<tokens, pos, stack, con, me, iden>>

Finish ==
  /\ LoopEnds
  /\ stack = <<"ParseScope">>
  /\ status' = "done"
  /\ UNCHANGED <<tokens, pos, stack, con, me, iden>>

Ended == status # "parsing" /\ UNCHANGED vars

-----------------------------------------------------------------------------
Step ==
  \/ ScopeSkip \/ ScopeREG \/ ScopeOpen \/ ScopeClose
  \/ RegArrow \/ RegOperand \/ RegEnd
  \/ HelperSkip \/ HelperClose
  \/ ReturnToCaller \/ VregReturn \/ HelperRegFallsOff
  \/ HelperRegCrash \/ Finish

Next == Step \/ Spin \/ Ended

Spec == Init /\ [][Next]_vars

(* The thread is scheduled.                                                *)
FairSpec == Spec /\ WF_vars(Step)

-----------------------------------------------------------------------------
(* What a parse does, read off its tokens without running it.              *)

(* Tokens i+1 to j are arrows.                                             *)
ArrowsOnly(t, i, j) == \A k \in i + 1 .. j : t[k] \in Arrows

(* The first k tokens are consumed and leave the parser between statements:*)
(* they are skipped or open a block, and every reg begins a move without   *)
(* operands, arrows up to a semicolon.                                     *)
Clean(t, k) ==
  \A j \in 1..k :
    /\ t[j] \in Kinds \ ({"identifier", "rbrace"} \cup Statements)
    /\ t[j] = "reg" =>
         \E m \in j + 1 .. k : t[m] = "semicolon" /\ ArrowsOnly(t, j, m - 1)

(* After k tokens the rest of the file is a move that the end of the file  *)
(* cuts off: at once, or inside an operand of the given kinds.             *)
CutOff(t, k) ==
  k < Len(t) /\ t[k + 1] = "reg" /\ ArrowsOnly(t, k + 1, Len(t))

CutOffIn(t, k, operands) ==
  /\ k < Len(t) /\ t[k + 1] = "reg"
  /\ \E m \in k + 2 .. Len(t) :
       /\ ArrowsOnly(t, k + 1, m - 1)
       /\ t[m] \in operands
       /\ \A j \in m + 1 .. Len(t) : t[j] \notin {"lt", "gt"}

(* A parse ends after reading e tokens.                                    *)
EndsAt(t, e) ==
  \E k \in 0..Len(t) :
    /\ Clean(t, k)
    /\ \/ e = k /\ k < Len(t) /\ t[k + 1] = "rbrace"
       \/ e = Len(t) /\ (k = e \/ CutOff(t, k) \/ CutOffIn(t, k, {"reg", "vreg"}))

(* It may end the process: a reg operand at the end of the file.           *)
MayCrash(t) == \E k \in 0..Len(t) : Clean(t, k) /\ CutOffIn(t, k, {"reg"})

(* A reg operand is read up to a > after which ParseREG never moves.       *)
MayCrashInOperand(t) ==
  \E k \in 0..Len(t) : \E m \in k + 2 .. Len(t) : \E g \in m + 1 .. Len(t) :
    /\ Clean(t, k) /\ t[k + 1] = "reg" /\ ArrowsOnly(t, k + 1, m - 1)
    /\ t[m] = "reg" /\ t[g] = "gt"
    /\ \A j \in m + 1 .. g - 1 : t[j] \notin {"lt", "gt"}

-----------------------------------------------------------------------------
(* Every variable stays in its range; pos never passes the end.            *)
TypeOK ==
  /\ tokens \in Seq(Kinds)
  /\ pos \in 0..Len(tokens)
  /\ stack \in Seq(Functions) /\ stack # <<>>
  /\ con \in BOOLEAN
  /\ me \in [one : BOOLEAN, two : BOOLEAN]
  /\ iden \in BOOLEAN
  /\ status \in {"parsing", "done", "crashed"}

(* A parse that ends has read the file up to the first closing brace that  *)
(* is not inside an operand, whatever blocks were open, or to its end; and *)
(* the process dies only after a register operand.                         *)
OutcomeExact ==
  /\ status = "done" => EndsAt(tokens, pos)
  /\ status = "crashed" => MayCrash(tokens) \/ MayCrashInOperand(tokens)

(* No input gets the parser to the second operand of a move: after the     *)
(* first it is at the end of the file or at a > it never consumes.         *)
SecondOperandUnread == ~me.two

(* Calls nest in one way only: blocks, in the innermost of them a move,    *)
(* and in the move an operand.                                             *)
CallsNest ==
  /\ stack[1] = "ParseScope"
  /\ \A k \in 2..Len(stack) :
       stack[k - 1] = IF stack[k] \in Helpers THEN "ParseREG" ELSE "ParseScope"

(* A helper is called for the first operand only. It leaves its caller at  *)
(* the end of the file or at a >, whichever string it returns.             *)
OperandOnce ==
  /\ Top \in Helpers => ~me.one /\ (con \/ (More /\ Kind = "gt"))
  /\ Top = "ParseREG" /\ me.one => con /\ (More => Kind = "gt")

(* The tokens read so far are statements and the beginning of a move, up   *)
(* to before an operand of it, or into the operand that token m begins.    *)
InMove == \E k \in 0 .. pos - 1 :
  Clean(tokens, k) /\ tokens[k + 1] = "reg" /\ ArrowsOnly(tokens, k + 1, pos)

InOperand(kind) == \E k \in 0..pos : \E m \in k + 2 .. pos :
  /\ Clean(tokens, k) /\ tokens[k + 1] = "reg" /\ ArrowsOnly(tokens, k + 1, m - 1)
  /\ tokens[m] = kind
  /\ \A j \in m + 1 .. pos : tokens[j] \notin {"lt", "gt"}

(* What a call knows of the tokens before pos, in the terms of EndsAt: a   *)
(* call that has been cut off by the end of the file passes that on.       *)
AtEnd == ~More /\ EndsAt(tokens, pos)

ReadSoFar ==
  status = "parsing" =>
    /\ Top = "ParseScope" =>
         \/ Clean(tokens, pos) /\ (con \/ (More /\ Kind = "rbrace"))
         \/ AtEnd
    /\ Top = "ParseREG" =>
         \/ con /\ (InMove \/ AtEnd \/ (More /\ Kind = "gt"))
         \/ ~con /\ Clean(tokens, pos)
    /\ Top = "ParseHelperREG" => InOperand("reg")
    /\ Top = "ParseHelperCallVREG" => InOperand("vreg")

(* What TypeOK, SecondOperandUnread and OutcomeExact rest on, conjoined    *)
(* with them.                                                              *)
IndInv ==
  TypeOK /\ CallsNest /\ OperandOnce /\ SecondOperandUnread /\ ReadSoFar /\ OutcomeExact

(* A turn that is not a Spin uses up a budget the input fixes, so that a   *)
(* parse of n tokens ends or begins to spin within 3n + 4 turns.           *)
Budget ==
  3 * (Len(tokens) - pos) + 2 * Len(stack)
    + (IF con THEN 1 ELSE 0) + (IF status = "parsing" THEN 1 ELSE 0)

WorkBounded == [][Budget' < Budget /\ Budget' >= 0]_vars

(* Exactly the files that EndsAt or a crash allow for come to an end.      *)
CleanFilesEnd ==
  (\E e \in 0..Len(tokens) : EndsAt(tokens, e)) ~> (status # "parsing")

=============================================================================
