---------------------------- MODULE ParserProofs ----------------------------
(***************************************************************************)
(* Proofs about Parser, for every set of token sequences, of any length:   *)
(* the inductive invariant IndInv; that the second operand of a move is    *)
(* never read; that where a parse ends is what its tokens say; and that it *)
(* makes boundedly many turns before it ends or spins.                     *)
(***************************************************************************)
EXTENDS Parser, SequenceTheorems, TLAPS

USE InputsAssumption DEF InputsAssumption

(* The initial state satisfies the inductive invariant.                    *)
LEMMA InitIndInv == Init => IndInv
<1> SUFFICES ASSUME Init PROVE IndInv
  OBVIOUS
<1>1. stack = <<"ParseScope">> /\ stack \in Seq(Functions) /\ Len(stack) = 1
  BY DEF Init, Functions
<1>2. TypeOK
  <2>1. tokens \in Seq(Kinds) /\ pos \in 0..Len(tokens)
    BY DEF Init
  <2>2. con \in BOOLEAN /\ iden \in BOOLEAN /\ status \in {"parsing", "done", "crashed"}
    BY DEF Init
  <2>3. me \in [one : BOOLEAN, two : BOOLEAN]
    BY DEF Init, Empty
  <2> QED
    BY <1>1, <2>1, <2>2, <2>3 DEF TypeOK
<1>3. CallsNest
  BY <1>1 DEF CallsNest
<1>4. OperandOnce /\ SecondOperandUnread
  BY <1>1 DEF Init, OperandOnce, SecondOperandUnread, Top, Helpers, Empty
<1>5. ReadSoFar /\ OutcomeExact
  <2>1. Top = "ParseScope" /\ pos = 0 /\ con /\ status = "parsing"
    BY <1>1 DEF Init, Top
  <2>2. Clean(tokens, pos)
    BY <2>1 DEF Clean
  <2> QED
    BY <2>1, <2>2 DEF ReadSoFar, OutcomeExact
<1> QED
  BY <1>2, <1>3, <1>4, <1>5 DEF IndInv

-----------------------------------------------------------------------------
(* Facts about the call stack.                                             *)

(* The stack has a top, which is a function, and a caller below it unless  *)
(* it is the outermost block.                                              *)
LEMMA TopOfStack ==
  ASSUME IndInv
  PROVE  /\ Len(stack) \in Nat \ {0}
         /\ Top \in Functions
         /\ Top # "ParseScope" => Len(stack) > 1
         /\ Len(stack) > 1 =>
              stack[Len(stack) - 1] =
                IF Top \in Helpers THEN "ParseREG" ELSE "ParseScope"
<1>1. stack \in Seq(Functions) /\ stack # <<>>
  BY DEF IndInv, TypeOK
<1>2. Len(stack) \in Nat \ {0}
  BY <1>1, EmptySeq
<1>3. Top \in Functions
  BY <1>1, <1>2, ElementOfSeq DEF Top
<1>4. Top # "ParseScope" => Len(stack) > 1
  BY <1>2 DEF Top, IndInv, CallsNest
<1>5. Len(stack) > 1 =>
        stack[Len(stack) - 1] = IF Top \in Helpers THEN "ParseREG" ELSE "ParseScope"
  BY <1>2 DEF Top, IndInv, CallsNest
<1> QED
  BY <1>2, <1>3, <1>4, <1>5

(* A call puts its function on the stack and leaves the rest as it is.     *)
LEMMA CallPushes ==
  ASSUME TypeOK, NEW f \in Functions, Call(f)
  PROVE  /\ stack' \in Seq(Functions) /\ stack' # <<>>
         /\ Len(stack') = Len(stack) + 1
         /\ Top' = f
         /\ \A k \in 1..Len(stack) : stack'[k] = stack[k]
BY AppendProperties DEF Call, TypeOK, Top

(* A return takes the innermost call off the stack.                        *)
LEMMA BackPops ==
  ASSUME TypeOK, Len(stack) > 1, Back
  PROVE  /\ stack' \in Seq(Functions) /\ stack' # <<>>
         /\ Len(stack') = Len(stack) - 1
         /\ Top' = stack[Len(stack) - 1]
         /\ \A k \in 1 .. Len(stack) - 1 : stack'[k] = stack[k]
<1> DEFINE n == Len(stack) - 1
<1>1. stack \in Seq(Functions)
  BY DEF TypeOK
<1>2. n \in Nat \ {0}
  <2>1. Len(stack) \in Nat
    BY <1>1
  <2>2. \A m \in Nat : m > 1 => m - 1 \in Nat \ {0}
    OBVIOUS
  <2> QED
    BY <2>1, <2>2
<1>3. \A k \in 1..n : stack[k] \in Functions
  BY <1>1, <1>2, ElementOfSeq
<1>4. stack' = SubSeq(stack, 1, n)
  BY DEF Back
<1>5. /\ SubSeq(stack, 1, n) \in Seq(Functions)
      /\ Len(SubSeq(stack, 1, n)) = n
      /\ \A k \in 1..n : SubSeq(stack, 1, n)[k] = stack[k]
  <2> HIDE DEF n
  <2>1. /\ SubSeq(stack, 1, n) \in Seq(Functions)
        /\ Len(SubSeq(stack, 1, n)) = IF 1 <= n THEN n - 1 + 1 ELSE 0
        /\ \A k \in 1 .. n - 1 + 1 : SubSeq(stack, 1, n)[k] = stack[1 + k - 1]
    BY <1>2, <1>3, SubSeqProperties
  <2> QED
    BY <1>2, <2>1
<1>6. stack' # <<>>
  BY <1>2, <1>4, <1>5
<1>7. Top' = stack[n]
  BY <1>2, <1>4, <1>5 DEF Top
<1> QED
  BY <1>4, <1>5, <1>6, <1>7

(* Every turn of a loop looks at a token of the file.                      *)
LEMMA TurnReads ==
  ASSUME TypeOK, NEW f, NEW K, Turn(f, K)
  PROVE  /\ status = "parsing" /\ con /\ Top = f
         /\ pos \in Nat /\ pos + 1 \in 0..Len(tokens)
         /\ Kind \in K /\ Kind \in Kinds
         /\ tokens' = tokens /\ status' = status
<1>1. pos + 1 \in 1..Len(tokens)
  BY DEF Turn, More, TypeOK
<1> QED
  BY <1>1, ElementOfSeq DEF Turn, TypeOK, Kind

-----------------------------------------------------------------------------
(* Types.                                                                  *)

(* A step keeps every variable in its range.                               *)
LEMMA TypeStep == IndInv /\ [Next]_vars => TypeOK'
<1> SUFFICES ASSUME IndInv, [Next]_vars PROVE TypeOK'
  OBVIOUS
<1> USE DEF IndInv
<1>0. /\ tokens \in Seq(Kinds) /\ pos \in 0..Len(tokens) /\ Len(tokens) \in Nat
      /\ stack \in Seq(Functions) /\ stack # <<>> /\ con \in BOOLEAN
      /\ me \in [one : BOOLEAN, two : BOOLEAN] /\ iden \in BOOLEAN
      /\ status \in {"parsing", "done", "crashed"}
  BY DEF TypeOK
<1>1. CASE ScopeSkip
  BY <1>0, <1>1, TurnReads DEF ScopeSkip, Consume, TypeOK
<1>2. CASE ScopeREG
  <2>1. Call("ParseREG") /\ "ParseREG" \in Functions
    BY <1>2 DEF ScopeREG, Functions
  <2> QED
    BY <1>0, <1>2, <2>1, TurnReads, CallPushes DEF ScopeREG, Consume, Empty, TypeOK
<1>3. CASE ScopeOpen
  <2>1. Call("ParseScope") /\ "ParseScope" \in Functions
    BY <1>3 DEF ScopeOpen, Functions
  <2> QED
    BY <1>0, <1>3, <2>1, TurnReads, CallPushes DEF ScopeOpen, Consume, TypeOK
<1>4. CASE ScopeClose
  BY <1>0, <1>4, TurnReads DEF ScopeClose, TypeOK
<1>5. CASE RegArrow
  BY <1>0, <1>5, TurnReads DEF RegArrow, Consume, TypeOK
<1>6. CASE RegOperand
  <2>1. stack' \in Seq(Functions) /\ stack' # <<>>
    <3>1. CASE UNCHANGED stack
      BY <1>0, <3>1
    <3>2. CASE Call("ParseHelperREG")
      BY <3>2, CallPushes DEF Functions
    <3>3. CASE Call("ParseHelperCallVREG")
      BY <3>3, CallPushes DEF Functions
    <3> QED
      BY <1>6, <3>1, <3>2, <3>3 DEF RegOperand
  <2> QED
    BY <1>0, <1>6, <2>1, TurnReads DEF RegOperand, Consume, TypeOK
<1>7. CASE RegEnd
  BY <1>0, <1>7, TurnReads DEF RegEnd, Consume, TypeOK
<1>8. CASE HelperSkip
  <2>1. PICK f \in Helpers : Turn(f, Kinds \ {"gt", "lt"})
    BY <1>8 DEF HelperSkip
  <2> QED
    BY <1>0, <1>8, <2>1, TurnReads DEF HelperSkip, Consume, TypeOK
<1>9. CASE HelperClose
  <2>1. PICK f \in Helpers : Turn(f, {"gt"})
    BY <1>9 DEF HelperClose
  <2> QED
    BY <1>0, <1>9, <2>1, TurnReads DEF HelperClose, TypeOK
<1>10. CASE ReturnToCaller
  BY <1>0, <1>10, BackPops DEF ReturnToCaller, Back, TypeOK
<1>11. ASSUME Back, Top \in Helpers, NEW filled \in BOOLEAN, Record(filled),
              UNCHANGED <<iden, status>>
       PROVE  TypeOK'
  <2>1. Len(stack) > 1
    BY <1>11, TopOfStack DEF Helpers
  <2>2. me' \in [one : BOOLEAN, two : BOOLEAN]
    BY <1>0, <1>11 DEF Record
  <2> QED
    BY <1>0, <1>11, <2>1, <2>2, BackPops DEF Back, TypeOK
<1>12. CASE VregReturn
  BY <1>0, <1>11, <1>12 DEF VregReturn, Helpers
<1>13. CASE HelperRegFallsOff
  BY <1>11, <1>13 DEF HelperRegFallsOff, Helpers
<1>14. CASE HelperRegCrash \/ Finish
  BY <1>0, <1>14 DEF HelperRegCrash, Finish, TypeOK
<1>15. CASE Spin
  BY <1>0, <1>15 DEF Spin, Turn, TypeOK
<1>16. CASE UNCHANGED vars
  BY <1>0, <1>16 DEF vars, TypeOK
<1> QED
  BY <1>1, <1>2, <1>3, <1>4, <1>5, <1>6, <1>7, <1>8, <1>9, <1>10, <1>12, <1>13,
     <1>14, <1>15, <1>16 DEF Next, Step, Ended

-----------------------------------------------------------------------------
(* The shape of the stack, and what a move has read.                       *)

(* A step keeps the calls nested: a move is called by a block only, an     *)
(* operand by a move only.                                                 *)
LEMMA NestStep == IndInv /\ [Next]_vars => CallsNest'
<1> SUFFICES ASSUME IndInv, [Next]_vars PROVE CallsNest'
  OBVIOUS
<1>0. TypeOK /\ CallsNest /\ Len(stack) \in Nat \ {0}
  BY TopOfStack DEF IndInv
<1>1. ASSUME NEW f \in Functions, Call(f),
             Top = IF f \in Helpers THEN "ParseREG" ELSE "ParseScope"
      PROVE  CallsNest'
  <2>1. /\ Len(stack') = Len(stack) + 1
        /\ stack'[Len(stack) + 1] = f
        /\ \A k \in 1..Len(stack) : stack'[k] = stack[k]
    BY <1>0, <1>1, CallPushes DEF Top
  <2> QED
    BY <1>0, <1>1, <2>1 DEF CallsNest, Top
<1>2. ASSUME Back, Len(stack) > 1
      PROVE  CallsNest'
  <2>1. /\ Len(stack') = Len(stack) - 1
        /\ \A k \in 1 .. Len(stack) - 1 : stack'[k] = stack[k]
    BY <1>0, <1>2, BackPops
  <2>2. stack'[1] = stack[1]
    BY <1>0, <1>2, <2>1
  <2>3. ASSUME NEW k \in 2 .. Len(stack) - 1
        PROVE  /\ stack'[k] = stack[k] /\ stack'[k - 1] = stack[k - 1]
               /\ k \in 2..Len(stack)
    BY <1>0, <2>1
  <2> QED
    BY <1>0, <2>1, <2>2, <2>3 DEF CallsNest
<1>3. ASSUME UNCHANGED stack
      PROVE  CallsNest'
  BY <1>0, <1>3 DEF CallsNest
<1>4. CASE ScopeREG
  <2>1. Top = "ParseScope" /\ Call("ParseREG")
    BY <1>4 DEF ScopeREG, Turn
  <2> QED
    BY <1>1, <2>1 DEF Functions, Helpers
<1>5. CASE ScopeOpen
  <2>1. Top = "ParseScope" /\ Call("ParseScope")
    BY <1>5 DEF ScopeOpen, Turn
  <2> QED
    BY <1>1, <2>1 DEF Functions, Helpers
<1>6. CASE RegOperand
  <2>1. Top = "ParseREG"
    BY <1>6 DEF RegOperand, Turn
  <2>2. \/ UNCHANGED stack
        \/ Call("ParseHelperREG")
        \/ Call("ParseHelperCallVREG")
    BY <1>6 DEF RegOperand
  <2> QED
    BY <1>1, <1>3, <2>1, <2>2 DEF Functions, Helpers
<1>7. CASE ReturnToCaller \/ VregReturn \/ HelperRegFallsOff
  BY <1>2, <1>7, TopOfStack DEF ReturnToCaller, VregReturn, HelperRegFallsOff
<1>8. CASE \/ ScopeSkip \/ ScopeClose \/ RegArrow \/ RegEnd \/ HelperSkip \/ HelperClose
           \/ HelperRegCrash \/ Finish \/ Spin \/ UNCHANGED vars
  <2>1. UNCHANGED stack
    BY <1>8 DEF ScopeSkip, ScopeClose, RegArrow, RegEnd, HelperSkip, HelperClose,
                HelperRegCrash, Finish, Spin, vars
  <2> QED
    BY <1>3, <2>1
<1> QED
  BY <1>4, <1>5, <1>6, <1>7, <1>8 DEF Next, Step, Ended

(* A step records no second operand: a helper that returns leaves ParseREG *)
(* at the end of the file or at a >, and there ParseREG calls nothing.     *)
LEMMA OperandStep == IndInv /\ [Next]_vars => (OperandOnce /\ SecondOperandUnread)'
<1> SUFFICES ASSUME IndInv, [Next]_vars PROVE (OperandOnce /\ SecondOperandUnread)'
  OBVIOUS
<1> USE DEF SecondOperandUnread
<1>0. /\ TypeOK /\ OperandOnce /\ ~me.two
      /\ con \in BOOLEAN /\ me \in [one : BOOLEAN, two : BOOLEAN]
      /\ Len(stack) \in Nat \ {0} /\ Top \in Functions
  BY TopOfStack DEF IndInv, TypeOK
<1>1. ASSUME Top' = "ParseScope", ~me'.two
      PROVE  (OperandOnce /\ SecondOperandUnread)'
  BY <1>1 DEF OperandOnce, Helpers
<1>2. ASSUME Top' = "ParseREG", ~me'.one, ~me'.two
      PROVE  (OperandOnce /\ SecondOperandUnread)'
  BY <1>2 DEF OperandOnce, Helpers
<1>3. ASSUME NEW f, NEW K, Turn(f, K), UNCHANGED <<stack, me>>,
             f = "ParseScope" \/ (f = "ParseREG" /\ "gt" \notin K)
      PROVE  (OperandOnce /\ SecondOperandUnread)'
  <2>1. con /\ More /\ Top = f /\ Top' = f /\ me' = me /\ Kind \in K
    BY <1>3 DEF Turn, Top
  <2>2. CASE f = "ParseScope"
    BY <1>0, <1>1, <2>1, <2>2
  <2>3. CASE f = "ParseREG" /\ "gt" \notin K
    <3>1. ~me.one
      BY <1>0, <2>1, <2>3 DEF OperandOnce
    <3> QED
      BY <1>0, <1>2, <2>1, <2>3, <3>1
  <2> QED
    BY <1>3, <2>2, <2>3
<1>4. CASE ScopeSkip
  BY <1>3, <1>4 DEF ScopeSkip
<1>5. CASE ScopeREG
  <2>1. Top' = "ParseREG"
    BY <1>0, <1>5, CallPushes DEF ScopeREG, Functions
  <2> QED
    BY <1>2, <1>5, <2>1 DEF ScopeREG, Empty
<1>6. CASE ScopeOpen
  <2>1. Top' = "ParseScope"
    BY <1>0, <1>6, CallPushes DEF ScopeOpen, Functions
  <2> QED
    BY <1>0, <1>1, <1>6, <2>1 DEF ScopeOpen
<1>7. CASE ScopeClose
  BY <1>3, <1>7 DEF ScopeClose
<1>8. CASE RegArrow
  BY <1>3, <1>8 DEF RegArrow, Arrows
<1>9. CASE RegOperand
  <2>1. Turn("ParseREG", {"reg", "vreg"}) /\ UNCHANGED <<con, me>>
    BY <1>9 DEF RegOperand
  <2>2. con /\ More /\ Top = "ParseREG" /\ Kind \in {"reg", "vreg"}
    BY <2>1 DEF Turn
  <2>3. ~me.one
    BY <1>0, <2>2 DEF OperandOnce
  <2>4. Call("ParseHelperREG") \/ Call("ParseHelperCallVREG")
    BY <1>9, <2>3 DEF RegOperand
  <2>5. Top' \in Helpers
    BY <1>0, <2>4, CallPushes DEF Functions, Helpers
  <2> QED
    BY <1>0, <2>1, <2>2, <2>3, <2>5 DEF OperandOnce, Helpers
<1>10. CASE RegEnd
  BY <1>3, <1>10 DEF RegEnd
<1>11. CASE HelperSkip
  <2>1. con /\ Top \in Helpers /\ Top' = Top /\ UNCHANGED <<con, me>>
    BY <1>11 DEF HelperSkip, Turn, Top
  <2> QED
    BY <1>0, <2>1 DEF OperandOnce, Helpers
<1>12. CASE HelperClose
  <2>1. /\ More /\ Kind = "gt" /\ Top \in Helpers /\ Top' = Top
        /\ UNCHANGED <<tokens, pos, me>>
    BY <1>12 DEF HelperClose, Turn, Top
  <2> QED
    BY <1>0, <2>1 DEF OperandOnce, Helpers, More, Kind
<1>13. CASE ReturnToCaller
  <2>1. Top' = "ParseScope"
    BY <1>0, <1>13, TopOfStack, BackPops DEF ReturnToCaller, Helpers
  <2> QED
    BY <1>0, <1>1, <1>13, <2>1 DEF ReturnToCaller
<1>14. ASSUME LoopEnds, Top \in Helpers, Back, NEW filled \in BOOLEAN, Record(filled)
       PROVE  (OperandOnce /\ SecondOperandUnread)'
  <2>1. Top' = "ParseREG"
    BY <1>0, <1>14, TopOfStack, BackPops DEF Helpers
  <2>2. con' /\ UNCHANGED <<tokens, pos>>
    BY <1>14 DEF Back
  <2>3. ~me.one /\ (More => Kind = "gt")
    BY <1>0, <1>14 DEF OperandOnce, LoopEnds
  <2>4. ~me'.two
    BY <1>0, <1>14, <2>3 DEF Record
  <2> QED
    BY <2>1, <2>2, <2>3, <2>4 DEF OperandOnce, Helpers, More, Kind
<1>15. CASE VregReturn
  <2>1. iden \in BOOLEAN
    BY DEF IndInv, TypeOK
  <2> QED
    BY <1>14, <1>15, <2>1 DEF VregReturn, Helpers
<1>16. CASE HelperRegFallsOff
  BY <1>14, <1>16 DEF HelperRegFallsOff, Helpers
<1>17. CASE HelperRegCrash \/ Finish \/ Spin \/ UNCHANGED vars
  <2>1. UNCHANGED <<tokens, pos, stack, con, me>>
    BY <1>17 DEF HelperRegCrash, Finish, Spin, Turn, vars
  <2> QED
    BY <1>0, <2>1 DEF OperandOnce, Top, More, Kind
<1> QED
  BY <1>4, <1>5, <1>6, <1>7, <1>8, <1>9, <1>10, <1>11, <1>12, <1>13, <1>15, <1>16,
     <1>17 DEF Next, Step, Ended

-----------------------------------------------------------------------------
(* What a parse has read, for OutcomeExact.                                *)

(* A token that is skipped or opens a block leaves the parser between      *)
(* statements.                                                             *)
LEMMA CleanToken ==
  ASSUME NEW t \in Seq(Kinds), NEW k \in Nat, k + 1 <= Len(t), Clean(t, k),
         t[k + 1] \notin {"identifier", "rbrace", "reg"} \cup Statements
  PROVE  Clean(t, k + 1)
<1>1. t[k + 1] \in Kinds
  BY ElementOfSeq
<1>2. ASSUME NEW j \in 1 .. k + 1
      PROVE  /\ t[j] \in Kinds \ ({"identifier", "rbrace"} \cup Statements)
             /\ t[j] = "reg" =>
                  \E m \in j + 1 .. k + 1 : t[m] = "semicolon" /\ ArrowsOnly(t, j, m - 1)
  <2>1. CASE j = k + 1
    BY <1>1, <2>1
  <2>2. CASE j \in 1..k
    BY <2>2 DEF Clean
  <2> QED
    BY <2>1, <2>2
<1> QED
  BY <1>2 DEF Clean

(* So does the semicolon that ends a move without operands.                *)
LEMMA CleanMove ==
  ASSUME NEW t \in Seq(Kinds), NEW k \in Nat, NEW p \in Nat, k < p, p + 1 <= Len(t),
         Clean(t, k), t[k + 1] = "reg", ArrowsOnly(t, k + 1, p),
         t[p + 1] = "semicolon"
  PROVE  Clean(t, p + 1)
<1>1. \A j \in 1 .. p + 1 : t[j] \in Kinds
  BY ElementOfSeq
<1>2. ASSUME NEW j \in 1 .. p + 1
      PROVE  /\ t[j] \in Kinds \ ({"identifier", "rbrace"} \cup Statements)
             /\ t[j] = "reg" =>
                  \E m \in j + 1 .. p + 1 : t[m] = "semicolon" /\ ArrowsOnly(t, j, m - 1)
  <2>1. CASE j \in 1..k
    BY <2>1 DEF Clean
  <2>2. CASE j = k + 1
    <3>1. p + 1 \in j + 1 .. p + 1 /\ ArrowsOnly(t, j, (p + 1) - 1)
      BY <2>2
    <3> QED
      BY <1>1, <2>2, <3>1 DEF Statements
  <2>3. CASE j \in k + 2 .. p
    BY <1>1, <2>3 DEF ArrowsOnly, Arrows, Statements
  <2>4. CASE j = p + 1
    BY <1>1, <2>4 DEF Statements
  <2> QED
    BY <2>1, <2>2, <2>3, <2>4
<1> QED
  BY <1>2 DEF Clean

(* At the end of the file a move cut off between its operands ends.        *)
LEMMA CutOffEnds ==
  ASSUME TypeOK, InMove, ~More
  PROVE  AtEnd
<1>1. pos = Len(tokens) /\ pos \in Nat
  BY DEF More, TypeOK
<1>2. PICK k \in 0 .. pos - 1 :
        Clean(tokens, k) /\ tokens[k + 1] = "reg" /\ ArrowsOnly(tokens, k + 1, pos)
  BY DEF InMove
<1>3. k \in 0..Len(tokens) /\ CutOff(tokens, k)
  BY <1>1, <1>2 DEF CutOff
<1> QED
  BY <1>1, <1>2, <1>3 DEF AtEnd, EndsAt

(* So does one cut off inside an operand, and a reg operand may be fatal.  *)
LEMMA CutOffInEnds ==
  ASSUME TypeOK, NEW kind \in {"reg", "vreg"}, InOperand(kind), ~More
  PROVE  AtEnd /\ (kind = "reg" => MayCrash(tokens))
<1>1. pos = Len(tokens) /\ pos \in Nat
  BY DEF More, TypeOK
<1>2. PICK k \in 0..pos : \E m \in k + 2 .. pos :
        /\ Clean(tokens, k) /\ tokens[k + 1] = "reg" /\ ArrowsOnly(tokens, k + 1, m - 1)
        /\ tokens[m] = kind
        /\ \A j \in m + 1 .. pos : tokens[j] \notin {"lt", "gt"}
  BY DEF InOperand
<1>3. k \in 0..Len(tokens) /\ k < Len(tokens) /\ Clean(tokens, k)
  BY <1>1, <1>2
<1>4. CutOffIn(tokens, k, {"reg", "vreg"}) /\ CutOffIn(tokens, k, {kind})
  BY <1>1, <1>2, <1>3 DEF CutOffIn
<1> QED
  BY <1>1, <1>3, <1>4 DEF AtEnd, EndsAt, MayCrash

(* A reg operand that has been read up to a > may be fatal too.            *)
LEMMA OperandMayCrash ==
  ASSUME TypeOK, InOperand("reg"), More, Kind = "gt"
  PROVE  MayCrashInOperand(tokens)
<1>1. pos \in Nat /\ pos + 1 \in 1..Len(tokens) /\ tokens[pos + 1] = "gt"
  BY DEF More, Kind, TypeOK
<1>2. PICK k \in 0..pos : \E m \in k + 2 .. pos :
        /\ Clean(tokens, k) /\ tokens[k + 1] = "reg" /\ ArrowsOnly(tokens, k + 1, m - 1)
        /\ tokens[m] = "reg"
        /\ \A j \in m + 1 .. pos : tokens[j] \notin {"lt", "gt"}
  BY DEF InOperand
<1>3. PICK m \in k + 2 .. pos :
        /\ Clean(tokens, k) /\ tokens[k + 1] = "reg" /\ ArrowsOnly(tokens, k + 1, m - 1)
        /\ tokens[m] = "reg"
        /\ \A j \in m + 1 .. pos : tokens[j] \notin {"lt", "gt"}
  BY <1>2
<1>4. /\ k \in 0..Len(tokens) /\ m \in k + 2 .. Len(tokens)
      /\ pos + 1 \in m + 1 .. Len(tokens) /\ (pos + 1) - 1 = pos
  BY <1>1
<1> QED
  BY <1>1, <1>3, <1>4 DEF MayCrashInOperand

(* A step keeps what a call knows of the tokens read; the outcome follows. *)
LEMMA ReadStep == IndInv /\ [Next]_vars => (ReadSoFar /\ OutcomeExact)'
<1> SUFFICES ASSUME IndInv, [Next]_vars PROVE (ReadSoFar /\ OutcomeExact)'
  OBVIOUS
<1>0. /\ TypeOK /\ ReadSoFar /\ OutcomeExact /\ OperandOnce
      /\ tokens \in Seq(Kinds) /\ pos \in 0..Len(tokens) /\ Len(tokens) \in Nat
      /\ con \in BOOLEAN /\ Top \in Functions
  BY TopOfStack DEF IndInv, TypeOK
<1>a. ASSUME status' = "parsing", Top' = "ParseScope", con', Clean(tokens', pos')
      PROVE  (ReadSoFar /\ OutcomeExact)'
  BY <1>a DEF ReadSoFar, OutcomeExact
<1>b. ASSUME status' = "parsing", Top' = "ParseREG", con', InMove'
      PROVE  (ReadSoFar /\ OutcomeExact)'
  BY <1>b DEF ReadSoFar, OutcomeExact
<1>e. ASSUME status' = "parsing", Top' = "ParseHelperREG", InOperand("reg")'
      PROVE  (ReadSoFar /\ OutcomeExact)'
  BY <1>e DEF ReadSoFar, OutcomeExact
<1>f. ASSUME status' = "parsing", Top' = "ParseHelperCallVREG", InOperand("vreg")'
      PROVE  (ReadSoFar /\ OutcomeExact)'
  BY <1>f DEF ReadSoFar, OutcomeExact
<1>c. ASSUME NEW K, Turn("ParseScope", K)
      PROVE  Clean(tokens, pos)
  BY <1>0, <1>c DEF Turn, ReadSoFar, AtEnd
<1>d. ASSUME NEW K, Turn("ParseREG", K), "gt" \notin K
      PROVE  InMove
  BY <1>0, <1>d DEF Turn, ReadSoFar, AtEnd
<1>1. CASE ScopeSkip
  <2> DEFINE K == {"vreg", "gt", "lt", "semicolon", "other"} \cup Arrows
  <2>1. Turn("ParseScope", K) /\ pos' = pos + 1 /\ UNCHANGED <<stack, con>>
    BY <1>1 DEF ScopeSkip, Consume
  <2>2. Kind \in K /\ pos \in Nat /\ pos + 1 <= Len(tokens) /\ con
        /\ tokens' = tokens /\ status' = "parsing" /\ Top' = "ParseScope"
    BY <1>0, <2>1, TurnReads DEF Top
  <2>3. Clean(tokens, pos + 1)
    BY <1>0, <1>c, <2>1, <2>2, CleanToken DEF Kind, Arrows, Statements
  <2> QED
    BY <1>a, <2>1, <2>2, <2>3
<1>2. CASE ScopeOpen
  <2>1. Turn("ParseScope", {"lbrace"}) /\ pos' = pos + 1 /\ UNCHANGED con
    BY <1>2 DEF ScopeOpen, Consume
  <2>2. /\ Kind = "lbrace" /\ pos \in Nat /\ pos + 1 <= Len(tokens) /\ con
        /\ tokens' = tokens /\ status' = "parsing"
    BY <1>0, <2>1, TurnReads
  <2>3. Top' = "ParseScope"
    BY <1>0, <1>2, CallPushes DEF ScopeOpen, Functions
  <2>4. Clean(tokens, pos + 1)
    BY <1>0, <1>c, <2>1, <2>2, CleanToken DEF Kind, Statements
  <2> QED
    BY <1>a, <2>1, <2>2, <2>3, <2>4
<1>3. CASE ScopeREG
  <2>1. Turn("ParseScope", {"reg"}) /\ pos' = pos + 1 /\ UNCHANGED con
    BY <1>3 DEF ScopeREG, Consume
  <2>2. /\ tokens[pos + 1] = "reg" /\ pos \in Nat /\ con
        /\ tokens' = tokens /\ status' = "parsing"
    BY <1>0, <2>1, TurnReads DEF Kind
  <2>3. Top' = "ParseREG"
    BY <1>0, <1>3, CallPushes DEF ScopeREG, Functions
  <2>4. Clean(tokens, pos)
    BY <1>c, <2>1
  <2>5. InMove'
    <3>1. ArrowsOnly(tokens, pos + 1, pos + 1)
      BY <2>2 DEF ArrowsOnly
    <3>2. pos \in 0 .. pos' - 1
      BY <2>1, <2>2
    <3> QED
      BY <2>1, <2>2, <2>4, <3>1, <3>2 DEF InMove
  <2> QED
    BY <1>b, <2>1, <2>2, <2>3, <2>5
<1>4. CASE ScopeClose
  <2>1. Turn("ParseScope", {"rbrace"}) /\ UNCHANGED <<pos, stack>>
    BY <1>4 DEF ScopeClose
  <2>2. /\ Top' = "ParseScope" /\ tokens' = tokens /\ status' = "parsing"
        /\ More /\ Kind = "rbrace"
    BY <2>1 DEF Turn, Top
  <2>3. Clean(tokens, pos)
    BY <1>c, <2>1
  <2> QED
    BY <2>1, <2>2, <2>3 DEF ReadSoFar, OutcomeExact, More, Kind
<1>5. CASE RegArrow
  <2>1. Turn("ParseREG", Arrows) /\ pos' = pos + 1 /\ UNCHANGED <<stack, con>>
    BY <1>5 DEF RegArrow, Consume
  <2>2. /\ tokens[pos + 1] \in Arrows /\ pos \in Nat /\ con
        /\ tokens' = tokens /\ status' = "parsing" /\ Top' = "ParseREG"
    BY <1>0, <2>1, TurnReads DEF Kind, Top
  <2>3. PICK k \in 0 .. pos - 1 :
          Clean(tokens, k) /\ tokens[k + 1] = "reg" /\ ArrowsOnly(tokens, k + 1, pos)
    BY <1>d, <2>1 DEF InMove, Arrows
  <2>4. ArrowsOnly(tokens, k + 1, pos + 1)
    BY <2>2, <2>3 DEF ArrowsOnly
  <2>5. InMove'
    <3>1. k \in 0 .. pos' - 1
      BY <2>1, <2>2
    <3> QED
      BY <2>1, <2>2, <2>3, <2>4, <3>1 DEF InMove
  <2> QED
    BY <1>b, <2>1, <2>2, <2>5
<1>6. CASE RegOperand
  <2>1. Turn("ParseREG", {"reg", "vreg"}) /\ pos' = pos + 1 /\ UNCHANGED con
    BY <1>6 DEF RegOperand, Consume
  <2>2. /\ tokens[pos + 1] = Kind /\ Kind \in {"reg", "vreg"} /\ pos \in Nat /\ con
        /\ tokens' = tokens /\ status' = "parsing" /\ Top = "ParseREG" /\ More
    BY <1>0, <2>1, TurnReads DEF Kind, Turn
  <2>3. PICK k \in 0 .. pos - 1 :
          Clean(tokens, k) /\ tokens[k + 1] = "reg" /\ ArrowsOnly(tokens, k + 1, pos)
    BY <1>d, <2>1 DEF InMove
  <2>4. ASSUME NEW kind, tokens[pos + 1] = kind
        PROVE  InOperand(kind)'
    <3>1. /\ k \in 0..pos' /\ pos + 1 \in k + 2 .. pos' /\ (pos + 1) - 1 = pos
          /\ (pos + 1) + 1 .. pos' = {}
      BY <2>1, <2>2
    <3> QED
      BY <2>2, <2>3, <2>4, <3>1 DEF InOperand
  <2>5. ~me.one
    BY <1>0, <2>1, <2>2 DEF OperandOnce
  <2>6. CASE Kind = "reg"
    <3>1. Top' = "ParseHelperREG"
      BY <1>0, <1>6, <2>5, <2>6, CallPushes DEF RegOperand, Functions
    <3> QED
      BY <1>e, <2>2, <2>4, <2>6, <3>1
  <2>7. CASE Kind = "vreg"
    <3>1. Top' = "ParseHelperCallVREG"
      BY <1>0, <1>6, <2>5, <2>7, CallPushes DEF RegOperand, Functions
    <3> QED
      BY <1>f, <2>2, <2>4, <2>7, <3>1
  <2> QED
    BY <2>2, <2>6, <2>7
<1>7. CASE RegEnd
  <2>1. Turn("ParseREG", {"semicolon"}) /\ pos' = pos + 1 /\ ~con' /\ UNCHANGED stack
    BY <1>7 DEF RegEnd, Consume
  <2>2. /\ tokens[pos + 1] = "semicolon" /\ pos \in Nat /\ pos + 1 <= Len(tokens)
        /\ tokens' = tokens /\ status' = "parsing" /\ Top' = "ParseREG"
    BY <1>0, <2>1, TurnReads DEF Kind, Top
  <2>3. PICK k \in 0 .. pos - 1 :
          Clean(tokens, k) /\ tokens[k + 1] = "reg" /\ ArrowsOnly(tokens, k + 1, pos)
    BY <1>d, <2>1 DEF InMove
  <2>4. Clean(tokens, pos + 1)
    <3>1. k \in Nat /\ k < pos
      BY <2>2
    <3> QED
      BY <1>0, <2>2, <2>3, <3>1, CleanMove
  <2> QED
    BY <2>1, <2>2, <2>4 DEF ReadSoFar, OutcomeExact
<1>8. CASE HelperSkip
  <2>1. PICK f \in Helpers : Turn(f, Kinds \ {"gt", "lt"})
    BY <1>8 DEF HelperSkip
  <2>2. /\ tokens[pos + 1] \notin {"gt", "lt"} /\ pos \in Nat /\ pos' = pos + 1
        /\ tokens' = tokens /\ status = "parsing" /\ status' = "parsing"
        /\ Top = f /\ Top' = f
    BY <1>0, <1>8, <2>1, TurnReads DEF HelperSkip, Consume, Kind, Top
  <2>3. ASSUME NEW kind, InOperand(kind)
        PROVE  InOperand(kind)'
    <3>1. PICK k \in 0..pos : \E m \in k + 2 .. pos :
            /\ Clean(tokens, k) /\ tokens[k + 1] = "reg"
            /\ ArrowsOnly(tokens, k + 1, m - 1) /\ tokens[m] = kind
            /\ \A j \in m + 1 .. pos : tokens[j] \notin {"lt", "gt"}
      BY <2>3 DEF InOperand
    <3>2. PICK m \in k + 2 .. pos :
            /\ Clean(tokens, k) /\ tokens[k + 1] = "reg"
            /\ ArrowsOnly(tokens, k + 1, m - 1) /\ tokens[m] = kind
            /\ \A j \in m + 1 .. pos : tokens[j] \notin {"lt", "gt"}
      BY <3>1
    <3>3. k \in 0..pos' /\ m \in k + 2 .. pos'
      BY <2>2
    <3>4. \A j \in m + 1 .. pos' : tokens[j] \notin {"lt", "gt"}
      BY <2>2, <3>2
    <3> QED
      BY <2>2, <3>2, <3>3, <3>4 DEF InOperand
  <2>4. CASE f = "ParseHelperREG"
    BY <1>0, <1>e, <2>2, <2>3, <2>4 DEF ReadSoFar
  <2>5. CASE f = "ParseHelperCallVREG"
    BY <1>0, <1>f, <2>2, <2>3, <2>5 DEF ReadSoFar
  <2> QED
    BY <2>4, <2>5 DEF Helpers
<1>9. CASE HelperClose
  <2>1. /\ UNCHANGED <<tokens, pos, stack, status>> /\ status = "parsing"
        /\ Top \in Helpers /\ Top' = Top
    BY <1>9 DEF HelperClose, Turn, Top
  <2>2. \A kind : InOperand(kind) => InOperand(kind)'
    BY <2>1 DEF InOperand
  <2> QED
    BY <1>0, <1>e, <1>f, <2>1, <2>2 DEF ReadSoFar, Helpers
<1>10. CASE ReturnToCaller
  <2>1. /\ LoopEnds /\ Len(stack) > 1 /\ Top \in {"ParseScope", "ParseREG"}
        /\ con' /\ UNCHANGED <<tokens, pos>>
        /\ status = "parsing" /\ status' = "parsing"
    BY <1>10 DEF ReturnToCaller, Back, LoopEnds
  <2>2. Top' = "ParseScope"
    BY <1>0, <1>10, TopOfStack, BackPops DEF ReturnToCaller, Helpers
  <2>3. Clean(tokens, pos) \/ AtEnd
    <3>1. CASE Top = "ParseScope"
      BY <1>0, <2>1, <3>1 DEF ReadSoFar
    <3>2. CASE Top = "ParseREG" /\ ~con
      BY <1>0, <2>1, <3>2 DEF ReadSoFar
    <3>3. CASE Top = "ParseREG" /\ con
      BY <1>0, <2>1, <3>3, CutOffEnds DEF ReadSoFar, LoopEnds
    <3> QED
      BY <2>1, <3>1, <3>2, <3>3
  <2>4. AtEnd => AtEnd'
    BY <2>1 DEF AtEnd, More
  <2> QED
    BY <2>1, <2>2, <2>3, <2>4 DEF ReadSoFar, OutcomeExact
<1>11. CASE VregReturn \/ HelperRegFallsOff
  <2>1. /\ LoopEnds /\ Top \in Helpers /\ Back /\ con' /\ UNCHANGED <<tokens, pos>>
        /\ status = "parsing" /\ status' = "parsing"
    BY <1>11 DEF VregReturn, HelperRegFallsOff, Back, LoopEnds, Helpers
  <2>2. Top' = "ParseREG"
    BY <1>0, <2>1, TopOfStack, BackPops DEF Helpers
  <2>3. AtEnd \/ (More /\ Kind = "gt")
    <3>1. InOperand("reg") \/ InOperand("vreg")
      BY <1>0, <2>1 DEF ReadSoFar, Helpers
    <3>2. ~More => AtEnd
      BY <1>0, <3>1, CutOffInEnds
    <3>3. More => Kind = "gt"
      BY <1>0, <2>1 DEF OperandOnce, LoopEnds
    <3> QED
      BY <3>2, <3>3
  <2>4. (AtEnd \/ (More /\ Kind = "gt"))'
    BY <2>1, <2>3 DEF AtEnd, More, Kind
  <2> QED
    BY <2>1, <2>2, <2>4 DEF ReadSoFar, OutcomeExact
<1>12. CASE HelperRegCrash
  <2>1. /\ LoopEnds /\ Top = "ParseHelperREG" /\ UNCHANGED tokens
        /\ status = "parsing" /\ status' = "crashed"
    BY <1>12 DEF HelperRegCrash, LoopEnds
  <2>2. InOperand("reg")
    BY <1>0, <2>1 DEF ReadSoFar
  <2>3. More => Kind = "gt"
    BY <1>0, <2>1 DEF OperandOnce, LoopEnds, Helpers
  <2>4. MayCrash(tokens) \/ MayCrashInOperand(tokens)
    BY <1>0, <2>2, <2>3, CutOffInEnds, OperandMayCrash
  <2> QED
    BY <2>1, <2>4 DEF ReadSoFar, OutcomeExact
<1>13. CASE Finish
  <2>1. /\ LoopEnds /\ Top = "ParseScope" /\ UNCHANGED <<tokens, pos>>
        /\ status = "parsing" /\ status' = "done"
    BY <1>13 DEF Finish, LoopEnds, Top
  <2>2. EndsAt(tokens, pos)
    <3>1. CASE AtEnd
      BY <3>1 DEF AtEnd
    <3>2. CASE Clean(tokens, pos) /\ con
      <4>1. pos = Len(tokens)
        BY <1>0, <2>1, <3>2 DEF LoopEnds, More
      <4> QED
        BY <1>0, <3>2, <4>1 DEF EndsAt
    <3>3. CASE Clean(tokens, pos) /\ More /\ Kind = "rbrace"
      BY <1>0, <3>3 DEF EndsAt, More, Kind
    <3> QED
      BY <1>0, <2>1, <3>1, <3>2, <3>3 DEF ReadSoFar
  <2> QED
    BY <2>1, <2>2 DEF ReadSoFar, OutcomeExact
<1>14. CASE Spin \/ UNCHANGED vars
  <2>1. UNCHANGED <<tokens, pos, stack, con, status>>
    BY <1>14 DEF Spin, Turn, vars
  <2>2. \A kind : InOperand(kind) => InOperand(kind)'
    BY <2>1 DEF InOperand
  <2>3. /\ Top' = Top /\ More' = More /\ Kind' = Kind
        /\ InMove => InMove'
        /\ AtEnd => AtEnd'
    BY <2>1 DEF Top, More, Kind, InMove, AtEnd
  <2>4. ReadSoFar'
    BY <1>0, <2>1, <2>2, <2>3 DEF ReadSoFar
  <2> QED
    BY <1>0, <2>1, <2>4 DEF OutcomeExact
<1> QED
  BY <1>1, <1>2, <1>3, <1>4, <1>5, <1>6, <1>7, <1>8, <1>9, <1>10, <1>11, <1>12,
     <1>13, <1>14 DEF Next, Step, Ended

-----------------------------------------------------------------------------
(* Every step but a Spin uses up some of the budget: a token of it is      *)
(* worth more than a call, and a call more than the loop it interrupts.    *)
LEMMA BudgetStep == IndInv /\ [Next]_vars => [Budget' < Budget /\ Budget' >= 0]_vars
<1> SUFFICES ASSUME IndInv, Next, vars' # vars
             PROVE  Budget' < Budget /\ Budget' >= 0
  OBVIOUS
<1>0. TypeOK /\ TypeOK' /\ con \in BOOLEAN /\ con' \in BOOLEAN
  BY TypeStep DEF IndInv, TypeOK
<1>1. /\ pos \in Nat /\ pos' \in Nat /\ Len(tokens) \in Nat
      /\ pos' <= Len(tokens') /\ Len(tokens') \in Nat
      /\ Len(stack) \in Nat \ {0} /\ Len(stack') \in Nat
  BY <1>0, TopOfStack DEF TypeOK
<1>2. tokens' = tokens
  BY DEF Next, Step, Spin, Ended, ScopeSkip, ScopeREG, ScopeOpen, ScopeClose, RegArrow,
         RegOperand, RegEnd, HelperSkip, HelperClose, ReturnToCaller, VregReturn,
         HelperRegFallsOff, HelperRegCrash, Finish, Turn, Back, vars
<1>3. Budget' >= 0
  <2>1. /\ 3 * (Len(tokens') - pos') \in Nat /\ 2 * Len(stack') \in Nat
        /\ (IF con' THEN 1 ELSE 0) \in Nat /\ (IF status' = "parsing" THEN 1 ELSE 0) \in Nat
    BY <1>1
  <2> QED
    BY <2>1 DEF Budget
<1> SUFFICES Budget' < Budget
  BY <1>3
<1>4. ASSUME NEW f, NEW K, Turn(f, K), Consume, con' => con,
             Len(stack') <= Len(stack) + 1
      PROVE  Budget' < Budget
  BY <1>0, <1>1, <1>2, <1>4 DEF Turn, Consume, Budget
<1>5. ASSUME Len(stack') = Len(stack), pos' = pos, con' = con,
             status = "parsing", status' # "parsing"
      PROVE  Budget' < Budget
  BY <1>1, <1>2, <1>5 DEF Budget
<1>6. ASSUME NEW f, NEW K, Turn(f, K), UNCHANGED <<pos, stack>>, ~con'
      PROVE  Budget' < Budget
  BY <1>0, <1>1, <1>2, <1>6 DEF Turn, Budget
<1>7. ASSUME Len(stack) > 1, Back, status' = status
      PROVE  Budget' < Budget
  <2>1. Len(stack') = Len(stack) - 1
    BY <1>0, <1>7, BackPops
  <2>2. pos' = pos
    BY <1>7 DEF Back
  <2> QED
    BY <1>1, <1>2, <1>7, <2>1, <2>2 DEF Budget
<1>8. CASE ScopeSkip \/ RegArrow \/ RegEnd
  BY <1>1, <1>4, <1>8 DEF ScopeSkip, RegArrow, RegEnd
<1>9. CASE ScopeREG \/ ScopeOpen
  <2>1. Len(stack') = Len(stack) + 1
    BY <1>0, <1>9, CallPushes DEF ScopeREG, ScopeOpen, Functions
  <2> QED
    BY <1>1, <1>4, <1>9, <2>1 DEF ScopeREG, ScopeOpen
<1>10. CASE RegOperand
  <2>1. UNCHANGED stack \/ Call("ParseHelperREG") \/ Call("ParseHelperCallVREG")
    BY <1>10 DEF RegOperand
  <2>2. Len(stack') <= Len(stack) + 1
    BY <1>0, <1>1, <2>1, CallPushes DEF Functions
  <2> QED
    BY <1>4, <1>10, <2>2 DEF RegOperand
<1>11. CASE HelperSkip
  <2>1. PICK f \in Helpers : Turn(f, Kinds \ {"gt", "lt"})
    BY <1>11 DEF HelperSkip
  <2> QED
    BY <1>1, <1>4, <1>11, <2>1 DEF HelperSkip
<1>12. CASE ScopeClose \/ HelperClose
  BY <1>6, <1>12 DEF ScopeClose, HelperClose
<1>13. CASE ReturnToCaller \/ VregReturn \/ HelperRegFallsOff
  BY <1>7, <1>13, TopOfStack DEF ReturnToCaller, VregReturn, HelperRegFallsOff
<1>14. CASE HelperRegCrash \/ Finish
  BY <1>5, <1>14 DEF HelperRegCrash, Finish, LoopEnds
<1>15. CASE Spin \/ Ended
  BY <1>15 DEF Spin, Turn, Ended, vars
<1> QED
  BY <1>8, <1>9, <1>10, <1>11, <1>12, <1>13, <1>14, <1>15 DEF Next, Step

-----------------------------------------------------------------------------
(* The inductive invariant holds in every reachable state, for token       *)
(* sequences of any length.                                                *)
THEOREM Invariance == Spec => []IndInv
<1>1. IndInv /\ [Next]_vars => IndInv'
  BY TypeStep, NestStep, OperandStep, ReadStep DEF IndInv
<1> QED
  BY <1>1, InitIndInv, PTL DEF Spec

(* pos never passes the end of the tokens and the call stack never runs    *)
(* empty.                                                                  *)
THEOREM TypeCorrect == Spec => []TypeOK
<1>1. IndInv => TypeOK
  BY DEF IndInv
<1> QED
  BY <1>1, Invariance, PTL

(* ParseREG never reads the second operand of a move, in any file.         *)
THEOREM OperandUnread == Spec => []SecondOperandUnread
<1>1. IndInv => SecondOperandUnread
  BY DEF IndInv
<1> QED
  BY <1>1, Invariance, PTL

(* A parse that ends has read what its tokens say, and the process dies    *)
(* only after a register operand.                                          *)
THEOREM OutcomeCorrect == Spec => []OutcomeExact
<1>1. IndInv => OutcomeExact
  BY DEF IndInv
<1> QED
  BY <1>1, Invariance, PTL

(* A parse of n tokens makes at most 3n + 4 turns before it ends or spins. *)
THEOREM WorkCorrect == Spec => WorkBounded
<1>1. Spec => []IndInv /\ [][Next]_vars
  BY Invariance, PTL DEF Spec
<1> QED
  BY <1>1, BudgetStep, PTL DEF WorkBounded

=============================================================================
