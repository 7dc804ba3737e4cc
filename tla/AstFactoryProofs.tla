-------------------------- MODULE AstFactoryProofs --------------------------
(***************************************************************************)
(* Proofs about AstFactory: which tree a call makes and how it ends, for   *)
(* every argument the types allow and any limit of stoll.                  *)
(***************************************************************************)
EXTENDS AstFactory, SequenceTheorems, FiniteSetTheorems, TLAPS

USE LongAssumption DEF LongAssumption

-----------------------------------------------------------------------------
(* What a call that has not ended has done so far.                         *)

(* The nodes made for the flags that have been cleared.                    *)
Cleared(flag, left, node) == IF flag /\ ~left THEN <<node>> ELSE <<>>

PointerNode == [node |-> "PointerType"]
ReferenceNode == [node |-> "ReferenceType"]
ArrayNode == [node |-> "ArrayType", size |-> uint64(Info.arrayLength)]

DataSoFar ==
  call.fun = "createDataType" /\ status = "building" =>
    /\ i = 0
    /\ rest \in MetaDataTypes(Seq(STRING), STRING, -(MaxLong + 1) .. MaxLong)
    /\ \A f \in {"parentStructs", "intBits", "floatBits", "reg", "arrayLength"} :
         rest[f] = Info[f]
    /\ rest.isVoid <=> Info.isVoid
    /\ rest.isPointer => Info.isPointer
    /\ rest.isRef => Info.isRef
    /\ rest.isArray => Info.isArray
    /\ rest.isPointer => (rest.isRef <=> Info.isRef)
    /\ rest.isPointer \/ rest.isRef => (rest.isArray <=> Info.isArray)
    /\ made = Cleared(Info.isPointer, rest.isPointer, PointerNode)
                \o Cleared(Info.isRef, rest.isRef, ReferenceNode)
                \o Cleared(Info.isArray, rest.isArray, ArrayNode)
    /\ Info.isVoid => made = <<>>

Element(k) ==
  IF call.fun = "createArray" THEN createLit(Para[k]) ELSE createInt(Para[k])

ReadSoFar(k) ==
  IF call.fun = "createArray" THEN IsNumber(Para[k]) => Readable(Para[k].number)
  ELSE Readable(Para[k])

ListSoFar ==
  call.fun # "createDataType" /\ status = "building" =>
    /\ i \in 0..Len(Para)
    /\ Info.isCall => i = 0
    /\ call.fun = "createVReg" /\ Info.reg # NoReg => i = 0
    /\ made = [k \in 1..i |-> Element(k)]
    /\ \A k \in 1..i : ReadSoFar(k)

IndInv ==
  /\ call \in Calls
  /\ status \in {"building", "done", "thrown", "dead"}
  /\ DataSoFar /\ ListSoFar
  /\ TypeTree /\ ListInOrder /\ EndsForAReason

-----------------------------------------------------------------------------
(* The remainder of a number that is smaller than the divisor.             *)
LEMMA QuotientOfSmall ==
  ASSUME NEW n \in Int, NEW K \in Int, NEW q \in Int, NEW r \in 0 .. K - 1,
         -K < n, n < K, n = K * q + r
  PROVE  IF n >= 0 THEN r = n ELSE r = n + K
<1>1. K > 0
  OBVIOUS
<1>2. CASE q >= 1
  <2>1. K * (q - 1) >= 0
    BY <1>1, <1>2
  <2>2. K * (q - 1) = K * q - K
    OBVIOUS
  <2> QED
    BY <2>1, <2>2
<1>3. CASE q <= -2
  <2>1. K * (-q - 2) >= 0
    BY <1>1, <1>3
  <2>2. K * (-q - 2) = -(K * q) - (K + K)
    OBVIOUS
  <2> QED
    BY <2>1, <2>2
<1>4. CASE q = 0
  BY <1>4
<1>5. CASE q = -1
  BY <1>5
<1> QED
  BY <1>2, <1>3, <1>4, <1>5

(* Of a negative number a greater one than any is stored.                  *)
LEMMA StoredUnsigned ==
  ASSUME NEW n \in -(MaxLong + 1) .. MaxLong
  PROVE  Unsigned(uint64(n), n)
<1> DEFINE K == 2 * (MaxLong + 1)
<1>1. K \in Int /\ K > 0 /\ -K < n /\ n < K /\ MaxLong + 1 + MaxLong + 1 = K
  OBVIOUS
<1>2. uint64(n) = n % K
  BY DEF uint64
<1>3. n % K \in 0 .. K - 1 /\ n = K * (n \div K) + (n % K)
  <2> HIDE DEF K
  <2> QED
    BY <1>1
<1>4. IF n >= 0 THEN n % K = n ELSE n % K = n + K
  <2> HIDE DEF K
  <2>1. n \div K \in Int
    BY <1>1
  <2> QED
    BY <1>1, <1>3, <2>1, QuotientOfSmall
<1> QED
  <2> HIDE DEF K
  <2> QED
    BY <1>1, <1>2, <1>4 DEF Unsigned

(* What is made of a numeral that can be read is its number.               *)
LEMMA IntegerMade ==
  ASSUME NEW num, Readable(num)
  PROVE  IsInteger(createInt(num), num)
BY StoredUnsigned DEF Readable, stoll, createInt, IntegerLiteral, IsInteger

(* What is made of a token is its literal, if it has one.                  *)
LEMMA LiteralMade ==
  ASSUME NEW para \in Paras, IsNumber(para) => Readable(para.number)
  PROVE  IsLiteral(createLit(para), para)
<1>1. CASE para.kind = "TOKEN_INTEGER"
  <2>1. createLit(para) = createInt(para.number) /\ Readable(para.number)
    BY <1>1 DEF createLit, IsNumber
  <2> QED
    BY <1>1, <2>1, IntegerMade DEF IsLiteral
<1>2. CASE para.kind = "TOKEN_FLOAT"
  BY <1>2 DEF createLit, createFloat, stoll, IsLiteral
<1>3. CASE para.kind = "TOKEN_CHAR"
  BY <1>3 DEF createLit, FirstChar, IsLiteral, Paras
<1>4. CASE para.kind = "TOKEN_STRING"
  <2>1. createLit(para) = InitializerListExpr(CharLiterals(para.lexeme))
    BY <1>4 DEF createLit
  <2>2. para.lexeme \in Seq(STRING)
    BY DEF Paras
  <2>3. /\ Len(CharLiterals(para.lexeme)) = Len(para.lexeme)
        /\ \A k \in DOMAIN para.lexeme : CharLiterals(para.lexeme)[k] = CharLiteral(para.lexeme[k])
    BY <2>2 DEF CharLiterals
  <2> QED
    BY <1>4, <2>1, <2>3 DEF InitializerListExpr, IsLiteral
<1> QED
  BY <1>1, <1>2, <1>3, <1>4 DEF IsLiteral

(* The base of a type, and that it is as declared if its bits can be read. *)
Base ==
  IF Info.parentStructs # <<>> THEN StructType(Info.parentStructs)
  ELSE MemType(Bits(Info.intBits), Bits(Info.floatBits), Info.reg)

LEMMA BaseMade ==
  ASSUME Info.parentStructs # <<>> \/ (Readable(Info.intBits) /\ Readable(Info.floatBits))
  PROVE  IsBase(Base)
BY StoredUnsigned DEF Base, IsBase, Bits, Readable, stoll, MemType

-----------------------------------------------------------------------------
(* In the initial state nothing has been made.                             *)
LEMMA InitIndInv == Init => IndInv
<1> SUFFICES ASSUME Init PROVE IndInv
  OBVIOUS
<1>1. call \in Calls /\ rest = Info /\ i = 0 /\ made = <<>> /\ status = "building"
  BY DEF Init, Info
<1>2. DataSoFar
  <2> SUFFICES ASSUME call.fun = "createDataType"
               PROVE  DataSoFar
    BY DEF DataSoFar
  <2>1. rest \in MetaDataTypes(Seq(STRING), STRING, -(MaxLong + 1) .. MaxLong)
    BY <1>1, CallsAssumption DEF Info
  <2>2. made = Cleared(Info.isPointer, rest.isPointer, PointerNode)
                 \o Cleared(Info.isRef, rest.isRef, ReferenceNode)
                 \o Cleared(Info.isArray, rest.isArray, ArrayNode)
    BY <1>1 DEF Cleared
  <2> QED
    BY <1>1, <2>1, <2>2 DEF DataSoFar
<1>3. ListSoFar
  <2> SUFFICES ASSUME call.fun # "createDataType"
               PROVE  ListSoFar
    BY DEF ListSoFar
  <2>1. Len(Para) \in Nat
    BY <1>1, CallsAssumption DEF MetaVRegs, MetaArrays, Para
  <2>2. made = [k \in 1..i |-> Element(k)]
    BY <1>1
  <2> QED
    BY <1>1, <2>1, <2>2 DEF ListSoFar
<1>4. TypeTree /\ ListInOrder /\ EndsForAReason
  BY <1>1 DEF TypeTree, ListInOrder, EndsForAReason
<1> QED
  BY <1>1, <1>2, <1>3, <1>4 DEF IndInv

(* A call that has ended stays as it is, and one that goes on has nothing  *)
(* to answer for yet.                                                      *)
LEMMA StillBuilding ==
  ASSUME IndInv, call' = call, status' = "building", DataSoFar', ListSoFar'
  PROVE  IndInv'
BY DEF IndInv, TypeTree, ListInOrder, EndsForAReason

(* A step that changes no variable keeps the invariant.                    *)
LEMMA NothingChanged ==
  ASSUME IndInv, UNCHANGED vars
  PROVE  IndInv'
<1>1. UNCHANGED <<call, rest, i, made, status>>
  BY DEF vars
<1>2. DataSoFar'
  BY <1>1 DEF IndInv, DataSoFar, Info, ArrayNode
<1>3. ListSoFar'
  BY <1>1 DEF IndInv, ListSoFar, Info, Para, Element, ReadSoFar
<1>4. TypeTree'
  BY <1>1 DEF IndInv, TypeTree, Info, Wrappers, IsBase
<1>5. ListInOrder'
  BY <1>1 DEF IndInv, ListInOrder, Info, Para
<1>6. EndsForAReason'
  BY <1>1 DEF IndInv, EndsForAReason, Info, Para, Read, Unforeseen
<1> QED
  BY <1>1, <1>2, <1>3, <1>4, <1>5, <1>6 DEF IndInv

(* A node appended to those of the wrappers further out.                   *)
LEMMA AppendFirst ==
  ASSUME NEW x PROVE Append(<<>>, x) = <<x>> \o <<>> \o <<>>
OBVIOUS

(* The same below one wrapper.                                             *)
LEMMA AppendSecond ==
  ASSUME NEW x, NEW p, NEW s \in {<<>>, <<p>>} PROVE Append(s, x) = s \o <<x>> \o <<>>
<1>1. s \in Seq({p, x}) /\ <<x>> \in Seq({p, x})
  <2>1. <<p>> \in Seq({p, x}) /\ <<x>> \in Seq({p, x}) /\ <<>> \in Seq({p, x})
    OBVIOUS
  <2> QED
    BY <2>1
<1>2. Append(s, x) = s \o <<x>> /\ s \o <<x>> \in Seq({p, x})
  BY <1>1
<1> QED
  BY <1>2

(* The same below two.                                                     *)
LEMMA AppendThird ==
  ASSUME NEW x, NEW p, NEW s \in {<<>>, <<p>>}, NEW q, NEW t \in {<<>>, <<q>>}
  PROVE  Append(s \o t \o <<>>, x) = s \o t \o <<x>>
<1> DEFINE S == {p, q, x}
<1>1. s \in Seq(S) /\ t \in Seq(S) /\ <<x>> \in Seq(S)
  <2>1. <<p>> \in Seq(S) /\ <<q>> \in Seq(S) /\ <<x>> \in Seq(S) /\ <<>> \in Seq(S)
    OBVIOUS
  <2> QED
    BY <2>1
<1>2. s \o t \in Seq(S)
  BY <1>1
<1> HIDE DEF S
<1>3. s \o t \o <<>> = s \o t
  BY <1>2
<1>4. x \in S
  BY DEF S
<1> QED
  BY <1>2, <1>3, <1>4

(* A type's wrapper: the flag it stands for is cleared, those before it    *)
(* are, those after it are as they were.                                   *)
LEMMA Unflagged ==
  ASSUME NEW f \in {"isPointer", "isRef", "isArray"},
         rest \in MetaDataTypes(Seq(STRING), STRING, -(MaxLong + 1) .. MaxLong),
         rest' = [rest EXCEPT ![f] = FALSE]
  PROVE  /\ rest' \in MetaDataTypes(Seq(STRING), STRING, -(MaxLong + 1) .. MaxLong)
         /\ \A g \in {"parentStructs", "intBits", "floatBits", "reg", "arrayLength", "isVoid",
                     "isPointer", "isRef", "isArray"} \ {f} : rest'[g] = rest[g]
         /\ rest'[f] = FALSE
BY DEF MetaDataTypes

(* A flag turned into a node keeps what has been made in order.            *)
LEMMA WrapStep ==
  ASSUME IndInv, DataPointer \/ DataReference \/ DataArray
  PROVE  IndInv'
<1> USE DEF IndInv
<1>1. call.fun = "createDataType" /\ status = "building" /\ ~rest.isVoid
      /\ UNCHANGED <<call, i, status>>
  BY DEF DataPointer, DataReference, DataArray, Descends, Building, Wrap
<1>2. rest \in MetaDataTypes(Seq(STRING), STRING, -(MaxLong + 1) .. MaxLong)
  BY <1>1 DEF DataSoFar
<1>3. Info' = Info /\ ArrayNode' = ArrayNode
  BY <1>1 DEF Info, ArrayNode
<1>4. CASE DataPointer
  <2>1. /\ rest.isPointer /\ rest' = [rest EXCEPT !.isPointer = FALSE]
        /\ made' = Append(made, PointerNode)
    BY <1>4 DEF DataPointer, Wrap, PointerNode
  <2>3. /\ rest' \in MetaDataTypes(Seq(STRING), STRING, -(MaxLong + 1) .. MaxLong)
        /\ \A g \in {"parentStructs", "intBits", "floatBits", "reg", "arrayLength", "isVoid",
                    "isPointer", "isRef", "isArray"} \ {"isPointer"} : rest'[g] = rest[g]
        /\ ~rest'.isPointer
    BY <1>2, <2>1, Unflagged
  <2>2. DataSoFar'
    <3>1. rest.isPointer /\ Info.isPointer
      BY <1>1, <2>1 DEF DataSoFar
    <3>2. /\ \A f \in {"parentStructs", "intBits", "floatBits", "reg", "arrayLength"} :
               rest'[f] = Info[f]
          /\ rest'.isVoid <=> Info.isVoid
          /\ rest'.isPointer => Info.isPointer
          /\ rest'.isRef => Info.isRef
          /\ rest'.isArray => Info.isArray
          /\ rest'.isPointer => (rest'.isRef <=> Info.isRef)
          /\ rest'.isPointer \/ rest'.isRef => (rest'.isArray <=> Info.isArray)
      BY <1>1, <2>1, <2>3 DEF DataSoFar
    <3>3. made' = Cleared(Info.isPointer, rest'.isPointer, PointerNode)
                    \o Cleared(Info.isRef, rest'.isRef, ReferenceNode)
                    \o Cleared(Info.isArray, rest'.isArray, ArrayNode)
      <4>1. made = <<>>
        BY <1>1, <2>1 DEF DataSoFar, Cleared
      <4>2. /\ Cleared(Info.isPointer, rest'.isPointer, PointerNode)
                 = <<PointerNode>>
            /\ Cleared(Info.isRef, rest'.isRef, ReferenceNode) = <<>>
            /\ Cleared(Info.isArray, rest'.isArray, ArrayNode) = <<>>
        BY <1>1, <2>1, <2>3, <3>1 DEF DataSoFar, Cleared
      <4> QED
        BY <2>1, <4>1, <4>2, AppendFirst
    <3> QED
      BY <1>1, <1>3, <2>3, <3>2, <3>3 DEF DataSoFar
  <2> QED
    BY <1>1, <2>2, StillBuilding DEF ListSoFar
<1>5. CASE DataReference
  <2>1. /\ ~rest.isPointer /\ rest.isRef /\ rest' = [rest EXCEPT !.isRef = FALSE]
        /\ made' = Append(made, ReferenceNode)
    BY <1>5 DEF DataReference, Wrap, ReferenceNode
  <2>3. /\ rest' \in MetaDataTypes(Seq(STRING), STRING, -(MaxLong + 1) .. MaxLong)
        /\ \A g \in {"parentStructs", "intBits", "floatBits", "reg", "arrayLength", "isVoid",
                    "isPointer", "isRef", "isArray"} \ {"isRef"} : rest'[g] = rest[g]
        /\ ~rest'.isRef
    BY <1>2, <2>1, Unflagged
  <2>2. DataSoFar'
    <3>1. rest.isRef /\ Info.isRef
      BY <1>1, <2>1 DEF DataSoFar
    <3>2. /\ \A f \in {"parentStructs", "intBits", "floatBits", "reg", "arrayLength"} :
               rest'[f] = Info[f]
          /\ rest'.isVoid <=> Info.isVoid
          /\ rest'.isPointer => Info.isPointer
          /\ rest'.isRef => Info.isRef
          /\ rest'.isArray => Info.isArray
          /\ rest'.isPointer => (rest'.isRef <=> Info.isRef)
          /\ rest'.isPointer \/ rest'.isRef => (rest'.isArray <=> Info.isArray)
      BY <1>1, <2>1, <2>3 DEF DataSoFar
    <3>3. made' = Cleared(Info.isPointer, rest'.isPointer, PointerNode)
                    \o Cleared(Info.isRef, rest'.isRef, ReferenceNode)
                    \o Cleared(Info.isArray, rest'.isArray, ArrayNode)
      <4>1. /\ Cleared(Info.isRef, rest.isRef, ReferenceNode) = <<>>
            /\ Cleared(Info.isArray, rest.isArray, ArrayNode) = <<>>
        BY <1>1, <2>1 DEF DataSoFar, Cleared
      <4>2. made = Cleared(Info.isPointer, rest.isPointer, PointerNode)
        BY <1>1, <4>1 DEF DataSoFar, Cleared
      <4>3. /\ Cleared(Info.isPointer, rest'.isPointer, PointerNode) = made
            /\ Cleared(Info.isRef, rest'.isRef, ReferenceNode)
                 = <<ReferenceNode>>
            /\ Cleared(Info.isArray, rest'.isArray, ArrayNode) = <<>>
        BY <1>1, <2>1, <2>3, <3>1, <4>2 DEF DataSoFar, Cleared
      <4>4. made \in {<<>>, <<PointerNode>>}
        BY <4>2 DEF Cleared
      <4> QED
        BY <2>1, <4>3, <4>4, AppendSecond
    <3> QED
      BY <1>1, <1>3, <2>3, <3>2, <3>3 DEF DataSoFar
  <2> QED
    BY <1>1, <2>2, StillBuilding DEF ListSoFar
<1>6. CASE DataArray
  <2>1. /\ ~rest.isPointer /\ ~rest.isRef /\ rest.isArray
        /\ rest' = [rest EXCEPT !.isArray = FALSE]
        /\ made' = Append(made, ArrayNode)
    BY <1>1, <1>6 DEF DataArray, Wrap, ArrayNode, DataSoFar
  <2>3. /\ rest' \in MetaDataTypes(Seq(STRING), STRING, -(MaxLong + 1) .. MaxLong)
        /\ \A g \in {"parentStructs", "intBits", "floatBits", "reg", "arrayLength", "isVoid",
                    "isPointer", "isRef", "isArray"} \ {"isArray"} : rest'[g] = rest[g]
        /\ ~rest'.isArray
    BY <1>2, <2>1, Unflagged
  <2>2. DataSoFar'
    <3>1. rest.isArray /\ Info.isArray
      BY <1>1, <2>1 DEF DataSoFar
    <3>2. /\ \A f \in {"parentStructs", "intBits", "floatBits", "reg", "arrayLength"} :
               rest'[f] = Info[f]
          /\ rest'.isVoid <=> Info.isVoid
          /\ rest'.isPointer => Info.isPointer
          /\ rest'.isRef => Info.isRef
          /\ rest'.isArray => Info.isArray
          /\ rest'.isPointer => (rest'.isRef <=> Info.isRef)
          /\ rest'.isPointer \/ rest'.isRef => (rest'.isArray <=> Info.isArray)
      BY <1>1, <2>1, <2>3 DEF DataSoFar
    <3>3. made' = Cleared(Info.isPointer, rest'.isPointer, PointerNode)
                    \o Cleared(Info.isRef, rest'.isRef, ReferenceNode)
                    \o Cleared(Info.isArray, rest'.isArray, ArrayNode)
      <4>1. Cleared(Info.isArray, rest.isArray, ArrayNode) = <<>>
        BY <1>1, <2>1 DEF DataSoFar, Cleared
      <4>2. made = Cleared(Info.isPointer, rest.isPointer, PointerNode)
                     \o Cleared(Info.isRef, rest.isRef, ReferenceNode) \o <<>>
        BY <1>1, <4>1 DEF DataSoFar
      <4>3. /\ Cleared(Info.isPointer, rest.isPointer, PointerNode) \in {<<>>, <<PointerNode>>}
            /\ Cleared(Info.isRef, rest.isRef, ReferenceNode) \in {<<>>, <<ReferenceNode>>}
        BY DEF Cleared
      <4>4. /\ Cleared(Info.isPointer, rest'.isPointer, PointerNode)
                 = Cleared(Info.isPointer, rest.isPointer, PointerNode)
            /\ Cleared(Info.isRef, rest'.isRef, ReferenceNode)
                 = Cleared(Info.isRef, rest.isRef, ReferenceNode)
            /\ Cleared(Info.isArray, rest'.isArray, ArrayNode) = <<ArrayNode>>
        BY <2>3, <3>1 DEF Cleared
      <4>5. Append(Cleared(Info.isPointer, rest.isPointer, PointerNode)
                     \o Cleared(Info.isRef, rest.isRef, ReferenceNode) \o <<>>, ArrayNode)
              = Cleared(Info.isPointer, rest.isPointer, PointerNode)
                  \o Cleared(Info.isRef, rest.isRef, ReferenceNode) \o <<ArrayNode>>
        BY <4>3, AppendThird
      <4>6. made' = Cleared(Info.isPointer, rest.isPointer, PointerNode)
                      \o Cleared(Info.isRef, rest.isRef, ReferenceNode) \o <<ArrayNode>>
        BY <2>1, <4>2, <4>5
      <4> QED
        BY <4>4, <4>6
    <3> QED
      BY <1>1, <1>3, <2>3, <3>2, <3>3 DEF DataSoFar
  <2> QED
    BY <1>1, <2>2, StillBuilding DEF ListSoFar
<1> QED
  BY <1>4, <1>5, <1>6
-----------------------------------------------------------------------------
(* The last node of a data type.                                           *)

(* When the flags have all been cleared, the nodes made are the wrappers.  *)
LEMMA WrappersMade ==
  ASSUME IndInv, AtBase
  PROVE  /\ \E S : made \in Seq(S)
         /\ Len(made) = Len(Wrappers) /\ Len(Wrappers) \in Nat
         /\ DOMAIN Wrappers = 1..Len(Wrappers)
         /\ \A k \in DOMAIN Wrappers :
              /\ made[k].node = Wrappers[k]
              /\ Wrappers[k] = "ArrayType" => made[k] = ArrayNode
<1> DEFINE s == Cleared(Info.isPointer, rest.isPointer, PointerNode)
           t == Cleared(Info.isRef, rest.isRef, ReferenceNode)
           u == Cleared(Info.isArray, rest.isArray, ArrayNode)
           v == Wrapper(Info.isPointer, "PointerType")
           w == Wrapper(Info.isRef, "ReferenceType")
           x == Wrapper(Info.isArray, "ArrayType")
           S == {PointerNode, ReferenceNode, ArrayNode}
           T == {"PointerType", "ReferenceType", "ArrayType"}
<1>1. made = s \o t \o u /\ Wrappers = v \o w \o x
  BY DEF IndInv, DataSoFar, AtBase, Descends, Building, Wrappers
<1>2. ~rest.isPointer /\ ~rest.isRef /\ ~rest.isArray
  BY DEF AtBase
<1>3. /\ <<PointerNode>> \in Seq(S) /\ <<ReferenceNode>> \in Seq(S) /\ <<ArrayNode>> \in Seq(S)
      /\ <<>> \in Seq(S) /\ <<>> \in Seq(T)
      /\ <<"PointerType">> \in Seq(T) /\ <<"ReferenceType">> \in Seq(T)
      /\ <<"ArrayType">> \in Seq(T)
  OBVIOUS
<1>4. s \in Seq(S) /\ v \in Seq(T) /\ Len(s) = Len(v)
      /\ \A j \in 1..Len(v) : s[j] = PointerNode /\ v[j] = "PointerType"
  <2>1. CASE Info.isPointer
    BY <1>2, <1>3, <2>1 DEF Cleared, Wrapper
  <2>2. CASE ~Info.isPointer
    BY <1>2, <1>3, <2>2 DEF Cleared, Wrapper
  <2> QED
    BY <2>1, <2>2
<1>5. t \in Seq(S) /\ w \in Seq(T) /\ Len(t) = Len(w)
      /\ \A j \in 1..Len(w) : t[j] = ReferenceNode /\ w[j] = "ReferenceType"
  <2>1. CASE Info.isRef
    BY <1>2, <1>3, <2>1 DEF Cleared, Wrapper
  <2>2. CASE ~Info.isRef
    BY <1>2, <1>3, <2>2 DEF Cleared, Wrapper
  <2> QED
    BY <2>1, <2>2
<1>6. u \in Seq(S) /\ x \in Seq(T) /\ Len(u) = Len(x)
      /\ \A j \in 1..Len(x) : u[j] = ArrayNode /\ x[j] = "ArrayType"
  <2>1. CASE Info.isArray
    BY <1>2, <1>3, <2>1 DEF Cleared, Wrapper
  <2>2. CASE ~Info.isArray
    BY <1>2, <1>3, <2>2 DEF Cleared, Wrapper
  <2> QED
    BY <2>1, <2>2
<1> HIDE DEF s, t, u, v, w, x, S, T
<1>7. /\ made \in Seq(S) /\ Len(made) = Len(Wrappers) /\ Wrappers \in Seq(T)
      /\ \A k \in 1..Len(Wrappers) :
           \/ \E j \in 1..Len(v) : made[k] = s[j] /\ Wrappers[k] = v[j]
           \/ \E j \in 1..Len(w) : made[k] = t[j] /\ Wrappers[k] = w[j]
           \/ \E j \in 1..Len(x) : made[k] = u[j] /\ Wrappers[k] = x[j]
  <2>0. /\ s \in Seq(S) /\ t \in Seq(S) /\ u \in Seq(S)
        /\ v \in Seq(T) /\ w \in Seq(T) /\ x \in Seq(T)
        /\ Len(s) = Len(v) /\ Len(t) = Len(w) /\ Len(u) = Len(x)
    BY <1>4, <1>5, <1>6
  <2>1. /\ s \o t \in Seq(S) /\ v \o w \in Seq(T)
        /\ Len(s \o t) = Len(s) + Len(t) /\ Len(v \o w) = Len(v) + Len(w)
        /\ s \o t \o u \in Seq(S) /\ v \o w \o x \in Seq(T)
        /\ Len(s \o t \o u) = Len(s) + Len(t) + Len(u)
        /\ Len(v \o w \o x) = Len(v) + Len(w) + Len(x)
    <3>1. s \o t \in Seq(S) /\ Len(s \o t) = Len(s) + Len(t)
      BY <2>0, ConcatProperties
    <3>2. v \o w \in Seq(T) /\ Len(v \o w) = Len(v) + Len(w)
      BY <2>0, ConcatProperties
    <3>3. s \o t \o u \in Seq(S) /\ Len(s \o t \o u) = Len(s) + Len(t) + Len(u)
      <4> DEFINE st == s \o t
      <4>1. st \in Seq(S) /\ Len(st) = Len(s) + Len(t)
        BY <3>1
      <4> HIDE DEF st
      <4>2. st \o u \in Seq(S) /\ Len(st \o u) = Len(st) + Len(u)
        BY <2>0, <4>1, ConcatProperties
      <4> QED
        BY <4>1, <4>2 DEF st
    <3>4. v \o w \o x \in Seq(T) /\ Len(v \o w \o x) = Len(v) + Len(w) + Len(x)
      BY <2>0, <3>2, ConcatProperties
    <3> QED
      BY <3>1, <3>2, <3>3, <3>4
  <2>2. ASSUME NEW k \in 1..Len(v)
        PROVE  (s \o t \o u)[k] = s[k] /\ (v \o w \o x)[k] = v[k]
    BY <2>0, <2>1
  <2>3. ASSUME NEW k \in 1..Len(w)
        PROVE  /\ (s \o t \o u)[Len(v) + k] = t[k]
               /\ (v \o w \o x)[Len(v) + k] = w[k]
    BY <2>0, <2>1
  <2>4. ASSUME NEW k \in 1..Len(x)
        PROVE  /\ (s \o t \o u)[Len(v) + Len(w) + k] = u[k]
               /\ (v \o w \o x)[Len(v) + Len(w) + k] = x[k]
    BY <2>0, <2>1
  <2>5. ASSUME NEW k \in 1..Len(v \o w \o x)
        PROVE  \/ k \in 1..Len(v)
               \/ \E j \in 1..Len(w) : k = Len(v) + j
               \/ \E j \in 1..Len(x) : k = Len(v) + Len(w) + j
    <3>1. CASE k <= Len(v)
      BY <2>0, <3>1, <2>1
    <3>2. CASE k > Len(v) /\ k <= Len(v) + Len(w)
      <4>1. k - Len(v) \in 1..Len(w) /\ k = Len(v) + (k - Len(v))
        BY <2>0, <3>2, <2>1
      <4> QED
        BY <4>1
    <3>3. CASE k > Len(v) + Len(w)
      <4>1. k - Len(v) - Len(w) \in 1..Len(x) /\ k = Len(v) + Len(w) + (k - Len(v) - Len(w))
        BY <2>0, <3>3, <2>1
      <4> QED
        BY <4>1
    <3> QED
      BY <3>1, <3>2, <3>3, <2>1
  <2>6. ASSUME NEW k \in 1..Len(v \o w \o x)
        PROVE  \/ \E j \in 1..Len(v) : (s \o t \o u)[k] = s[j] /\ (v \o w \o x)[k] = v[j]
               \/ \E j \in 1..Len(w) : (s \o t \o u)[k] = t[j] /\ (v \o w \o x)[k] = w[j]
               \/ \E j \in 1..Len(x) : (s \o t \o u)[k] = u[j] /\ (v \o w \o x)[k] = x[j]
    <3>1. CASE k \in 1..Len(v)
      BY <2>2, <3>1
    <3>2. CASE \E j \in 1..Len(w) : k = Len(v) + j
      BY <2>3, <3>2
    <3>3. CASE \E j \in 1..Len(x) : k = Len(v) + Len(w) + j
      BY <2>4, <3>3
    <3> QED
      BY <2>5, <3>1, <3>2, <3>3
  <2> QED
    BY <1>1, <2>0, <2>1, <2>6
<1>8. \A k \in 1..Len(Wrappers) :
        \/ made[k] = PointerNode /\ Wrappers[k] = "PointerType"
        \/ made[k] = ReferenceNode /\ Wrappers[k] = "ReferenceType"
        \/ made[k] = ArrayNode /\ Wrappers[k] = "ArrayType"
  BY <1>4, <1>5, <1>6, <1>7
<1>9. /\ PointerNode.node = "PointerType" /\ ReferenceNode.node = "ReferenceType"
      /\ ArrayNode.node = "ArrayType"
  BY DEF PointerNode, ReferenceNode, ArrayNode
<1> QED
  BY <1>7, <1>8, <1>9

(* A call of createDataType that ends has made the type, or thrown for a   *)
(* numeral of it.                                                          *)
LEMMA BaseStep ==
  ASSUME IndInv, DataVoid \/ DataStruct \/ DataMem
  PROVE  IndInv'
<1> USE DEF IndInv
<1>1. /\ call.fun = "createDataType" /\ status = "building" /\ call' = call
      /\ status' \in {"done", "thrown"}
  BY DEF DataVoid, DataStruct, DataMem, AtBase, Descends, Building, Return, Throw
<1>2. /\ rest \in MetaDataTypes(Seq(STRING), STRING, -(MaxLong + 1) .. MaxLong)
      /\ \A f \in {"parentStructs", "intBits", "floatBits", "reg", "arrayLength"} :
           rest[f] = Info[f]
      /\ rest.isVoid <=> Info.isVoid
      /\ Info.isVoid => made = <<>>
  BY <1>1 DEF DataSoFar
<1>3. DataSoFar' /\ ListSoFar' /\ ListInOrder'
  BY <1>1 DEF DataSoFar, ListSoFar, ListInOrder
<1>4. Info' = Info /\ Wrappers' = Wrappers /\ Read' = Read
      /\ \A node : IsBase(node)' <=> IsBase(node)
  BY <1>1 DEF Info, Wrappers, IsBase, Read, Para
<1>5. EndsForAReason'
  <2>1. Read = IF Info.isVoid \/ Info.parentStructs # <<>> THEN {}
               ELSE {Info.intBits, Info.floatBits}
    BY <1>1 DEF Read
  <2>2. CASE DataVoid
    <3>1. Read = {} /\ status' = "done"
      BY <1>2, <2>1, <2>2 DEF DataVoid, Return
    <3> QED
      BY <1>4, <3>1 DEF EndsForAReason
  <2>3. CASE DataStruct
    <3>1. Read = {} /\ status' = "done"
      BY <1>2, <2>1, <2>3 DEF DataStruct, Return
    <3> QED
      BY <1>4, <3>1 DEF EndsForAReason
  <2>4. CASE DataMem
    <3>1. Read = {rest.intBits, rest.floatBits}
      BY <1>2, <2>1, <2>4 DEF DataMem, AtBase, Descends
    <3>2. IF Readable(rest.intBits) /\ Readable(rest.floatBits)
            THEN status' = "done" ELSE status' = "thrown"
      BY <2>4 DEF DataMem, Return, Throw
    <3> QED
      BY <1>4, <3>1, <3>2 DEF EndsForAReason
  <2> QED
    BY <2>2, <2>3, <2>4
<1>6. TypeTree'
  <2>1. CASE status' = "thrown"
    BY <2>1 DEF TypeTree
  <2>2. CASE DataVoid
    <3>1. Info.isVoid /\ made = <<>> /\ made' = Append(made, MemType(0, 0, NoReg))
      BY <1>2, <2>2 DEF DataVoid, Return
    <3>2. made' = <<MemType(0, 0, NoReg)>>
      BY <3>1
    <3> QED
      BY <1>4, <3>1, <3>2 DEF TypeTree
  <2>3. CASE (DataStruct \/ DataMem) /\ status' = "done"
    <3>1. AtBase /\ ~Info.isVoid
      BY <1>2, <2>3 DEF DataStruct, DataMem, AtBase, Descends
    <3>2. made' = Append(made, Base)
      <4>1. Base = IF rest.parentStructs # <<>> THEN StructType(rest.parentStructs)
                   ELSE MemType(Bits(rest.intBits), Bits(rest.floatBits), rest.reg)
        BY <1>2 DEF Base
      <4>2. CASE DataStruct
        BY <4>1, <4>2 DEF DataStruct, Return
      <4>3. CASE DataMem
        BY <2>3, <4>1, <4>3 DEF DataMem, Return, Throw
      <4> QED
        BY <2>3, <4>2, <4>3
    <3>3. PICK S : made \in Seq(S)
      BY <3>1, WrappersMade
    <3>4. /\ Len(made') = Len(made) + 1 /\ made'[Len(made')] = Base
          /\ \A k \in 1..Len(made) : made'[k] = made[k]
      <4>1. made \in Seq(S \cup {Base}) /\ Base \in S \cup {Base}
        BY <3>3
      <4> QED
        BY <3>2, <4>1, AppendProperties
    <3>5. \A k \in DOMAIN Wrappers :
            /\ made'[k].node = Wrappers[k]
            /\ Wrappers[k] = "ArrayType" => made'[k] = ArrayNode
      BY <3>1, <3>4, WrappersMade
    <3>6. Unsigned(ArrayNode.size, Info.arrayLength)
      <4>1. Info.arrayLength \in -(MaxLong + 1) .. MaxLong
        BY <1>2 DEF MetaDataTypes
      <4> QED
        BY <4>1, StoredUnsigned DEF ArrayNode
    <3>7. IsBase(Base)
      <4>1. Info.parentStructs # <<>> \/ (Readable(Info.intBits) /\ Readable(Info.floatBits))
        <5>1. /\ rest.parentStructs = Info.parentStructs /\ rest.intBits = Info.intBits
              /\ rest.floatBits = Info.floatBits
          BY <1>2
        <5>2. CASE DataStruct
          BY <5>1, <5>2 DEF DataStruct
        <5>3. CASE DataMem
          BY <2>3, <5>1, <5>3 DEF DataMem, Throw
        <5> QED
          BY <2>3, <5>2, <5>3
      <4> QED
        BY <4>1, BaseMade
    <3> QED
      BY <1>4, <3>1, <3>4, <3>5, <3>6, <3>7, WrappersMade DEF TypeTree
  <2> QED
    BY <1>1, <2>1, <2>2, <2>3
<1> QED
  BY <1>1, <1>3, <1>5, <1>6

-----------------------------------------------------------------------------
(* Lists.                                                                  *)

(* The shape of a call that is no data type.                               *)
LEMMA ListShape ==
  ASSUME call \in Calls, call.fun # "createDataType"
  PROVE  /\ call.fun \in {"createVReg", "createArray"}
         /\ call.fun = "createVReg" => Para \in Seq(Numerals)
         /\ call.fun = "createArray" => Para \in Seq(Paras)
         /\ Len(Para) \in Nat /\ DOMAIN Para = 1..Len(Para)
BY CallsAssumption DEF Para, MetaVRegs, MetaArrays

(* A turn of a loop adds the element of the next parameter.                *)
LEMMA ElementStep ==
  ASSUME IndInv, VRegParameter \/ ArrayElement, status' = "building"
  PROVE  IndInv'
<1> USE DEF IndInv
<1>1. /\ call.fun # "createDataType" /\ status = "building" /\ ~Info.isCall
      /\ call.fun = "createVReg" => Info.reg = NoReg
      /\ i < Len(Para) /\ call' = call
  BY DEF VRegParameter, ArrayElement, Loop, Listing, Building, Push, Throw, Info
<1>2. i \in 0..Len(Para) /\ Len(Para) \in Nat /\ made = [k \in 1..i |-> Element(k)]
      /\ \A k \in 1..i : ReadSoFar(k)
  BY <1>1, ListShape DEF ListSoFar
<1>3. i' = i + 1 /\ made' = Append(made, Element(i + 1)) /\ ReadSoFar(i + 1)
  <2>1. CASE VRegParameter
    BY <1>1, <2>1 DEF VRegParameter, Loop, Push, Throw, Element, ReadSoFar
  <2>2. CASE ArrayElement
    BY <2>2 DEF ArrayElement, Loop, Push, Element, ReadSoFar
  <2> QED
    BY <2>1, <2>2
<1>4. made' = [k \in 1 .. i + 1 |-> Element(k)]
  BY <1>2, <1>3
<1>5. /\ Info' = Info /\ Para' = Para
      /\ \A k : Element(k)' = Element(k) /\ (ReadSoFar(k)' <=> ReadSoFar(k))
  BY <1>1 DEF Info, Para, Element, ReadSoFar
<1>6. ListSoFar'
  <2>1. i' \in 0..Len(Para) /\ \A k \in 1..i' : ReadSoFar(k)
    BY <1>1, <1>2, <1>3
  <2> QED
    BY <1>1, <1>3, <1>4, <1>5, <2>1 DEF ListSoFar
<1>7. DataSoFar'
  BY <1>1 DEF DataSoFar
<1> QED
  BY <1>1, <1>6, <1>7, StillBuilding

(* A call for a vreg or an array that ends leaves its argument alone.      *)
LEMMA ListFrame ==
  ASSUME IndInv, call' = call, call.fun # "createDataType", status' # "building",
         status' \in {"done", "thrown", "dead"}, ListInOrder', EndsForAReason'
  PROVE  IndInv'
BY DEF IndInv, DataSoFar, ListSoFar, TypeTree

(* What a vreg has to read.                                                *)
LEMMA VRegEnds ==
  ASSUME IndInv, VRegNamed \/ VRegPinned \/ (VRegParameter /\ status' = "thrown")
  PROVE  IndInv'
<1> USE DEF IndInv
<1>1. /\ call.fun = "createVReg" /\ status = "building" /\ call' = call
      /\ status' \in {"done", "thrown"}
  <2>1. CASE VRegNamed
    BY <2>1 DEF VRegNamed, Named, Building, Return
  <2>2. CASE VRegPinned
    BY <2>2 DEF VRegPinned, Building, Return
  <2>3. CASE VRegParameter /\ status' = "thrown"
    <3>1. /\ call.fun = "createVReg" /\ status = "building" /\ ~call.info.isCall
          /\ call.info.reg = NoReg
      BY <2>3 DEF VRegParameter, Loop, Listing, Building
    <3> QED
      BY <2>3, <3>1 DEF VRegParameter, Push, Throw
  <2> QED
    BY <2>1, <2>2, <2>3
<1>2. Info' = Info /\ Para' = Para /\ Read' = Read /\ Unforeseen' = Unforeseen
  BY <1>1 DEF Info, Para, Read, Unforeseen
<1>3. Read = IF Info.isCall \/ Info.reg # NoReg THEN {} ELSE {Para[k] : k \in DOMAIN Para}
  BY <1>1 DEF Read
<1>4. EndsForAReason'
  <2>1. CASE VRegNamed
    BY <1>2, <1>3, <2>1 DEF VRegNamed, Named, Return, EndsForAReason, Info
  <2>2. CASE VRegPinned
    BY <1>2, <1>3, <2>2 DEF VRegPinned, Return, EndsForAReason, Info
  <2>3. CASE VRegParameter /\ status' = "thrown"
    <3>1. /\ ~Info.isCall /\ Info.reg = NoReg /\ i < Len(Para) /\ ~Readable(Para[i + 1])
      BY <1>1, <2>3 DEF VRegParameter, Loop, Listing, Building, Push, Info
    <3>2. i + 1 \in DOMAIN Para
      BY <1>1, <3>1, ListShape DEF ListSoFar
    <3> QED
      BY <1>2, <1>3, <2>3, <3>1, <3>2 DEF EndsForAReason
  <2> QED
    BY <2>1, <2>2, <2>3
<1>5. ListInOrder'
  <2>1. CASE VRegNamed
    BY <1>1, <1>2, <2>1 DEF VRegNamed, Named, ListInOrder, Info
  <2>2. CASE VRegPinned
    <3>1. Info.reg # NoReg /\ ~Info.isCall /\ made' = Append(made, RegPinnedType(Info.reg))
      BY <2>2 DEF VRegPinned, Return, Info
    <3>2. made = <<>>
      BY <1>1, <3>1 DEF ListSoFar
    <3>3. made' = <<RegPinnedType(Info.reg)>>
      BY <3>1, <3>2
    <3> QED
      BY <1>1, <1>2, <3>1, <3>3 DEF ListInOrder
  <2>3. CASE VRegParameter /\ status' = "thrown"
    BY <2>3 DEF ListInOrder
  <2> QED
    BY <2>1, <2>2, <2>3
<1> QED
  BY <1>1, <1>4, <1>5, ListFrame

(* What an array reads, and where it meets something unforeseen.           *)
LEMMA ArrayEnds ==
  ASSUME IndInv, ArrayNamed \/ ArrayElementThrows \/ ArrayElementDies
  PROVE  IndInv'
<1> USE DEF IndInv
<1>1. /\ call.fun = "createArray" /\ status = "building" /\ call' = call
      /\ status' \in {"done", "thrown", "dead"}
  BY DEF ArrayNamed, ArrayElementThrows, ArrayElementDies, Named, Loop, Listing, Building,
     Return, Throw, Die
<1>2. Info' = Info /\ Para' = Para /\ Read' = Read /\ Unforeseen' = Unforeseen
  BY <1>1 DEF Info, Para, Read, Unforeseen
<1>3. /\ Read = {Para[k].number : k \in {j \in DOMAIN Para :
                   IF Info.isCall THEN j = 1 ELSE IsNumber(Para[j])}}
      /\ Unforeseen <=> IF Info.isCall THEN Para = <<>>
                         ELSE \E k \in DOMAIN Para : Para[k].kind = "other"
      /\ Para \in Seq(Paras) /\ DOMAIN Para = 1..Len(Para) /\ Len(Para) \in Nat
  BY <1>1, ListShape DEF Read, Unforeseen
<1>4. CASE ArrayNamed
  <2>1. Info.isCall
    BY <1>4 DEF ArrayNamed, Named, Info
  <2>a. made = <<>> /\ (\A node : Append(made, node) = <<node>>)
    BY <1>1, <2>1 DEF ListSoFar
  <2>2. CASE Para = <<>>
    <3>1. Read = {} /\ Unforeseen
      BY <1>3, <2>1, <2>2
    <3>2. ListInOrder'
      <4>1. status' = "done" => made' = <<IndexExpr(Garbage)>>
        BY <1>4, <2>2, <2>a DEF ArrayNamed, Return, Throw, Die
      <4> QED
        BY <1>1, <1>2, <2>1, <2>2, <4>1 DEF ListInOrder, IndexExpr, Info
    <3> QED
      BY <1>1, <1>2, <3>1, <3>2, ListFrame DEF EndsForAReason
  <2>3. CASE Para # <<>>
    <3>1. Read = {Para[1].number}
      BY <1>3, <2>1, <2>3
    <3>2. status' = IF Readable(Para[1].number) THEN "done" ELSE "thrown"
      BY <1>4, <2>3 DEF ArrayNamed, Return, Throw
    <3>3. ListInOrder'
      <4>1. ASSUME status' = "done"
            PROVE  /\ made' = <<IndexExpr(createInt(Para[1].number))>>
                   /\ Readable(Para[1].number)
        BY <1>4, <2>3, <2>a, <3>2, <4>1 DEF ArrayNamed, Return, Throw
      <4>2. ASSUME status' = "done"
            PROVE  IsInteger(IndexExpr(createInt(Para[1].number)).index, Para[1].number)
        BY <4>1, <4>2, IntegerMade DEF IndexExpr
      <4> QED
        BY <1>1, <1>2, <2>1, <2>3, <4>1, <4>2 DEF ListInOrder, IndexExpr, Info
    <3> QED
      BY <1>1, <1>2, <3>1, <3>2, <3>3, ListFrame DEF EndsForAReason
  <2> QED
    BY <2>2, <2>3
<1>5. CASE ArrayElementThrows \/ ArrayElementDies
  <2>1. ~Info.isCall /\ i + 1 \in DOMAIN Para
    <3>1. ~Info.isCall /\ i < Len(Para)
      BY <1>5 DEF ArrayElementThrows, ArrayElementDies, Loop, Listing, Info
    <3> QED
      BY <1>1, <1>3, <3>1 DEF ListSoFar
  <2>2. CASE ArrayElementThrows
    <3>1. Para[i + 1].number \in Read /\ ~Readable(Para[i + 1].number) /\ status' = "thrown"
      BY <1>3, <2>1, <2>2 DEF ArrayElementThrows, Throw
    <3> QED
      BY <1>1, <1>2, <3>1, ListFrame DEF EndsForAReason, ListInOrder
  <2>3. CASE ArrayElementDies
    <3>1. Unforeseen /\ status' = "dead"
      BY <1>3, <2>1, <2>3 DEF ArrayElementDies, Die
    <3> QED
      BY <1>1, <1>2, <3>1, ListFrame DEF EndsForAReason, ListInOrder
  <2> QED
    BY <1>5, <2>2, <2>3
<1> QED
  BY <1>4, <1>5

(* A loop that is through has one node for each parameter.                 *)
LEMMA ListEndStep ==
  ASSUME IndInv, ListEnd
  PROVE  IndInv'
<1> USE DEF IndInv
<1>1. /\ call.fun # "createDataType" /\ status = "building" /\ status' = "done"
      /\ UNCHANGED <<call, made>> /\ ~Info.isCall /\ i = Len(Para)
      /\ call.fun = "createVReg" => Info.reg = NoReg
  BY DEF ListEnd, Listing, Building, Info
<1>2. Info' = Info /\ Para' = Para /\ Read' = Read /\ Unforeseen' = Unforeseen
  BY <1>1 DEF Info, Para, Read, Unforeseen
<1>3. /\ made = [k \in DOMAIN Para |-> Element(k)]
      /\ \A k \in DOMAIN Para : ReadSoFar(k)
      /\ call.fun \in {"createVReg", "createArray"}
  BY <1>1, ListShape DEF ListSoFar
<1>4. CASE call.fun = "createVReg"
  <2>1. Read = {Para[k] : k \in DOMAIN Para}
    BY <1>1, <1>4 DEF Read
  <2>2. \A num \in Read : Readable(num)
    BY <1>3, <1>4, <2>1 DEF ReadSoFar
  <2>3. Len(made) = Len(Para) /\ \A k \in DOMAIN Para : IsInteger(made[k], Para[k])
    <3>1. /\ made = [k \in 1..Len(Para) |-> createInt(Para[k])] /\ Len(Para) \in Nat
          /\ \A k \in DOMAIN Para : Readable(Para[k])
      BY <1>1, <1>3, <1>4, ListShape DEF Element, ReadSoFar
    <3> QED
      BY <1>1, <3>1, ListShape, IntegerMade
  <2> QED
    BY <1>1, <1>2, <1>4, <2>2, <2>3, ListFrame DEF EndsForAReason, ListInOrder
<1>5. CASE call.fun = "createArray"
  <2>1. Read = {Para[k].number : k \in {j \in DOMAIN Para : IsNumber(Para[j])}}
    BY <1>1, <1>5 DEF Read
  <2>2. \A num \in Read : Readable(num)
    BY <1>3, <1>5, <2>1 DEF ReadSoFar
  <2>3. Len(made) = Len(Para) /\ \A k \in DOMAIN Para : IsLiteral(made[k], Para[k])
    <3>1. /\ made = [k \in 1..Len(Para) |-> createLit(Para[k])] /\ Len(Para) \in Nat
          /\ \A k \in DOMAIN Para : Para[k] \in Paras
          /\ \A k \in DOMAIN Para : IsNumber(Para[k]) => Readable(Para[k].number)
      BY <1>1, <1>3, <1>5, ListShape DEF Element, ReadSoFar
    <3> QED
      BY <1>1, <3>1, ListShape, LiteralMade
  <2> QED
    BY <1>1, <1>2, <1>5, <2>2, <2>3, ListFrame DEF EndsForAReason, ListInOrder
<1> QED
  BY <1>3, <1>4, <1>5

-----------------------------------------------------------------------------
(* The inductive invariant holds in every reachable state.                 *)
THEOREM Invariance == Spec => []IndInv
<1>1. IndInv /\ [Next]_vars => IndInv'
  <2> SUFFICES ASSUME IndInv, [Next]_vars PROVE IndInv'
    OBVIOUS
  <2>1. CASE DataPointer \/ DataReference \/ DataArray
    BY <2>1, WrapStep
  <2>2. CASE DataVoid \/ DataStruct \/ DataMem
    BY <2>2, BaseStep
  <2>3. CASE VRegParameter \/ ArrayElement
    <3>1. status' = "building" \/ (VRegParameter /\ status' = "thrown")
      BY <2>3 DEF VRegParameter, ArrayElement, Loop, Listing, Building, Push, Throw
    <3> QED
      BY <2>3, <3>1, ElementStep, VRegEnds
  <2>4. CASE VRegNamed \/ VRegPinned
    BY <2>4, VRegEnds
  <2>5. CASE ArrayNamed \/ ArrayElementThrows \/ ArrayElementDies
    BY <2>5, ArrayEnds
  <2>6. CASE ListEnd
    BY <2>6, ListEndStep
  <2>7. CASE UNCHANGED vars
    BY <2>7, NothingChanged
  <2> QED
    BY <2>1, <2>2, <2>3, <2>4, <2>5, <2>6, <2>7 DEF Next, Make, Ended
<1> QED
  BY InitIndInv, <1>1, PTL DEF Spec

(* The nodes made while the call goes on are a sequence, as long as the    *)
(* count of parameters if there is one.                                    *)
LEMMA MadeSoFar ==
  ASSUME IndInv, status = "building"
  PROVE  /\ \E S : made \in Seq(S)
         /\ i \in Nat /\ Len(made) \in Nat
         /\ i > 0 => call.fun # "createDataType"
         /\ call.fun # "createDataType" => Len(made) = i /\ i <= Len(Para)
<1> USE DEF IndInv
<1>1. CASE call.fun = "createDataType"
  <2> DEFINE S == {PointerNode, ReferenceNode, ArrayNode}
  <2>1. i = 0 /\ made = Cleared(Info.isPointer, rest.isPointer, PointerNode)
                          \o Cleared(Info.isRef, rest.isRef, ReferenceNode)
                          \o Cleared(Info.isArray, rest.isArray, ArrayNode)
    BY <1>1 DEF DataSoFar
  <2>2. \A flag, left : \A node \in S : Cleared(flag, left, node) \in Seq(S)
    <3>1. \A node \in S : <<node>> \in Seq(S) /\ <<>> \in Seq(S)
      OBVIOUS
    <3> QED
      BY <3>1 DEF Cleared
  <2>3. PointerNode \in S /\ ReferenceNode \in S /\ ArrayNode \in S
    OBVIOUS
  <2>4. /\ Cleared(Info.isPointer, rest.isPointer, PointerNode) \in Seq(S)
        /\ Cleared(Info.isRef, rest.isRef, ReferenceNode) \in Seq(S)
        /\ Cleared(Info.isArray, rest.isArray, ArrayNode) \in Seq(S)
    BY <2>2, <2>3
  <2> HIDE DEF S
  <2>5. made \in Seq(S)
    BY <2>1, <2>4
  <2> QED
    BY <1>1, <2>1, <2>5
<1>2. CASE call.fun # "createDataType"
  <2>1. i \in 0..Len(Para) /\ Len(Para) \in Nat /\ made = [k \in 1..i |-> Element(k)]
    BY <1>2, ListShape DEF ListSoFar
  <2>2. made \in Seq({Element(k) : k \in 1..i}) /\ Len(made) = i
    BY <2>1
  <2>3. \E S : made \in Seq(S)
    BY <2>2
  <2>4. i \in Nat /\ i <= Len(Para)
    BY <2>1
  <2> QED
    BY <1>2, <2>2, <2>3, <2>4
<1> QED
  BY <1>1, <1>2

(* One node more, which may be a parameter's.                              *)
LEMMA OneMore ==
  ASSUME NEW s, NEW x, \E S : s \in Seq(S)
  PROVE  Len(Append(s, x)) = Len(s) + 1 /\ Len(s) \in Nat
<1>1. PICK S : s \in Seq(S)
  OBVIOUS
<1>2. s \in Seq(S \cup {x}) /\ x \in S \cup {x}
  BY <1>1
<1> QED
  BY <1>2, AppendProperties

(* Every variable stays in its range, and one step at a time deals with    *)
(* one parameter.                                                          *)
THEOREM TypeCorrect == Spec => []TypeOK
<1>1. Init => TypeOK
  BY DEF Init, TypeOK
<1>2. IndInv /\ IndInv' /\ TypeOK /\ [Next]_vars => TypeOK'
  <2> SUFFICES ASSUME IndInv, IndInv', TypeOK, [Next]_vars PROVE TypeOK'
    OBVIOUS
  <2>1. CASE UNCHANGED vars
    BY <2>1 DEF TypeOK, vars, Para
  <2>2. CASE Make
    <3>1. /\ status = "building" /\ call' = call /\ Para' = Para
          /\ status' \in {"building", "done", "thrown", "dead"} /\ call \in Calls
      <4>1. status = "building" /\ call' = call
        BY <2>2 DEF Make, DataVoid, DataPointer, DataReference, DataArray, DataStruct, DataMem,
           VRegNamed, VRegPinned, VRegParameter, ArrayNamed, ArrayElement, ArrayElementThrows,
           ArrayElementDies, ListEnd, AtBase, Descends, Named, Loop, Listing, Building,
           Return, Throw, Die, Wrap, Push
      <4> QED
        BY <4>1 DEF IndInv, Para
    <3>2. /\ \E S : made \in Seq(S)
          /\ i \in Nat /\ Len(made) \in Nat
          /\ i > 0 => call.fun # "createDataType"
          /\ call.fun # "createDataType" => Len(made) = i /\ i <= Len(Para)
      BY <3>1, MadeSoFar
    <3>3. i <= Len(made)
      BY <3>2
    <3>4. CASE DataPointer \/ DataReference \/ DataArray
      <4>1. call.fun = "createDataType" /\ i' = i
        BY <3>4 DEF DataPointer, DataReference, DataArray, Descends, Building, Wrap
      <4>2. DOMAIN rest' = DOMAIN rest
        BY <3>4 DEF DataPointer, DataReference, DataArray, Wrap
      <4>3. PICK node : made' = Append(made, node)
        BY <3>4 DEF DataPointer, DataReference, DataArray, Wrap
      <4>4. Len(made') = Len(made) + 1
        BY <3>2, <4>3, OneMore
      <4> QED
        BY <3>1, <3>2, <4>1, <4>2, <4>4 DEF TypeOK
    <3>5. CASE /\ UNCHANGED <<rest, i>>
               /\ i = 0 /\ \E node : made' = Append(made, node)
      <4>1. PICK node : made' = Append(made, node)
        BY <3>5
      <4>2. Len(made') = Len(made) + 1
        BY <3>2, <4>1, OneMore
      <4> QED
        BY <3>1, <3>2, <3>5, <4>2 DEF TypeOK
    <3>6. CASE UNCHANGED <<rest, i, made>>
      BY <3>1, <3>6 DEF TypeOK
    <3>7. CASE /\ i < Len(Para) /\ call.fun # "createDataType" /\ rest' = rest
               /\ i' = i + 1 /\ \E node : made' = Append(made, node)
      <4>1. PICK node : made' = Append(made, node)
        BY <3>7
      <4>2. Len(made') = Len(made) + 1
        BY <3>2, <4>1, OneMore
      <4>3. Len(Para) \in Nat
        BY <3>1, <3>7, ListShape
      <4> QED
        BY <3>1, <3>2, <3>7, <4>2, <4>3 DEF TypeOK
    <3>8. CASE DataVoid \/ DataStruct \/ DataMem
      <4>1. call.fun = "createDataType"
        BY <3>8 DEF DataVoid, DataStruct, DataMem, AtBase, Descends, Building
      <4>2. i = 0
        BY <3>2, <4>1
      <4> QED
        BY <3>5, <3>6, <3>8, <4>2 DEF DataVoid, DataStruct, DataMem, Return, Throw
    <3>9. CASE VRegNamed \/ VRegPinned \/ ArrayNamed
      <4>1. i = 0
        BY <3>1, <3>9 DEF IndInv, ListSoFar, VRegNamed, VRegPinned, ArrayNamed, Named, Building, Info
      <4> QED
        BY <3>5, <3>6, <3>9, <4>1 DEF VRegNamed, VRegPinned, ArrayNamed, Return, Throw, Die
    <3>10. CASE VRegParameter \/ ArrayElement
      <4>1. i < Len(Para) /\ call.fun # "createDataType"
        BY <3>10 DEF VRegParameter, ArrayElement, Loop, Listing, Building
      <4> QED
        BY <3>6, <3>7, <3>10, <4>1 DEF VRegParameter, ArrayElement, Push, Throw
    <3>11. CASE ArrayElementThrows \/ ArrayElementDies \/ ListEnd
      BY <3>6, <3>11 DEF ArrayElementThrows, ArrayElementDies, ListEnd, Throw, Die
    <3> QED
      BY <2>2, <3>4, <3>8, <3>9, <3>10, <3>11 DEF Make
  <2> QED
    BY <2>1, <2>2 DEF Next, Ended
<1> QED
  BY Invariance, <1>1, <1>2, PTL DEF Spec

(* The tree of a data type is a pointer to a reference to an array of its  *)
(* base, whichever of them are declared.                                   *)
THEOREM TreeCorrect == Spec => []TypeTree
<1>1. IndInv => TypeTree
  BY DEF IndInv
<1> QED
  BY Invariance, <1>1, PTL

(* A list of any length has a node for each parameter, in their order.     *)
THEOREM ListCorrect == Spec => []ListInOrder
<1>1. IndInv => ListInOrder
  BY DEF IndInv
<1> QED
  BY Invariance, <1>1, PTL

(* A call throws because of a numeral it reads, and dies of what it was    *)
(* not written for, never otherwise.                                       *)
THEOREM EndCorrect == Spec => []EndsForAReason
<1>1. IndInv => EndsForAReason
  BY DEF IndInv
<1> QED
  BY Invariance, <1>1, PTL

-----------------------------------------------------------------------------
(* How long a call takes.                                                  *)

FlagsLeft == {f \in Flags : rest[f]}

(* What is left to do is a number, and none only when the call has ended.  *)
LEMMA LeftIsNumber ==
  ASSUME IndInv
  PROVE  /\ IsFiniteSet(FlagsLeft) /\ Cardinality(FlagsLeft) \in Nat
         /\ Left \in Nat /\ (status = "building" => Left > 0)
<1>1. IsFiniteSet(FlagsLeft) /\ Cardinality(FlagsLeft) \in Nat
  <2>1. IsFiniteSet({"isPointer"} \cup {"isRef"} \cup {"isArray"})
    BY FS_Singleton, FS_Union
  <2>2. FlagsLeft \subseteq {"isPointer"} \cup {"isRef"} \cup {"isArray"}
    BY DEF FlagsLeft, Flags
  <2> QED
    BY <2>1, <2>2, FS_Subset, FS_CardinalityType
<1>2. CASE status # "building"
  BY <1>1, <1>2 DEF Left
<1>3. CASE status = "building" /\ call.fun = "createDataType"
  BY <1>1, <1>3 DEF Left, FlagsLeft
<1>4. CASE status = "building" /\ call.fun # "createDataType"
  <2>1. i \in 0..Len(Para) /\ Len(Para) \in Nat
    BY <1>4, ListShape DEF IndInv, ListSoFar
  <2>2. Left = 1 + (Len(Para) - i)
    BY <1>4 DEF Left
  <2> QED
    BY <1>1, <2>1, <2>2
<1> QED
  BY <1>1, <1>2, <1>3, <1>4

(* A flag that is cleared is one less to deal with.                        *)
LEMMA OneFlagLess ==
  ASSUME IndInv, NEW f \in Flags, rest[f], rest' = [rest EXCEPT ![f] = FALSE],
         call.fun = "createDataType", status = "building", UNCHANGED <<call, status>>
  PROVE  Left' < Left
<1>1. FlagsLeft' = FlagsLeft \ {f} /\ f \in FlagsLeft
  <2>1. rest \in MetaDataTypes(Seq(STRING), STRING, -(MaxLong + 1) .. MaxLong)
    BY DEF IndInv, DataSoFar
  <2>2. \A g \in Flags : rest'[g] = IF g = f THEN FALSE ELSE rest[g]
    BY <2>1 DEF MetaDataTypes, Flags
  <2> QED
    BY <2>2 DEF FlagsLeft
<1>2. Cardinality(FlagsLeft') = Cardinality(FlagsLeft) - 1
  BY <1>1, LeftIsNumber, FS_RemoveElement
<1>3. Left = 1 + Cardinality(FlagsLeft) /\ Left' = 1 + Cardinality(FlagsLeft')
  BY DEF Left, FlagsLeft
<1> QED
  BY <1>2, <1>3, LeftIsNumber

(* Each step of a call leaves less to do.                                  *)
LEMMA WorkStep ==
  IndInv /\ (Left \in Nat)' /\ [Next]_vars => [Left' < Left /\ Left' >= 0]_vars
<1> SUFFICES ASSUME IndInv, Left' \in Nat, Make PROVE Left' < Left /\ Left' >= 0
  BY DEF Next, Ended
<1>1. Left \in Nat /\ (status = "building" => Left > 0)
  BY LeftIsNumber
<1>2. Left' >= 0
  OBVIOUS
<1>3. CASE status = "building" /\ status' # "building"
  BY <1>1, <1>3 DEF Left
<1>4. CASE DataPointer \/ DataReference \/ DataArray
  <2>1. call.fun = "createDataType" /\ status = "building" /\ UNCHANGED <<call, status>>
    BY <1>4 DEF DataPointer, DataReference, DataArray, Descends, Building, Wrap
  <2>2. \E f \in Flags : rest[f] /\ rest' = [rest EXCEPT ![f] = FALSE]
    BY <1>4 DEF DataPointer, DataReference, DataArray, Wrap, Flags
  <2> QED
    BY <1>2, <2>1, <2>2, OneFlagLess
<1>5. CASE (VRegParameter \/ ArrayElement) /\ status' = status
  <2>1. /\ call.fun # "createDataType" /\ status = "building" /\ i < Len(Para) /\ call' = call
        /\ i' = i + 1
    BY <1>5 DEF VRegParameter, ArrayElement, Loop, Listing, Building, Push, Throw
  <2>2. i \in Nat /\ Len(Para) \in Nat
    BY <2>1, ListShape DEF IndInv, ListSoFar
  <2>3. Left = 1 + (Len(Para) - i) /\ Left' = 1 + (Len(Para) - (i + 1))
    BY <1>5, <2>1 DEF Left, Para
  <2> QED
    BY <1>2, <2>2, <2>3
<1>6. /\ status = "building"
      /\ \/ status' # "building" \/ DataPointer \/ DataReference \/ DataArray
         \/ (VRegParameter \/ ArrayElement) /\ status' = status
  BY DEF Make, DataVoid, DataPointer, DataReference, DataArray, DataStruct, DataMem,
     VRegNamed, VRegPinned, VRegParameter, ArrayNamed, ArrayElement, ArrayElementThrows,
     ArrayElementDies, ListEnd, AtBase, Descends, Named, Loop, Listing, Building,
     Return, Throw, Die, Wrap, Push
<1> QED
  BY <1>2, <1>3, <1>4, <1>5, <1>6

(* A call takes no more steps than its argument has flags or parameters,   *)
(* and one.                                                                *)
THEOREM WorkCorrect == Spec => WorkBounded
<1>1. IndInv => Left \in Nat
  BY LeftIsNumber
<1> QED
  BY Invariance, WorkStep, <1>1, PTL DEF Spec, WorkBounded

=============================================================================
