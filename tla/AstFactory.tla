----------------------------- MODULE AstFactory -----------------------------
(***************************************************************************)
(* The functions of compiler/src/lib/header/createSyntax.h that turn what  *)
(* a parser has collected (createSyntaxData.h) into nodes of the syntax    *)
(* tree: createDataType, createVReg and createArray with all they call.    *)
(* One behaviour is one call; a step is one recursive call of              *)
(* createDataType, one turn of a loop, or a return.                        *)
(*                                                                         *)
(* A numeral is what std::stoll tells apart of a string: whether digits    *)
(* stand at its beginning, after blanks and a sign if there are any, and   *)
(* the number they spell. What follows them is not looked at: 12.5 is      *)
(* twelve. MaxLong stands for 2^63 - 1.                                    *)
(***************************************************************************)
EXTENDS Integers, Sequences, FiniteSets

CONSTANTS
  MaxLong,   \* the largest long long
  Calls      \* the calls made: records of a function's name and argument

ASSUME LongAssumption == MaxLong \in Nat

(* A string that spells no number: it is empty, or .5, or a lone sign. The *)
(* numbers beyond a long long stand for all those on their side of it.     *)
NoNumber == [spelt |-> FALSE, value |-> 0]
Numerals == {NoNumber} \cup [spelt : {TRUE}, value : -(MaxLong + 2) .. MaxLong + 1]

Readable(num) == num.spelt /\ num.value \in -(MaxLong + 1) .. MaxLong
stoll(num) == num.value

(* A negative number becomes 2^64 less its absolute value.                 *)
uint64(n) == n % (2 * (MaxLong + 1))

(* In createSyntaxData.h the empty string means that no register is meant. *)
NoReg == ""

MetaDataTypes(structs, regs, lengths) ==
  [parentStructs : structs, intBits : Numerals, floatBits : Numerals, reg : regs,
   arrayLength : lengths, isArray : BOOLEAN, isVoid : BOOLEAN, isRef : BOOLEAN,
   isPointer : BOOLEAN]

(* The arguments the types of createSyntaxData.h allow.                    *)
Paras == [kind : STRING, number : Numerals, lexeme : Seq(STRING)]
MetaVRegs == [para : Seq(Numerals), name : STRING, reg : STRING, isCall : BOOLEAN]
MetaArrays == [para : Seq(Paras), name : STRING, isCall : BOOLEAN]

ASSUME CallsAssumption ==
  \A c \in Calls :
    \/ c.fun = "createDataType" /\ c.info \in MetaDataTypes(Seq(STRING), STRING, -(MaxLong + 1) .. MaxLong)
    \/ c.fun = "createVReg" /\ c.info \in MetaVRegs
    \/ c.fun = "createArray" /\ c.info \in MetaArrays

VARIABLES
  call,      \* the call being made
  rest,      \* createDataType: the copy of its argument handed down so far
  i,         \* the loops: parameters dealt with
  made,      \* the nodes made: for a type each the child of the one before
  status     \* "building", "done", "thrown", or "dead" with the process

vars == <<call, rest, i, made, status>>

Init ==
  /\ call \in Calls
  /\ rest = call.info
  /\ i = 0
  /\ made = <<>>
  /\ status = "building"

-----------------------------------------------------------------------------
(* Nodes.                                                                  *)
Null == [node |-> "null"]
RegPinnedType(name) == [node |-> "RegPinnedType", name |-> name]
MemType(int, frac, reg) ==
  [node |-> "MemType", integer_bits |-> int, fraction_bits |-> frac,
   reg_pin |-> IF reg = NoReg THEN Null ELSE RegPinnedType(reg)]
StructType(names) == [node |-> "StructType", struct_name |-> names]
IntegerLiteral(v) == [node |-> "IntegerLiteral", value |-> v]
FloatLiteral(v) == [node |-> "FloatLiteral", value |-> v]
(* The value of an IntegerLiteral is a uint64_t, that of a FloatLiteral a  *)
(* double, which keeps the sign (its rounding is left out).                *)
createInt(num) == IntegerLiteral(uint64(stoll(num)))
createFloat(num) == FloatLiteral(stoll(num))
CharLiteral(c) == [node |-> "CharLiteral", value |-> c]
InitializerListExpr(s) == [node |-> "InitializerListExpr", elements |-> s]
(* What is there when a function ends without a return, or past a vector.  *)
Garbage == [node |-> "garbage"]

Building(f) == status = "building" /\ call.fun = f

Return(node) ==
  /\ made' = Append(made, node)
  /\ status' = "done"
  /\ UNCHANGED <<call, rest, i>>

Throw == status' = "thrown" /\ UNCHANGED <<call, rest, i, made>>
Die == status' = "dead" /\ UNCHANGED <<call, rest, i, made>>

-----------------------------------------------------------------------------
(* createDataType. A type that is not void is wrapped from the outside in. *)

DataVoid ==
  /\ Building("createDataType") /\ rest.isVoid
  /\ Return(MemType(0, 0, NoReg))

(* The node of a flag, and createDataType again without the flag.          *)
Wrap(unflagged, node) ==
  /\ rest' = unflagged
  /\ made' = Append(made, node)
  /\ UNCHANGED <<call, i, status>>

Descends == Building("createDataType") /\ ~rest.isVoid

DataPointer ==
  /\ Descends /\ rest.isPointer
  /\ Wrap([rest EXCEPT !.isPointer = FALSE], [node |-> "PointerType"])

(* Variant: a reference is looked for before a pointer.                    *)
DataReferenceFirst ==
  /\ Descends /\ rest.isRef
  /\ Wrap([rest EXCEPT !.isRef = FALSE], [node |-> "ReferenceType"])

DataReference ==
  /\ Descends /\ ~rest.isPointer /\ rest.isRef
  /\ Wrap([rest EXCEPT !.isRef = FALSE], [node |-> "ReferenceType"])

(* Variant: the flag stays set in the copy here too.                       *)
DataArrayAgain ==
  /\ Descends /\ ~rest.isPointer /\ ~rest.isRef /\ rest.isArray
  /\ Wrap(rest, [node |-> "ArrayType", size |-> uint64(rest.arrayLength)])

DataArray ==
  /\ Descends /\ ~rest.isPointer /\ ~rest.isRef /\ rest.isArray
  /\ Wrap([rest EXCEPT !.isArray = FALSE],
          [node |-> "ArrayType", size |-> uint64(rest.arrayLength)])

AtBase == Descends /\ ~rest.isPointer /\ ~rest.isRef /\ ~rest.isArray

DataStruct ==
  /\ AtBase /\ rest.parentStructs # <<>>
  /\ Return(StructType(rest.parentStructs))

Bits(num) == uint64(stoll(num))

(* Variant: bits that cannot be read count as none.                        *)
DataMemLenient ==
  /\ AtBase /\ rest.parentStructs = <<>>
  /\ Return(MemType(Bits(rest.intBits), Bits(rest.floatBits), rest.reg))

DataMem ==
  /\ AtBase /\ rest.parentStructs = <<>>
  /\ IF Readable(rest.intBits) /\ Readable(rest.floatBits)
       THEN Return(MemType(Bits(rest.intBits), Bits(rest.floatBits), rest.reg))
       ELSE Throw

-----------------------------------------------------------------------------
(* createVReg and createArray. A call by name makes one node; a list       *)
(* literal pushes a node a turn, onto a VRegType or an InitializerListExpr.*)

(* Variant: the node goes to the front.                                    *)
PushFront(node) ==
  /\ made' = <<node>> \o made
  /\ i' = i + 1
  /\ UNCHANGED <<call, rest, status>>

Push(node) ==
  /\ made' = Append(made, node)
  /\ i' = i + 1
  /\ UNCHANGED <<call, rest, status>>

Para == call.info.para
Named(f) == Building(f) /\ call.info.isCall

Listing ==
  /\ \/ Building("createArray")
     \/ Building("createVReg") /\ call.info.reg = NoReg
  /\ ~call.info.isCall

Loop(f) == Listing /\ call.fun = f /\ i < Len(Para)

ListEnd ==
  /\ Listing /\ i = Len(Para)
  /\ status' = "done"
  /\ UNCHANGED <<call, rest, i, made>>

VRegNamed ==
  /\ Named("createVReg")
  /\ Return([node |-> "VRegRefExpr", name |-> call.info.name])

(* The register is the only parameter then.                                *)
VRegPinned ==
  /\ Building("createVReg") /\ ~call.info.isCall /\ call.info.reg # NoReg
  /\ Return(RegPinnedType(call.info.reg))

VRegParameter ==
  /\ Loop("createVReg")
  /\ LET num == Para[i + 1] IN
       IF Readable(num) THEN Push(createInt(num)) ELSE Throw

IndexExpr(index) == [node |-> "ArrayIndexExpr", name |-> call.info.name, index |-> index]

(* The index is read as a number whatever its kind. Without parameters     *)
(* para[0] is past the vector's end: the process dies of it, or an         *)
(* exception or some index comes of it.                                    *)
ArrayNamed ==
  /\ Named("createArray")
  /\ IF Para = <<>> THEN Die \/ Throw \/ Return(IndexExpr(Garbage))
     ELSE IF Readable(Para[1].number)
       THEN Return(IndexExpr(createInt(Para[1].number)))
       ELSE Throw

CharLiterals(lexeme) == [k \in 1..Len(lexeme) |-> CharLiteral(lexeme[k])]

(* Of a character only the first of the lexeme counts, for an escape the   *)
(* backslash, and the terminating null of an empty one; a string is a list *)
(* of its own. No other kind has a case.                                   *)
FirstChar(lexeme) == IF lexeme = <<>> THEN "null" ELSE lexeme[1]

createLit(para) ==
  CASE para.kind = "TOKEN_INTEGER" -> createInt(para.number)
    [] para.kind = "TOKEN_FLOAT" -> createFloat(para.number)
    [] para.kind = "TOKEN_CHAR" -> CharLiteral(FirstChar(para.lexeme))
    [] para.kind = "TOKEN_STRING" -> InitializerListExpr(CharLiterals(para.lexeme))
    [] OTHER -> Garbage

IsNumber(para) == para.kind \in {"TOKEN_INTEGER", "TOKEN_FLOAT"}

(* Variant: a string's characters go into the list itself.                 *)
ArrayElementFlat ==
  /\ Loop("createArray") /\ Para[i + 1].kind = "TOKEN_STRING"
  /\ made' = made \o CharLiterals(Para[i + 1].lexeme)
  /\ i' = i + 1
  /\ UNCHANGED <<call, rest, status>>

ArrayElement ==
  /\ Loop("createArray")
  /\ IsNumber(Para[i + 1]) => Readable(Para[i + 1].number)
  /\ Push(createLit(Para[i + 1]))

ArrayElementThrows ==
  /\ Loop("createArray")
  /\ IsNumber(Para[i + 1]) /\ ~Readable(Para[i + 1].number)
  /\ Throw

(* Where no case applies createLit runs off its end without a return: the  *)
(* process dies of it, there or later, if it does not go on with whatever  *)
(* is in the pointer.                                                      *)
ArrayElementDies ==
  /\ Loop("createArray") /\ Para[i + 1].kind = "other"
  /\ Die

-----------------------------------------------------------------------------
Make ==
  \/ DataVoid \/ DataPointer \/ DataReference \/ DataArray \/ DataStruct \/ DataMem
  \/ VRegNamed \/ VRegPinned \/ VRegParameter
  \/ ArrayNamed \/ ArrayElement \/ ArrayElementThrows \/ ArrayElementDies
  \/ ListEnd

Ended == status # "building" /\ UNCHANGED vars

Next == Make \/ Ended

Spec == Init /\ [][Next]_vars

-----------------------------------------------------------------------------
(* What a call makes, read off its argument.                               *)

Info == call.info

(* The wrappers of a type, outermost first: a pointer, a reference, an     *)
(* array, and last what they are made of.                                  *)
Wrapper(flag, name) == IF flag THEN <<name>> ELSE <<>>
Wrappers ==
  Wrapper(Info.isPointer, "PointerType") \o Wrapper(Info.isRef, "ReferenceType")
    \o Wrapper(Info.isArray, "ArrayType")

(* A number that is stored without a sign is the one declared, or, if that *)
(* is negative, greater than any that can be declared.                     *)
Unsigned(stored, declared) ==
  IF declared >= 0 THEN stored = declared ELSE stored > MaxLong

IsBase(node) ==
  IF Info.parentStructs # <<>> THEN node = StructType(Info.parentStructs)
  ELSE /\ node.node = "MemType"
       /\ Unsigned(node.integer_bits, Info.intBits.value)
       /\ Unsigned(node.fraction_bits, Info.floatBits.value)
       /\ node.reg_pin = IF Info.reg = NoReg THEN Null ELSE RegPinnedType(Info.reg)

IsInteger(node, num) == node.node = "IntegerLiteral" /\ Unsigned(node.value, num.value)

(* What stands for a literal in a list; for another token anything does.   *)
IsLiteral(node, para) ==
  /\ para.kind = "TOKEN_INTEGER" => IsInteger(node, para.number)
  /\ para.kind = "TOKEN_FLOAT" => node = FloatLiteral(para.number.value)
  /\ para.kind = "TOKEN_CHAR" =>
       node = CharLiteral(IF para.lexeme = <<>> THEN "null" ELSE Head(para.lexeme))
  /\ para.kind = "TOKEN_STRING" =>
       /\ node.node = "InitializerListExpr" /\ Len(node.elements) = Len(para.lexeme)
       /\ \A k \in DOMAIN para.lexeme : node.elements[k] = CharLiteral(para.lexeme[k])

(* The numerals a call has to read.                                        *)
Read ==
  CASE call.fun = "createDataType" ->
         IF Info.isVoid \/ Info.parentStructs # <<>> THEN {}
         ELSE {Info.intBits, Info.floatBits}
    [] call.fun = "createVReg" ->
         IF Info.isCall \/ Info.reg # NoReg THEN {} ELSE {Para[k] : k \in DOMAIN Para}
    [] call.fun = "createArray" ->
         {Para[k].number : k \in {j \in DOMAIN Para :
            IF Info.isCall THEN j = 1 ELSE IsNumber(Para[j])}}

(* It also meets something it was not written for.                         *)
Unforeseen ==
  /\ call.fun = "createArray"
  /\ IF Info.isCall THEN Para = <<>> ELSE \E k \in DOMAIN Para : Para[k].kind = "other"

-----------------------------------------------------------------------------
(* Every variable stays in its range.                                      *)
TypeOK ==
  /\ call \in Calls
  /\ DOMAIN rest = DOMAIN call.info
  /\ i \in 0..Len(made)
  /\ i > 0 => Len(made) = i /\ i <= Len(Para)
  /\ status \in {"building", "done", "thrown", "dead"}

(* The tree of a data type has its wrappers in one order, whatever was     *)
(* declared first: a pointer to a reference to an array of the base. The   *)
(* length of the array and the bits of the base are those declared, or,    *)
(* where a negative one was, greater than any that can be. Nothing of a    *)
(* void type's wrappers is left.                                           *)
TypeTree ==
  call.fun = "createDataType" /\ status = "done" =>
    IF Info.isVoid THEN made = <<MemType(0, 0, NoReg)>>
    ELSE /\ Len(made) = Len(Wrappers) + 1
         /\ \A k \in DOMAIN Wrappers :
              /\ made[k].node = Wrappers[k]
              /\ Wrappers[k] = "ArrayType" => Unsigned(made[k].size, Info.arrayLength)
         /\ IsBase(made[Len(made)])

(* A list has one node for each parameter, in their order, strings as one  *)
(* nested list; a register pin stands for all parameters. The index of an  *)
(* array is the number its first parameter begins with, whatever it is,    *)
(* and like the others greater than any number if that is negative.        *)
ListInOrder ==
  status = "done" =>
    /\ call.fun = "createArray" /\ ~Info.isCall =>
         Len(made) = Len(Para) /\ \A k \in DOMAIN Para : IsLiteral(made[k], Para[k])
    /\ call.fun = "createArray" /\ Info.isCall =>
         /\ Len(made) = 1 /\ made[1].name = Info.name
         /\ Para # <<>> => IsInteger(made[1].index, Para[1].number)
    /\ call.fun = "createVReg" /\ ~Info.isCall =>
         IF Info.reg # NoReg THEN made = <<RegPinnedType(Info.reg)>>
         ELSE Len(made) = Len(Para) /\ \A k \in DOMAIN Para : IsInteger(made[k], Para[k])

(* A call throws only because of a numeral it reads that stoll cannot, and *)
(* then always; one that is not looked at (a struct's bits, a pinned       *)
(* vreg's parameters) does no harm. The process dies of a missing return   *)
(* or a missing index only.                                                *)
EndsForAReason ==
  /\ status = "done" => \A num \in Read : Readable(num)
  /\ status = "thrown" => Unforeseen \/ \E num \in Read : ~Readable(num)
  /\ status = "dead" => Unforeseen

Flags == {"isPointer", "isRef", "isArray"}
Left ==
  IF status # "building" THEN 0
  ELSE 1 + IF call.fun = "createDataType" THEN Cardinality({f \in Flags : rest[f]})
           ELSE Len(Para) - i

(* A data type takes no more calls than it has flags and one, since the    *)
(* recursion hands down a copy of the argument with one flag cleared; a    *)
(* list no more turns than parameters and one, whatever becomes of them.   *)
WorkBounded == [][Left' < Left /\ Left' >= 0]_vars
=============================================================================
