---------------------------- MODULE AstDumpProofs ----------------------------
(***************************************************************************)
(* Proofs about AstDump: what the text of a dump tells of the tree, for    *)
(* any number of files and trees of any size.                              *)
(***************************************************************************)
EXTENDS AstDump, FiniteSetTheorems, TLAPS

(* The nodes that are reached, the calls for them and the lines written.   *)
Reached == {"declarations", "initializer", "left", "right"}
Nodes == Seq(Reached \X Nat)
CallSet == [node : Nodes, indent : Nat]

NodeNames ==
  {"TranslationUnit", "VariableDecl", "FunctionDecl", "IntegerLiteral", "IdentifierExpr",
   "Unknown"}
Details == {"name", "value", "op", ""}
NodeLineSet ==
  [file : Nat, line : {"node"}, indent : Nat, name : NodeNames, detail : Details, node : Nodes]
LineSet == [file : Nat, line : {"File", "TranslationUnit", "blank"}] \cup NodeLineSet

TypesRight ==
  /\ syn \in Inputs
  /\ file \in 0..Len(syn)
  /\ mode \in {"files", "tree", "done"}
  /\ pending \in Seq(CallSet)
  /\ out \in Seq(LineSet)

(* The last line that is indented so far is that of the node.              *)
LastAt(indent, node) ==
  \E m \in NodeLines :
    /\ out[m].indent = indent /\ out[m].node = node
    /\ \A l \in NodeLines : l > m => out[l].indent # indent

(* The calls to come are those below the nodes written last, the deepest   *)
(* first, and are indented by as much as they are below the unit.          *)
PendingSoFar ==
  \A k \in DOMAIN pending :
    /\ pending[k].indent = Len(pending[k].node) /\ pending[k].indent >= 1
    /\ \A j \in DOMAIN pending : j < k => pending[j].indent >= pending[k].indent
    /\ pending[k].indent > 1 => LastAt(pending[k].indent - 1, Front(pending[k].node))

(* Nothing is pending between two files.                                   *)
PendingInTree == mode # "tree" => pending = <<>>

(* A line's parent is the last before it that is indented by one less.     *)
ParentAbove(n) ==
  \E m \in NodeLines :
    /\ m < n
    /\ out[m].indent = out[n].indent - 1 /\ out[m].node = Front(out[n].node)
    /\ \A l \in NodeLines : m < l /\ l < n => out[l].indent # out[n].indent - 1

ParentsSoFar ==
  \A n \in NodeLines :
    IF out[n].indent = 1 THEN Len(out[n].node) = 1 ELSE ParentAbove(n)

(* A line says what it can of the kind of its node.                        *)
LinesSoFar ==
  \A n \in NodeLines :
    /\ out[n].name = nodeKindToName(syn[out[n].file][out[n].node])
    /\ out[n].detail = Detail(syn[out[n].file][out[n].node])

IndInv == TypesRight /\ PendingSoFar /\ PendingInTree /\ ParentsSoFar /\ LinesSoFar

-----------------------------------------------------------------------------
(* A non-empty set of naturals has a least element.                        *)
LEMMA Least ==
  ASSUME NEW B \in SUBSET Nat, B # {}
  PROVE  \E n \in B : \A m \in B : n <= m
<1>1. PICK n \in B : \A m \in B : ~(<<m, n>> \in OpToRel(<, Nat))
  BY NatLessThanWellFounded, WFMin
<1>2. \A m \in B : ~(m < n)
  BY <1>1 DEF OpToRel
<1> QED
  BY <1>2

(* A finite non-empty set of naturals has a greatest element.              *)
LEMMA Greatest ==
  ASSUME NEW S \in SUBSET Nat, IsFiniteSet(S), S # {}
  PROVE  Max(S) \in S /\ \A y \in S : y <= Max(S)
<1> DEFINE U == {n \in Nat : \E T \in SUBSET S : Cardinality(T) = n /\ IsFiniteSet(T) /\ T # {}
                              /\ ~ \E x \in T : \A y \in T : y <= x}
<1>1. U = {}
  <2> SUFFICES ASSUME U # {} PROVE FALSE
    OBVIOUS
  <2>1. PICK n \in U : \A m \in U : ~(m < n)
    <3>1. U \in SUBSET Nat
      OBVIOUS
    <3> HIDE DEF U
    <3>2. PICK n \in U : \A m \in U : n <= m
      BY <3>1, Least
    <3> QED
      BY <3>1, <3>2
  <2>2. PICK T \in SUBSET S : /\ Cardinality(T) = n /\ IsFiniteSet(T) /\ T # {}
                              /\ ~ \E x \in T : \A y \in T : y <= x
    BY <2>1
  <2>3. PICK z \in T : TRUE
    BY <2>2
  <2> DEFINE V == T \ {z}
  <2>4. IsFiniteSet(V) /\ Cardinality(V) = n - 1 /\ V \in SUBSET S
    BY <2>2, <2>3, FS_RemoveElement
  <2>5. CASE V = {}
    BY <2>2, <2>3, <2>5
  <2>6. CASE V # {}
    <3>1. n - 1 \in Nat
      BY <2>4, FS_CardinalityType
    <3>2. \E x \in V : \A y \in V : y <= x
      <4>1. n - 1 < n
        BY <3>1
      <4>2. n - 1 \notin U
        BY <2>1, <4>1
      <4> HIDE DEF V
      <4> QED
        BY <2>4, <2>6, <3>1, <4>2
    <3>3. PICK x \in V : \A y \in V : y <= x
      BY <3>2
    <3>4. x \in T /\ z \in T /\ x \in Nat /\ z \in Nat /\ T = V \cup {z} /\ V \subseteq Nat
      BY <2>3, <3>3
    <3>5. CASE z <= x
      BY <2>2, <3>3, <3>4, <3>5
    <3>6. CASE ~(z <= x)
      <4>1. \A y \in T : y <= z
        BY <3>3, <3>4, <3>6
      <4> QED
        BY <2>2, <3>4, <4>1
    <3> QED
      BY <3>5, <3>6
  <2> QED
    BY <2>5, <2>6
<1>2. Cardinality(S) \in Nat
  BY FS_CardinalityType
<1>3. \E x \in S : \A y \in S : y <= x
  <2>1. Cardinality(S) \notin U
    BY <1>1
  <2> QED
    BY <1>2, <2>1
<1>4. PICK x \in S : \A y \in S : x >= y
  BY <1>3
<1>5. Max(S) \in S /\ \A y \in S : Max(S) >= y
  BY <1>4 DEF Max
<1> QED
  BY <1>5

(* An element that no other exceeds is the greatest.                       *)
LEMMA MaxIs ==
  ASSUME NEW S \in SUBSET Nat, NEW x \in S, \A y \in S : y <= x
  PROVE  Max(S) = x
<1>1. \A y \in S : x >= y
  OBVIOUS
<1>2. Max(S) \in S /\ \A y \in S : Max(S) >= y
  BY <1>1 DEF Max
<1>3. Max(S) \in Nat /\ x \in Nat /\ Max(S) >= x /\ Max(S) <= x
  BY <1>2
<1> QED
  BY <1>3

-----------------------------------------------------------------------------
(* The output grows at its end.                                            *)

(* A line that is no node's.                                               *)
LEMMA OtherLine ==
  ASSUME out \in Seq(LineSet), NEW l \in LineSet, l.line # "node", out' = Append(out, l)
  PROVE  /\ out' \in Seq(LineSet) /\ NodeLines' = NodeLines
         /\ \A n \in NodeLines : out'[n] = out[n]
BY DEF NodeLines

(* The line of a node.                                                     *)
LEMMA OneNodeLine ==
  ASSUME out \in Seq(LineSet), NEW l \in LineSet, l.line = "node", out' = Append(out, l)
  PROVE  /\ out' \in Seq(LineSet) /\ NodeLines' = NodeLines \cup {Len(out) + 1}
         /\ out'[Len(out) + 1] = l
         /\ \A n \in NodeLines : out'[n] = out[n] /\ n \in Nat /\ n < Len(out) + 1
BY DEF NodeLines

(* What is there of nodes' lines when none is added.                       *)
LEMMA LinesKept ==
  ASSUME NodeLines' = NodeLines, \A n \in NodeLines : out'[n] = out[n], syn' = syn
  PROVE  /\ ParentsSoFar => ParentsSoFar'
         /\ LinesSoFar => LinesSoFar'
         /\ \A indent, node : LastAt(indent, node) => LastAt(indent, node)'
<1>1. ASSUME LinesSoFar PROVE LinesSoFar'
  BY <1>1 DEF LinesSoFar
<1>2. ASSUME NEW indent, NEW node, LastAt(indent, node) PROVE LastAt(indent, node)'
  BY <1>2 DEF LastAt
<1>3. ASSUME NEW n \in NodeLines, ParentAbove(n) PROVE ParentAbove(n)'
  BY <1>3 DEF ParentAbove
<1>4. ASSUME ParentsSoFar PROVE ParentsSoFar'
  BY <1>3, <1>4 DEF ParentsSoFar
<1> QED
  BY <1>1, <1>2, <1>4

(* The calls a node is followed by: one deeper, in a sequence.             *)
LEMMA CallsOf ==
  ASSUME NEW call \in CallSet
  PROVE  /\ Calls(call) \in Seq(CallSet)
         /\ \A k \in DOMAIN Calls(call) :
              /\ Calls(call)[k].indent = call.indent + 1
              /\ Len(Calls(call)[k].node) = Len(call.node) + 1
              /\ Front(Calls(call)[k].node) = call.node
<1> DEFINE f == Followed(Tree[call.node])
           node(k) == Append(call.node, <<f[k], 0>>)
<1>1. f \in Seq(Reached)
  <2>1. /\ <<"initializer">> \in Seq(Reached) /\ <<"left", "right">> \in Seq(Reached)
        /\ <<>> \in Seq(Reached)
    BY DEF Reached
  <2>2. f \in {<<"initializer">>, <<"left", "right">>, <<>>}
    BY DEF Followed
  <2> QED
    BY <2>1, <2>2
<1> HIDE DEF f
<1>2. ASSUME NEW k \in DOMAIN f
      PROVE  node(k) \in Nodes /\ Len(node(k)) = Len(call.node) + 1 /\ Front(node(k)) = call.node
  <2>1. call.node \in Seq(Reached \X Nat) /\ <<f[k], 0>> \in Reached \X Nat
    BY <1>1, <1>2 DEF CallSet, Nodes
  <2>2. node(k) \in Nodes /\ Len(node(k)) = Len(call.node) + 1
    BY <2>1 DEF Nodes
  <2>3. SubSeq(node(k), 1, Len(node(k)) - 1) = call.node
    BY <2>1
  <2> QED
    BY <2>2, <2>3 DEF Front
<1>3. Calls(call) = [k \in DOMAIN f |-> [node |-> node(k), indent |-> call.indent + 1]]
  BY DEF Calls, Call, f
<1>4. \A k \in DOMAIN f : [node |-> node(k), indent |-> call.indent + 1] \in CallSet
  BY <1>2 DEF CallSet
<1> HIDE DEF node
<1>5. DOMAIN f = 1..Len(f) /\ Len(f) \in Nat
  BY <1>1
<1>6. Calls(call) \in Seq(CallSet)
  BY <1>3, <1>4, <1>5
<1> QED
  BY <1>2, <1>3, <1>6

(* The numbers of declarations are finitely many.                          *)
LEMMA SizesFinite ==
  ASSUME NEW t, IsTree(t)
  PROVE  LET sizes == {0} \cup {p[1][2] : p \in DOMAIN t \ {<<>>}}
         IN sizes \in SUBSET Nat /\ IsFiniteSet(sizes) /\ sizes # {}
<1> DEFINE P == DOMAIN t \ {<<>>}
           I == {p[1][2] : p \in P}
<1>1. IsFiniteSet(P) /\ P \subseteq Seq(STRING \X Nat)
  BY FS_Subset DEF IsTree
<1>2. ASSUME NEW p \in P PROVE p[1][2] \in Nat
  <2>1. p \in Seq(STRING \X Nat) /\ p # <<>>
    BY <1>1, <1>2
  <2>2. p[1] \in STRING \X Nat
    BY <2>1
  <2> QED
    BY <2>2
<1>3. IsFiniteSet(I)
  <2> DEFINE g == [p \in P |-> p[1][2]]
  <2>1. g \in Surjection(P, I)
    BY DEF Surjection
  <2> QED
    BY <1>1, <2>1, FS_Surjection
<1>4. IsFiniteSet({0} \cup I) /\ {0} \cup I \in SUBSET Nat /\ {0} \cup I # {}
  <2>1. IsFiniteSet(I \cup {0}) /\ I \cup {0} = {0} \cup I
    BY <1>3, FS_AddElement
  <2>2. I \subseteq Nat
    BY <1>2
  <2> HIDE DEF I
  <2> QED
    BY <2>1, <2>2
<1> QED
  BY <1>4

(* The calls a unit begins with: as many as its last declaration has.      *)
LEMMA DeclarationsOf ==
  ASSUME NEW t, IsTree(t)
  PROVE  /\ Declarations(t) \in Seq(CallSet)
         /\ \A k \in DOMAIN Declarations(t) :
              Declarations(t)[k].indent = 1 /\ Len(Declarations(t)[k].node) = 1
<1>5. Size(t) \in Nat
  BY SizesFinite, Greatest DEF Size
<1>6. ASSUME NEW n \in Nat
      PROVE  Len(<<<<"declarations", n>>>>) = 1 /\ <<<<"declarations", n>>>> \in Nodes
  <2>1. <<"declarations", n>> \in Reached \X Nat
    BY DEF Reached
  <2> DEFINE slot == <<"declarations", n>>
  <2> HIDE DEF slot
  <2>2. Len(<<slot>>) = 1 /\ <<slot>> \in Seq(Reached \X Nat)
    BY <2>1 DEF slot
  <2> QED
    BY <2>2 DEF Nodes, slot
<1>7. Declarations(t) =
        [n \in 1..Size(t) |-> [node |-> <<<<"declarations", n>>>>, indent |-> 1]]
  BY DEF Declarations, Call
<1>8. \A n \in 1..Size(t) : [node |-> <<<<"declarations", n>>>>, indent |-> 1] \in CallSet
  <2> SUFFICES ASSUME NEW n \in 1..Size(t)
               PROVE  [node |-> <<<<"declarations", n>>>>, indent |-> 1] \in CallSet
    OBVIOUS
  <2>1. <<<<"declarations", n>>>> \in Nodes
    BY <1>5, <1>6
  <2> QED
    BY <2>1, Zenon, 1 \in Nat DEF CallSet
<1>9. Declarations(t) \in Seq(CallSet)
  BY <1>5, <1>7, <1>8
<1> QED
  BY <1>5, <1>6, <1>7, <1>9

-----------------------------------------------------------------------------
(* The steps.                                                              *)

(* A file is begun, with or without a tree.                                *)
LEMMA FileStep ==
  ASSUME IndInv, FileWithoutTree \/ FileWithTree
  PROVE  IndInv'
<1> USE DEF IndInv
<1>1. /\ mode = "files" /\ pending = <<>> /\ syn' = syn /\ file' = file + 1
      /\ file' \in 1..Len(syn) /\ Len(syn) \in Nat /\ DOMAIN syn = 1..Len(syn)
      /\ \A k \in DOMAIN syn : IsTree(syn[k])
      /\ out \in Seq(LineSet)
  <2>1. mode = "files" /\ file < Len(syn) /\ file' = file + 1 /\ syn' = syn
    BY DEF FileWithoutTree, FileWithTree, BeginFile
  <2>2. /\ Len(syn) \in Nat /\ DOMAIN syn = 1..Len(syn)
        /\ \A k \in DOMAIN syn : IsTree(syn[k])
    BY InputsAssumption DEF TypesRight
  <2> QED
    BY <2>1, <2>2 DEF TypesRight, PendingInTree
<1>2. PICK l \in LineSet : l.line # "node" /\ out' = out \o <<FileLine, l>>
  <2>1. UnitLine \in LineSet /\ BlankLine \in LineSet
    BY <1>1 DEF UnitLine, BlankLine, LineSet
  <2>2. UnitLine.line # "node" /\ BlankLine.line # "node"
    BY DEF UnitLine, BlankLine
  <2> QED
    BY <2>1, <2>2 DEF FileWithoutTree, FileWithTree
<1>3. /\ out' \in Seq(LineSet) /\ NodeLines' = NodeLines
      /\ \A n \in NodeLines : out'[n] = out[n]
  <2>1. FileLine \in LineSet /\ FileLine.line # "node"
    BY <1>1 DEF FileLine, LineSet
  <2> HIDE DEF FileLine
  <2>2. /\ Len(out') = Len(out) + 2 /\ out' \in Seq(LineSet)
        /\ out'[Len(out) + 1] = FileLine /\ out'[Len(out) + 2] = l
        /\ \A n \in 1..Len(out) : out'[n] = out[n]
    BY <1>1, <1>2, <2>1
  <2> QED
    BY <1>1, <1>2, <2>1, <2>2 DEF NodeLines
<1>4. ParentsSoFar' /\ LinesSoFar'
  BY <1>1, <1>3, LinesKept
<1>5. CASE FileWithoutTree
  <2>1. pending' = <<>> /\ mode' = "files"
    BY <1>1, <1>5 DEF FileWithoutTree
  <2> QED
    BY <1>1, <1>3, <1>4, <2>1 DEF TypesRight, PendingSoFar, PendingInTree
<1>6. CASE FileWithTree
  <2>1. pending' = Declarations(syn[file']) /\ mode' = "tree"
    BY <1>6 DEF FileWithTree
  <2>2. /\ pending' \in Seq(CallSet)
        /\ \A k \in DOMAIN pending' : pending'[k].indent = 1 /\ Len(pending'[k].node) = 1
    BY <1>1, <2>1, DeclarationsOf
  <2>3. TypesRight'
    BY <1>1, <1>3, <2>1, <2>2 DEF TypesRight
  <2>4. PendingSoFar'
    <3>1. \A k \in DOMAIN pending' :
            /\ pending'[k].indent = Len(pending'[k].node) /\ pending'[k].indent >= 1
            /\ ~(pending'[k].indent > 1)
            /\ \A j \in DOMAIN pending' : pending'[j].indent >= pending'[k].indent
      <4>1. \A k \in DOMAIN pending' : pending'[k].indent = 1 /\ Len(pending'[k].node) = 1
        BY <2>2, Zenon
      <4>2. \A k \in DOMAIN pending' : pending'[k].indent = Len(pending'[k].node)
        BY <4>1, Zenon
      <4>3. \A x \in {1} : x >= 1 /\ ~(x > 1) /\ \A y \in {1} : y >= x
        OBVIOUS
      <4> QED
        BY <4>1, <4>2, <4>3, Zenon
    <3> QED
      BY <3>1 DEF PendingSoFar
  <2> QED
    BY <1>4, <2>1, <2>3, <2>4 DEF PendingInTree
<1> QED
  BY <1>5, <1>6

(* A call for what is null, the end of a tree and of all files.            *)
LEMMA OtherStep ==
  ASSUME IndInv, DumpNull \/ EndTree \/ Finish \/ UNCHANGED vars
  PROVE  IndInv'
<1> USE DEF IndInv
<1>1. /\ syn' = syn /\ file' = file /\ mode' \in {"files", "tree", "done"}
      /\ pending \in Seq(CallSet)
  BY DEF DumpNull, EndTree, Finish, vars, TypesRight
<1>2. /\ out' \in Seq(LineSet) /\ NodeLines' = NodeLines
      /\ \A n \in NodeLines : out'[n] = out[n]
  <2>1. out \in Seq(LineSet) /\ file \in Nat
    BY DEF TypesRight
  <2>2. CASE EndTree
    <3>1. BlankLine \in LineSet /\ BlankLine.line # "node"
      BY <1>1, <2>1 DEF BlankLine, LineSet
    <3> QED
      BY <2>1, <2>2, <3>1, OtherLine DEF EndTree
  <2>3. CASE ~EndTree
    BY <2>1, <2>3 DEF DumpNull, Finish, vars, NodeLines
  <2> QED
    BY <2>2, <2>3
<1>3. /\ ParentsSoFar' /\ LinesSoFar'
      /\ \A indent, node : LastAt(indent, node) => LastAt(indent, node)'
  BY <1>1, <1>2, LinesKept
<1>4. CASE DumpNull
  <2>1. pending # <<>> /\ pending' = Tail(pending) /\ mode = "tree" /\ mode' = "tree"
    BY <1>4 DEF DumpNull
  <2>2. /\ pending' \in Seq(CallSet)
        /\ \A k \in DOMAIN pending' : k + 1 \in DOMAIN pending /\ pending'[k] = pending[k + 1]
    BY <1>1, <2>1
  <2>3. \A k \in DOMAIN pending' : k \in Nat
    BY <2>2
  <2>4. PendingSoFar'
    <3> SUFFICES ASSUME NEW k \in DOMAIN pending'
                 PROVE  /\ pending'[k].indent = Len(pending'[k].node) /\ pending'[k].indent >= 1
                        /\ \A j \in DOMAIN pending' :
                             j < k => pending'[j].indent >= pending'[k].indent
                        /\ pending'[k].indent > 1 =>
                             LastAt(pending[k].indent - 1, Front(pending[k].node))'
      BY DEF PendingSoFar
    <3>1. k + 1 \in DOMAIN pending /\ pending'[k] = pending[k + 1]
      BY <2>2
    <3>2. \A j \in DOMAIN pending' : j < k => j + 1 < k + 1
      BY <2>3
    <3>3. ASSUME pending'[k].indent > 1
          PROVE  LastAt(pending[k].indent - 1, Front(pending[k].node))'
      <4>1. LastAt(pending[k + 1].indent - 1, Front(pending[k + 1].node))
        BY <3>1, <3>3 DEF PendingSoFar
      <4>2. \E m \in NodeLines :
              /\ out[m].indent = pending'[k].indent - 1 /\ out[m].node = Front(pending'[k].node)
              /\ \A l \in NodeLines : l > m => out[l].indent # pending'[k].indent - 1
        BY <3>1, <4>1 DEF LastAt
      <4>3. \E m \in NodeLines' :
              /\ out'[m].indent = pending'[k].indent - 1 /\ out'[m].node = Front(pending'[k].node)
              /\ \A l \in NodeLines' : l > m => out'[l].indent # pending'[k].indent - 1
        BY <1>2, <4>2
      <4> QED
        BY <4>3 DEF LastAt, Front
    <3> QED
      BY <2>2, <3>1, <3>2, <3>3 DEF PendingSoFar
  <2> QED
    BY <1>1, <1>2, <1>3, <2>1, <2>2, <2>4 DEF TypesRight, PendingInTree
<1>5. CASE EndTree \/ Finish
  <2>1. pending = <<>> /\ pending' = <<>>
    BY <1>5 DEF EndTree, Finish, PendingInTree
  <2> QED
    BY <1>1, <1>2, <1>3, <2>1 DEF TypesRight, PendingSoFar, PendingInTree
<1>6. CASE UNCHANGED vars
  BY <1>1, <1>2, <1>3, <1>6 DEF vars, TypesRight, PendingSoFar, PendingInTree, LastAt
<1> QED
  BY <1>4, <1>5, <1>6

(* The calls a node's call makes come before those that were to come.      *)
LEMMA PendingAfter ==
  ASSUME pending \in Seq(CallSet), pending # <<>>, NEW calls \in Seq(CallSet),
         pending' = calls \o Tail(pending)
  PROVE  /\ pending' \in Seq(CallSet)
         /\ \A k \in DOMAIN pending' :
              \/ k \in DOMAIN calls /\ pending'[k] = calls[k]
              \/ /\ k - Len(calls) + 1 \in DOMAIN pending /\ k \notin DOMAIN calls
                 /\ pending'[k] = pending[k - Len(calls) + 1]
         /\ \A k \in DOMAIN calls : k \in DOMAIN pending' /\ pending'[k] = calls[k]
         /\ \A k \in DOMAIN pending : k # 1 =>
              /\ k + Len(calls) - 1 \in DOMAIN pending'
              /\ pending'[k + Len(calls) - 1] = pending[k]
         /\ DOMAIN pending' \subseteq Nat /\ DOMAIN pending \subseteq Nat
         /\ Len(calls) \in Nat /\ DOMAIN calls = 1..Len(calls)
<1>1. PICK rest \in Seq(CallSet) :
        /\ rest = Tail(pending) /\ Len(rest) = Len(pending) - 1
        /\ \A k \in 1 .. Len(pending) - 1 : rest[k] = pending[k + 1]
  <2>1. /\ Tail(pending) \in Seq(CallSet) /\ Len(Tail(pending)) = Len(pending) - 1
        /\ \A k \in 1 .. Len(pending) - 1 : Tail(pending)[k] = pending[k + 1]
    OBVIOUS
  <2> QED
    BY <2>1
<1>2. /\ pending' = calls \o rest /\ Len(calls) \in Nat /\ Len(rest) \in Nat
      /\ DOMAIN calls = 1..Len(calls) /\ DOMAIN pending = 1 .. Len(rest) + 1
      /\ pending' \in Seq(CallSet) /\ DOMAIN pending' = 1 .. Len(calls) + Len(rest)
      /\ \A k \in 1..Len(calls) : pending'[k] = calls[k]
      /\ \A k \in 1..Len(rest) : pending'[Len(calls) + k] = rest[k]
  BY <1>1
<1>3. ASSUME NEW k \in DOMAIN pending', k \notin DOMAIN calls
      PROVE  /\ k - Len(calls) + 1 \in DOMAIN pending
             /\ pending'[k] = pending[k - Len(calls) + 1]
  <2>1. k - Len(calls) \in 1..Len(rest) /\ Len(calls) + (k - Len(calls)) = k
    BY <1>2, <1>3
  <2> QED
    BY <1>1, <1>2, <2>1
<1>4. ASSUME NEW k \in DOMAIN pending, k # 1
      PROVE  /\ k + Len(calls) - 1 \in DOMAIN pending'
             /\ pending'[k + Len(calls) - 1] = pending[k]
  <2>1. k - 1 \in 1..Len(rest) /\ Len(calls) + (k - 1) = k + Len(calls) - 1 /\ (k - 1) + 1 = k
    <3>1. k \in 1 .. Len(rest) + 1 /\ k # 1 /\ Len(rest) \in Nat /\ Len(calls) \in Nat
      BY <1>2, <1>4, Zenon
    <3> QED
      BY <3>1
  <2> QED
    BY <1>1, <1>2, <2>1
<1>5. DOMAIN pending' \subseteq Nat /\ DOMAIN pending \subseteq Nat
  BY <1>2
<1>6. \A k \in DOMAIN calls : k \in DOMAIN pending' /\ pending'[k] = calls[k]
  BY <1>2
<1> QED
  BY <1>2, <1>3, <1>4, <1>5, <1>6, Zenon

(* What a call for a node leaves: a line, and the calls below the node.    *)
LEMMA NodeStep ==
  ASSUME IndInv, DumpNode
  PROVE  IndInv'
<1> USE DEF IndInv
<1>0. PICK call, N : call = Head(pending) /\ N = Len(out) + 1
  OBVIOUS
<1>1. /\ mode = "tree" /\ mode' = mode /\ syn' = syn /\ file' = file
      /\ pending # <<>> /\ pending \in Seq(CallSet) /\ out \in Seq(LineSet) /\ file \in Nat
  BY DEF DumpNode, TypesRight
<1>2. /\ call \in CallSet /\ 1 \in DOMAIN pending /\ call = pending[1]
      /\ call.indent = Len(call.node) /\ call.indent \in Nat /\ call.indent >= 1
  <2>1. call \in CallSet /\ 1 \in DOMAIN pending /\ call = pending[1]
    BY <1>0, <1>1
  <2> QED
    BY <2>1 DEF PendingSoFar, CallSet
<1>3. /\ out' \in Seq(LineSet) /\ NodeLines' = NodeLines \cup {N}
      /\ out'[N].indent = call.indent /\ out'[N].node = call.node
      /\ out'[N].file = file
      /\ out'[N].name = nodeKindToName(Tree[call.node])
      /\ out'[N].detail = Detail(Tree[call.node])
      /\ \A n \in NodeLines : out'[n] = out[n] /\ n \in Nat /\ n < N
      /\ N \in Nat
  <2>1. NodeLine(call) \in LineSet
    <3>1. nodeKindToName(Tree[call.node]) \in NodeNames /\ Detail(Tree[call.node]) \in Details
      BY DEF nodeKindToName, Detail, NodeNames, Details
    <3>2. call.node \in Nodes
      BY <1>2 DEF CallSet
    <3> QED
      BY <1>1, <1>2, <3>1, <3>2 DEF NodeLine, LineSet, NodeLineSet
  <2>2. out' = Append(out, NodeLine(call))
    BY <1>0 DEF DumpNode
  <2>3. NodeLine(call).line = "node" /\ N \in Nat
    BY <1>0, <1>1 DEF NodeLine
  <2>4. /\ out' \in Seq(LineSet) /\ NodeLines' = NodeLines \cup {N} /\ out'[N] = NodeLine(call)
        /\ \A n \in NodeLines : out'[n] = out[n] /\ n \in Nat /\ n < N
    BY <1>0, <1>1, <2>1, <2>2, <2>3, OneNodeLine
  <2> QED
    BY <2>3, <2>4 DEF NodeLine
<1>4. LinesSoFar'
  BY <1>1, <1>3 DEF LinesSoFar, Tree
<1>5. ParentsSoFar'
  <2>1. ASSUME NEW n \in NodeLines
        PROVE  IF out'[n].indent = 1 THEN Len(out'[n].node) = 1 ELSE ParentAbove(n)'
    <3>1. CASE out[n].indent = 1
      BY <1>3, <2>1, <3>1 DEF ParentsSoFar
    <3>2. CASE out[n].indent # 1
      <4>1. PICK m \in NodeLines :
              /\ m < n
              /\ out[m].indent = out[n].indent - 1 /\ out[m].node = Front(out[n].node)
              /\ \A l \in NodeLines : m < l /\ l < n => out[l].indent # out[n].indent - 1
        BY <2>1, <3>2 DEF ParentsSoFar, ParentAbove
      <4>2. \A l \in NodeLines' : m < l /\ l < n => out'[l].indent # out'[n].indent - 1
        BY <1>3, <2>1, <4>1
      <4>3. out'[m].node = Front(out[n].node) /\ out'[n].node = out[n].node
        BY <1>3, <2>1, <4>1
      <4> QED
        BY <1>3, <2>1, <3>2, <4>1, <4>2, <4>3 DEF ParentAbove
    <3> QED
      BY <3>1, <3>2
  <2>2. CASE call.indent = 1
    BY <1>2, <1>3, <2>1, <2>2 DEF ParentsSoFar
  <2>3. CASE call.indent # 1
    <3>1. LastAt(pending[1].indent - 1, Front(pending[1].node))
      <4>1. call.indent > 1
        <5>1. \A x \in Nat : x >= 1 /\ x # 1 => x > 1
          OBVIOUS
        <5> QED
          BY <1>2, <2>3, <5>1, Zenon
      <4>2. pending[1].indent > 1 => LastAt(pending[1].indent - 1, Front(pending[1].node))
        BY <1>2 DEF PendingSoFar
      <4> QED
        BY <1>2, <4>1, <4>2
    <3>2. PICK m \in NodeLines :
            /\ out[m].indent = call.indent - 1 /\ out[m].node = Front(call.node)
            /\ \A l \in NodeLines : l > m => out[l].indent # call.indent - 1
      BY <1>2, <3>1 DEF LastAt
    <3>3. \A l \in NodeLines' : m < l /\ l < N => out'[l].indent # out'[N].indent - 1
      BY <1>3, <3>2
    <3>4. out'[m].indent = out'[N].indent - 1 /\ out'[m].node = Front(out'[N].node) /\ m < N
      BY <1>3, <3>2
    <3>5. ParentAbove(N)'
      BY <1>3, <3>2, <3>3, <3>4 DEF ParentAbove
    <3> QED
      BY <1>2, <1>3, <2>1, <2>3, <3>5 DEF ParentsSoFar
  <2> QED
    BY <2>2, <2>3
<1>6. /\ Calls(call) \in Seq(CallSet)
      /\ \A k \in DOMAIN Calls(call) :
           /\ Calls(call)[k].indent = call.indent + 1
           /\ Len(Calls(call)[k].node) = Len(call.node) + 1
           /\ Front(Calls(call)[k].node) = call.node
  BY <1>2, CallsOf
<1>7. PICK calls \in Seq(CallSet) : calls = Calls(call)
  BY <1>6
<1>8. /\ pending' \in Seq(CallSet)
      /\ \A k \in DOMAIN pending' :
           \/ k \in DOMAIN calls /\ pending'[k] = calls[k]
           \/ /\ k - Len(calls) + 1 \in DOMAIN pending /\ k \notin DOMAIN calls
              /\ pending'[k] = pending[k - Len(calls) + 1]
      /\ DOMAIN pending' \subseteq Nat /\ Len(calls) \in Nat /\ DOMAIN calls = 1..Len(calls)
  BY <1>0, <1>1, <1>7, PendingAfter DEF DumpNode
<1>9. PendingSoFar'
  <2> SUFFICES ASSUME NEW k \in DOMAIN pending'
               PROVE  /\ pending'[k].indent = Len(pending'[k].node) /\ pending'[k].indent >= 1
                      /\ \A j \in DOMAIN pending' :
                           j < k => pending'[j].indent >= pending'[k].indent
                      /\ pending'[k].indent > 1 =>
                           LastAt(pending[k].indent - 1, Front(pending[k].node))'
    BY DEF PendingSoFar
  <2>1. \A j \in DOMAIN pending : pending[j].indent \in Nat /\ pending[j].indent <= call.indent
    <3>1. \A j \in DOMAIN pending : j \in Nat /\ j >= 1 /\ pending[j] \in CallSet
      BY <1>1
    <3> QED
      BY <1>2, <3>1 DEF PendingSoFar, CallSet
  <2>2. \A j \in DOMAIN calls :
          /\ calls[j].indent = call.indent + 1
          /\ Len(calls[j].node) = Len(call.node) + 1 /\ Front(calls[j].node) = call.node
    BY <1>6, <1>7
  <2>3. CASE k \in DOMAIN calls /\ pending'[k] = calls[k]
    <3>1. pending'[k].indent = Len(pending'[k].node) /\ pending'[k].indent >= 1
      BY <1>2, <2>2, <2>3
    <3>2. ASSUME NEW j \in DOMAIN pending', j < k
          PROVE  pending'[j].indent >= pending'[k].indent
      <4>1. j \in DOMAIN calls /\ pending'[j] = calls[j]
        BY <1>8, <2>3, <3>2
      <4> QED
        BY <1>2, <2>2, <2>3, <4>1
    <3>3. LastAt(pending[k].indent - 1, Front(pending[k].node))'
      <4>1. /\ N \in NodeLines' /\ out'[N].indent = pending'[k].indent - 1
            /\ out'[N].node = Front(pending'[k].node)
        BY <1>2, <1>3, <2>2, <2>3
      <4>2. \A l \in NodeLines' : ~(l > N)
        BY <1>3
      <4> QED
        BY <4>1, <4>2 DEF LastAt
    <3> QED
      BY <3>1, <3>2, <3>3
  <2>4. CASE /\ k - Len(calls) + 1 \in DOMAIN pending /\ k \notin DOMAIN calls
             /\ pending'[k] = pending[k - Len(calls) + 1]
    <3> DEFINE p == k - Len(calls) + 1
    <3>1. pending'[k].indent = Len(pending'[k].node) /\ pending'[k].indent >= 1
      BY <2>4 DEF PendingSoFar
    <3>2. ASSUME NEW j \in DOMAIN pending', j < k
          PROVE  pending'[j].indent >= pending'[k].indent
      <4>1. CASE j \in DOMAIN calls /\ pending'[j] = calls[j]
        BY <1>2, <2>1, <2>2, <2>4, <4>1
      <4>2. CASE /\ j - Len(calls) + 1 \in DOMAIN pending
                 /\ pending'[j] = pending[j - Len(calls) + 1]
        <5>1. j - Len(calls) + 1 < p
          BY <1>8, <3>2
        <5> QED
          BY <2>4, <4>2, <5>1 DEF PendingSoFar
      <4> QED
        BY <1>8, <4>1, <4>2
    <3>3. ASSUME pending'[k].indent > 1
          PROVE  LastAt(pending[k].indent - 1, Front(pending[k].node))'
      <4>1. LastAt(pending[p].indent - 1, Front(pending[p].node))
        BY <2>4, <3>3 DEF PendingSoFar
      <4>2. PICK m \in NodeLines :
              /\ out[m].indent = pending'[k].indent - 1 /\ out[m].node = Front(pending'[k].node)
              /\ \A l \in NodeLines : l > m => out[l].indent # pending'[k].indent - 1
        BY <2>4, <4>1 DEF LastAt
      <4>3. out'[N].indent # pending'[k].indent - 1
        BY <1>2, <1>3, <2>1, <2>4
      <4>4. /\ m \in NodeLines' /\ out'[m].indent = pending'[k].indent - 1
            /\ out'[m].node = Front(pending'[k].node)
            /\ \A l \in NodeLines' : l > m => out'[l].indent # pending'[k].indent - 1
        BY <1>3, <4>2, <4>3
      <4> QED
        BY <4>4 DEF LastAt
    <3> QED
      BY <3>1, <3>2, <3>3
  <2> QED
    BY <1>8, <2>3, <2>4
<1>10. TypesRight' /\ PendingInTree'
  BY <1>1, <1>3, <1>8 DEF TypesRight, PendingInTree
<1> QED
  BY <1>4, <1>5, <1>9, <1>10

-----------------------------------------------------------------------------
LEMMA InitIndInv == Init => IndInv
<1> SUFFICES ASSUME Init PROVE IndInv
  OBVIOUS
<1>1. Len(syn) \in Nat
  BY InputsAssumption DEF Init
<1> QED
  BY <1>1 DEF Init, IndInv, TypesRight, PendingSoFar, PendingInTree, ParentsSoFar, LinesSoFar,
              NodeLines

LEMMA NextIndInv == IndInv /\ [Next]_vars => IndInv'
<1> SUFFICES ASSUME IndInv, [Next]_vars PROVE IndInv'
  OBVIOUS
<1> QED
  BY FileStep, NodeStep, OtherStep DEF Next, Write, Done

(* What holds of the calls still to be made and of the lines, main through. *)
THEOREM Invariance == Spec => []IndInv
BY InitIndInv, NextIndInv, PTL DEF Spec

(* The indentation of outSyntax.txt tells what each node is below.         *)
THEOREM IndentCorrect == Spec => []IndentTellsParent
<1>1. IndInv => IndentTellsParent
  <2> SUFFICES ASSUME IndInv, NEW n \in NodeLines, out[n].indent # 1
               PROVE  out[LineAbove(n)].node = Front(out[n].node)
    BY DEF IndInv, ParentsSoFar, IndentTellsParent
  <2> DEFINE S == {m \in NodeLines : m < n /\ out[m].indent = out[n].indent - 1}
  <2>1. NodeLines \subseteq Nat
    BY DEF IndInv, TypesRight, NodeLines
  <2>2. PICK m \in NodeLines :
          /\ m < n
          /\ out[m].indent = out[n].indent - 1 /\ out[m].node = Front(out[n].node)
          /\ \A l \in NodeLines : m < l /\ l < n => out[l].indent # out[n].indent - 1
    BY DEF IndInv, ParentsSoFar, ParentAbove
  <2>3. S \in SUBSET Nat /\ m \in S /\ \A l \in S : l <= m
    <3>1. S \subseteq Nat /\ m \in S
      BY <2>1, <2>2
    <3>2. ASSUME NEW l \in S PROVE l <= m
      <4>1. l \in Nat /\ m \in Nat /\ ~(m < l)
        BY <2>1, <2>2
      <4> QED
        BY <4>1
    <3> QED
      BY <3>1, <3>2
  <2>4. Max(S) = m
    <3> HIDE DEF S
    <3> QED
      BY <2>3, MaxIs
  <2> QED
    BY <2>2, <2>4 DEF LineAbove
<1> QED
  BY <1>1, Invariance, PTL

(* A line's name and detail tell the kind of its node, or are Unknown and  *)
(* none; and what has nodes below it in the text is never of that sort.    *)
THEOREM TextCorrect == Spec => []TextTellsKind
<1>1. IndInv => TextTellsKind
  <2> SUFFICES ASSUME IndInv PROVE TextTellsKind
    OBVIOUS
  <2> DEFINE kind(k) == syn[out[k].file][out[k].node]
  <2>1. \A n \in NodeLines :
          out[n].name = nodeKindToName(kind(n)) /\ out[n].detail = Detail(kind(n))
    BY DEF IndInv, LinesSoFar
  <2>2. \A a, b : nodeKindToName(a) = nodeKindToName(b) /\ Detail(a) = Detail(b) =>
          a = b \/ (nodeKindToName(a) = "Unknown" /\ Detail(a) = "")
    BY DEF nodeKindToName, Detail
  <2>3. \A a : Followed(a) # <<>> => nodeKindToName(a) # "Unknown" \/ Detail(a) # ""
    BY DEF nodeKindToName, Detail, Followed
  <2> HIDE DEF kind
  <2>4. \A m, n \in NodeLines :
          /\ out[m].name = out[n].name /\ out[m].detail = out[n].detail =>
               kind(m) = kind(n) \/ (out[m].name = "Unknown" /\ out[m].detail = "")
          /\ Followed(kind(n)) # <<>> => out[n].name # "Unknown" \/ out[n].detail # ""
    <3> SUFFICES ASSUME NEW m \in NodeLines, NEW n \in NodeLines
                 PROVE  /\ out[m].name = out[n].name /\ out[m].detail = out[n].detail =>
                             kind(m) = kind(n) \/ (out[m].name = "Unknown" /\ out[m].detail = "")
                        /\ Followed(kind(n)) # <<>> =>
                             out[n].name # "Unknown" \/ out[n].detail # ""
      OBVIOUS
    <3>1. /\ out[m].name = nodeKindToName(kind(m)) /\ out[m].detail = Detail(kind(m))
          /\ out[n].name = nodeKindToName(kind(n)) /\ out[n].detail = Detail(kind(n))
      BY <2>1
    <3> QED
      BY <2>2, <2>3, <3>1
  <2> QED
    BY <2>4 DEF TextTellsKind, kind
<1> QED
  BY <1>1, Invariance, PTL
=============================================================================
