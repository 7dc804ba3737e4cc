------------------------------ MODULE AstDump ------------------------------
(***************************************************************************)
(* The syntax tree as syntaxTree.h declares it, and the way main writes    *)
(* the trees of all files to outSyntax.txt: the loop of main.cpp over the  *)
(* files, dumpTranslationUnit and dumpAST, one call of dumpAST a step.     *)
(*                                                                         *)
(* A node is named by its path from the root, a sequence of the fields     *)
(* that lead to it; <<f, n>> is the n-th entry of the vector f, <<f, 0>>   *)
(* the pointer f. A tree gives the kind of each of its nodes. What is null *)
(* is not there: a file without a tree has the empty function.             *)
(***************************************************************************)
EXTENDS Integers, Sequences, FiniteSets, SequencesExt

CONSTANTS
  Inputs     \* what Syntax::tree may hold, a sequence of trees by file

-----------------------------------------------------------------------------
(* The fields of each kind of node that point to other nodes.              *)
UnitFields == [TranslationUnit |-> {"declarations"}, IncludeDecl |-> {}]

TypeFields ==
  [MemType |-> {"reg_pin"}, RegPinnedType |-> {}, VRegType |-> {"parameters"},
   VRegRefExpr |-> {}, StructType |-> {}, ArrayType |-> {"element_type"},
   PointerType |-> {"pointee_type"}, ReferenceType |-> {"referenced_type"}]

FunctionFields == {"template_params", "return_type", "parameters", "body"}

DeclFields ==
  [VariableDecl |-> {"type", "initializer"}, GenericParam |-> {"constraint"},
   Constraint |-> {"requires_expr"}, FunctionDecl |-> FunctionFields,
   OperationDecl |-> FunctionFields,
   StructDecl |-> {"template_params", "base_classes", "members"}]

StmtFields ==
  [BlockStmt |-> {"statements"}, ExprStmt |-> {"expression"},
   IfStmt |-> {"condition", "then_stmt", "else_stmt"},
   ForStmt |-> {"init", "condition", "increment", "body"},
   WhileStmt |-> {"condition", "body"}, DoWhileStmt |-> {"body", "condition"},
   SwitchStmt |-> {"condition", "cases"}, CaseLabel |-> {"value"},
   DefaultLabel |-> {}, BreakStmt |-> {}, ContinueStmt |-> {},
   ReturnStmt |-> {"value"}, ErrStmt |-> {"expression"}]

ExprFields ==
  [IntegerLiteral |-> {}, FloatLiteral |-> {}, CharLiteral |-> {},
   IdentifierExpr |-> {}, UnaryOpExpr |-> {"operand"},
   BinaryOpExpr |-> {"left", "right"}, CallExpr |-> {"callee", "arguments"},
   ArrayIndexExpr |-> {"array", "index"}, RangeExpr |-> {"lower", "upper"},
   RangeRefExpr |-> {"array", "range"}, MemberAccessExpr |-> {"object"},
   ThisExpr |-> {}, ErrExpr |-> {},
   TernaryExpr |-> {"condition", "true_expr", "false_expr"},
   InitializerListExpr |-> {"elements"}]

MetaFields ==
  [MetaBlock |-> {"declarations"}, DefineValue |-> {"value"},
   MacroDefinition |-> {"template_params", "body"},
   CompileTimeFunctionDecl |-> FunctionFields,
   MetaIfStmt |-> {"condition", "then_body", "else_body"},
   MetaForStmt |-> {"init", "condition", "increment", "body"}]

NodeKind ==
  DOMAIN UnitFields \cup DOMAIN TypeFields \cup DOMAIN DeclFields \cup DOMAIN StmtFields
    \cup DOMAIN ExprFields \cup DOMAIN MetaFields

Fields ==
  [kind \in NodeKind |->
     CASE kind \in DOMAIN UnitFields -> UnitFields[kind]
       [] kind \in DOMAIN TypeFields -> TypeFields[kind]
       [] kind \in DOMAIN DeclFields -> DeclFields[kind]
       [] kind \in DOMAIN StmtFields -> StmtFields[kind]
       [] kind \in DOMAIN ExprFields -> ExprFields[kind]
       [] kind \in DOMAIN MetaFields -> MetaFields[kind]]

Vectors ==
  {"declarations", "parameters", "template_params", "base_classes", "members",
   "statements", "cases", "arguments", "elements"}

(* Of some vectors the type says which nodes they hold. A unit is a root.  *)
Holds(kind, field) ==
  IF field = "template_params" THEN {"GenericParam"}
  ELSE IF field = "parameters" /\ kind # "VRegType" THEN {"VariableDecl"}
  ELSE NodeKind \ {"TranslationUnit"}

IsTree(t) ==
  /\ IsFiniteSet(DOMAIN t)
  /\ DOMAIN t \subseteq Seq(STRING \X Nat)
  /\ \A p \in DOMAIN t :
       IF p = <<>> THEN t[p] = "TranslationUnit"
       ELSE /\ Front(p) \in DOMAIN t
            /\ LET kind == t[Front(p)] slot == Last(p) IN
                 /\ slot[1] \in Fields[kind]
                 /\ slot[2] = 0 <=> slot[1] \notin Vectors
                 /\ t[p] \in Holds(kind, slot[1])

ASSUME InputsAssumption ==
  \A trees \in Inputs :
    /\ Len(trees) \in Nat /\ DOMAIN trees = 1..Len(trees)
    /\ \A k \in DOMAIN trees : IsTree(trees[k])

-----------------------------------------------------------------------------
VARIABLES
  syn,       \* the trees, by file
  file,      \* the file whose section is being written, 0 before the first
  mode,      \* "files", "tree" while in dumpTranslationUnit, or "done"
  pending,   \* the calls of dumpAST still to be made for the file
  out        \* the lines of outSyntax.txt

vars == <<syn, file, mode, pending, out>>

Init ==
  /\ syn \in Inputs
  /\ file = 0 /\ mode = "files"
  /\ pending = <<>> /\ out = <<>>

Tree == syn[file]
Call(node, indent) == [node |-> node, indent |-> indent]

(* MAGIC_ENUM_HPP is not what magic_enum.hpp defines: the fallback is used.*)
nodeKindToName(kind) ==
  IF kind \in {"TranslationUnit", "VariableDecl", "FunctionDecl", "IntegerLiteral",
               "IdentifierExpr"}
    THEN kind ELSE "Unknown"

(* Variant: the name of a variable only.                                   *)
DetailFew(kind) == IF kind = "VariableDecl" THEN "name" ELSE ""

Detail(kind) ==
  CASE kind \in {"VariableDecl", "IdentifierExpr"} -> "name"
    [] kind = "IntegerLiteral" -> "value"
    [] kind = "BinaryOpExpr" -> "op"
    [] OTHER -> ""

(* A line, with the node it is of, which is not part of its text.          *)
FileLine == [file |-> file', line |-> "File"]
UnitLine == [file |-> file', line |-> "TranslationUnit"]
BlankLine == [file |-> file', line |-> "blank"]
NodeLine(call) ==
  [file |-> file, line |-> "node", indent |-> call.indent,
   name |-> nodeKindToName(Tree[call.node]), detail |-> Detail(Tree[call.node]),
   node |-> call.node]

BeginFile ==
  /\ mode = "files" /\ file < Len(syn)
  /\ file' = file + 1

FileWithoutTree ==
  /\ BeginFile
  /\ <<>> \notin DOMAIN syn[file']
  /\ out' = out \o <<FileLine, BlankLine>>
  /\ UNCHANGED <<syn, mode, pending>>

(* Null pointers among the declarations are passed to dumpAST as well.     *)
Size(t) == Max({0} \cup {p[1][2] : p \in DOMAIN t \ {<<>>}})
Declarations(t) == [n \in 1..Size(t) |-> Call(<<<<"declarations", n>>>>, 1)]

FileWithTree ==
  /\ BeginFile
  /\ <<>> \in DOMAIN syn[file']
  /\ out' = out \o <<FileLine, UnitLine>>
  /\ pending' = Declarations(syn[file'])
  /\ mode' = "tree"
  /\ UNCHANGED syn

(* The fields that are dumped after a node's own line. An initializer that *)
(* is null is tested before the call, which comes to the same as after it. *)
Followed(kind) ==
  CASE kind = "VariableDecl" -> <<"initializer">>
    [] kind = "BinaryOpExpr" -> <<"left", "right">>
    [] OTHER -> <<>>

(* Variants: no more indented than the node itself; the right one first.   *)
CallsFlat(call) ==
  [k \in DOMAIN Followed(Tree[call.node]) |->
     Call(Append(call.node, <<Followed(Tree[call.node])[k], 0>>), call.indent)]

CallsSwapped(call) ==
  Reverse([k \in DOMAIN Followed(Tree[call.node]) |->
     Call(Append(call.node, <<Followed(Tree[call.node])[k], 0>>), call.indent + 1)])

Calls(call) ==
  [k \in DOMAIN Followed(Tree[call.node]) |->
     Call(Append(call.node, <<Followed(Tree[call.node])[k], 0>>), call.indent + 1)]

DumpNull ==
  /\ mode = "tree" /\ pending # <<>>
  /\ Head(pending).node \notin DOMAIN Tree
  /\ pending' = Tail(pending)
  /\ UNCHANGED <<syn, file, mode, out>>

DumpNode ==
  /\ mode = "tree" /\ pending # <<>>
  /\ Head(pending).node \in DOMAIN Tree
  /\ out' = Append(out, NodeLine(Head(pending)))
  /\ pending' = Calls(Head(pending)) \o Tail(pending)
  /\ UNCHANGED <<syn, file, mode>>

EndTree ==
  /\ mode = "tree" /\ pending = <<>>
  /\ mode' = "files"
  /\ UNCHANGED <<syn, file, pending>>
  /\ out' = Append(out, BlankLine)

Finish ==
  /\ mode = "files" /\ file = Len(syn)
  /\ mode' = "done"
  /\ UNCHANGED <<syn, file, pending, out>>

Write == FileWithoutTree \/ FileWithTree \/ DumpNull \/ DumpNode \/ EndTree \/ Finish

Done == mode = "done" /\ UNCHANGED vars

Next == Write \/ Done

Spec == Init /\ [][Next]_vars

-----------------------------------------------------------------------------
(* What is dumped, read off a tree: the declarations, and of each what is  *)
(* reached through initializers and operands only.                         *)
Dumped(t) ==
  {p \in DOMAIN t \ {<<>>} :
     \A k \in 2..Len(p) : p[k][1] \in {"initializer", "left", "right"}}

(* Before a node come those above it, and those above and to the left.     *)
LeftOf(p, q) ==
  \E k \in DOMAIN p \cap DOMAIN q :
    /\ SubSeq(p, 1, k - 1) = SubSeq(q, 1, k - 1)
    /\ IF k = 1 THEN p[k][2] < q[k][2]
       ELSE p[k][1] = "left" /\ q[k][1] = "right"

Earlier(p, q) == IsStrictPrefix(p, q) \/ LeftOf(p, q)

NodeLines == {n \in DOMAIN out : out[n].line = "node"}
LinesOf(f) == {n \in DOMAIN out : out[n].file = f}
Written(f) == f < file \/ (f = file /\ mode # "tree")

(* A header, the unit if there is a tree, and where the nodes are to come. *)
Heading(f, first) ==
  /\ out[first].line = "File"
  /\ <<>> \in DOMAIN syn[f] => out[first + 1].line = "TranslationUnit"

BodyFrom(f, first) == IF <<>> \in DOMAIN syn[f] THEN first + 2 ELSE first + 1

(* Lines of nodes, each after those it is below or to the right of, so     *)
(* that none is there twice.                                               *)
InOrder(body) ==
  /\ body \subseteq NodeLines
  /\ \A j, k \in body : j < k => Earlier(out[j].node, out[k].node)

Section(f, first, last) ==
  /\ LinesOf(f) = first..last
  /\ Heading(f, first)
  /\ BodyFrom(f, first) <= last
  /\ LET body == BodyFrom(f, first) .. last - 1 IN
       /\ InOrder(body)
       /\ {out[k].node : k \in body} = Dumped(syn[f])
  /\ out[last].line = "blank"

(* The file consists of one section for each source file, in their order:  *)
(* a header, the unit and the dumped nodes if there is a tree, each node   *)
(* once and after those it is below or to the right of, and a blank line.  *)
SectionsExact ==
  /\ \A m, n \in DOMAIN out : m < n => out[m].file <= out[n].file
  /\ \A f \in 1..file : Written(f) => \E first, last \in DOMAIN out : Section(f, first, last)

(* The text can be read back: a node is below the last line before it that *)
(* is indented by one less, or is a declaration if it is indented by one.  *)
LineAbove(n) ==
  Max({m \in NodeLines : m < n /\ out[m].indent = out[n].indent - 1})

IndentTellsParent ==
  \A n \in NodeLines :
    IF out[n].indent = 1 THEN Len(out[n].node) = 1
    ELSE out[LineAbove(n)].node = Front(out[n].node)

(* So can the kind, name and details taken together, of the nodes that are *)
(* not called Unknown, and of binary operations, which are.                *)
TextTellsKind ==
  \A m, n \in NodeLines :
    LET kind(k) == syn[out[k].file][out[k].node] IN
      /\ out[m].name = out[n].name /\ out[m].detail = out[n].detail =>
           kind(m) = kind(n) \/ (out[m].name = "Unknown" /\ out[m].detail = "")
      /\ Followed(kind(n)) # <<>> => out[n].name # "Unknown" \/ out[n].detail # ""
=============================================================================
