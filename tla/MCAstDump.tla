----------------------------- MODULE MCAstDump -----------------------------
(* Trees for checking AstDump: every kind of node with all its fields, as  *)
(* a declaration, an initializer and an operand; operations of operations; *)
(* null pointers wherever the code allows for them.                        *)
EXTENDS AstDump

(* Fragments of trees are built from the root down; a null one is empty.   *)
Below(slot, t) == [p \in {<<slot>> \o q : q \in DOMAIN t} |-> t[Tail(p)]]
Node(kind) == [p \in {<<>>} |-> kind]
Null == [p \in {} |-> ""]

Var(t) == Node("VariableDecl") @@ Below(<<"initializer", 0>>, t)
                               @@ Below(<<"type", 0>>, Node("PointerType"))
Binary(l, r) == Node("BinaryOpExpr") @@ Below(<<"left", 0>>, l) @@ Below(<<"right", 0>>, r)
Unit(s) ==
  LET nodes == UNION {{<<<<"declarations", n>>>> \o q : q \in DOMAIN s[n]} : n \in DOMAIN s}
  IN Node("TranslationUnit") @@ [p \in nodes |-> s[p[1][2]][Tail(p)]]

(* A node of a kind with a node below each of its fields.                  *)
Filler(kind, field) ==
  IF "IntegerLiteral" \in Holds(kind, field)
    THEN "IntegerLiteral" ELSE CHOOSE k \in Holds(kind, field) : TRUE
Full(kind) ==
  LET slot(f) == <<f, IF f \in Vectors THEN 1 ELSE 0>>
      below == {<<slot(f)>> : f \in Fields[kind]}
  IN Node(kind) @@ [p \in below |-> Filler(kind, p[1][1])]

FullNodes == {Full(k) : k \in NodeKind \ {"TranslationUnit"}}
Few == {Null, Node("CallExpr"), Var(Null), Var(Node("IdentifierExpr"))}
Operations == {Binary(l, r) : l, r \in Few}
Deep == {Binary(l, r) : l, r \in Operations \cup Few}

Trees ==
  {Unit(<<t>>) : t \in FullNodes \cup Deep}
    \cup {Unit(<<Var(t)>>) : t \in FullNodes \cup Operations}
    \cup {Unit(<<Binary(t, u)>>) : t \in FullNodes, u \in Few}
    \cup {Unit(<<t, u, t>>) : t \in Operations, u \in Few}
    \cup {Unit(<<>>), Null}

SomeTrees == {Unit(<<t, u>>) : t, u \in Few} \cup {Unit(<<>>), Null}

AllInputs == {<<>>} \cup {<<t>> : t \in Trees} \cup {<<t, u>> : t, u \in SomeTrees}
=============================================================================
