------------------------ MODULE AstDumpSectionProofs ------------------------
(***************************************************************************)
(* Proof that outSyntax.txt is what SectionsExact says, for any number of  *)
(* files and trees of any finite size: one section a file, with each node  *)
(* that is dumped once and in order.                                       *)
(***************************************************************************)
EXTENDS AstDumpProofs, SequenceTheorems

(* All the paths that are compared: of a tree's nodes, of calls, of lines. *)
Paths == Seq((STRING \cup Reached) \X Nat)

(* What dumpAST follows.                                                   *)
Onward == {"initializer", "left", "right"}
DumpPath(p) == p # <<>> /\ \A k \in 2..Len(p) : p[k][1] \in Onward

(* Lines are in the order of their files, and the sections that are        *)
(* written are right.                                                      *)
SectionsSoFar ==
  /\ \A n \in DOMAIN out : out[n].file \in 1..file
  /\ \A m, n \in DOMAIN out : m < n => out[m].file <= out[n].file
  /\ \A f \in 1..file : Written(f) => \E first, last \in DOMAIN out : Section(f, first, last)

(* So is the section being written, as far as it goes: what is dumped has  *)
(* been written or is below a call to come, which is after all written.    *)
OpenSection(first) ==
  LET body == first + 2 .. Len(out) IN
    /\ LinesOf(file) = first..Len(out)
    /\ Heading(file, first)
    /\ InOrder(body)
    /\ \A m \in body : out[m].node \in Dumped(Tree)
    /\ \A q \in Dumped(Tree) :
         \/ \E m \in body : out[m].node = q
         \/ \E k \in DOMAIN pending : IsPrefix(pending[k].node, q)
    /\ \A m \in body : \A k \in DOMAIN pending : Earlier(out[m].node, pending[k].node)

OpenSoFar ==
  mode = "tree" =>
    /\ file \in DOMAIN syn /\ <<>> \in DOMAIN Tree
    /\ \E first \in 1 .. Len(out) - 1 : OpenSection(first)

(* The calls to come are for what may be dumped, and from left to right.   *)
PendingApart ==
  \A k \in DOMAIN pending :
    /\ DumpPath(pending[k].node)
    /\ \A j \in DOMAIN pending : j < k => LeftOf(pending[j].node, pending[k].node)

OrderInv == IndInv /\ SectionsSoFar /\ OpenSoFar /\ PendingApart

-----------------------------------------------------------------------------
(* Paths.                                                                  *)

LEMMA NodesArePaths == Nodes \subseteq Paths
<1>1. Reached \X Nat \subseteq (STRING \cup Reached) \X Nat
  OBVIOUS
<1> DEFINE R == Reached \X Nat
           S == (STRING \cup Reached) \X Nat
<1>2. Seq(R) \subseteq Seq(S)
  <2> HIDE DEF R, S
  <2> SUFFICES ASSUME NEW p \in Seq(R) PROVE p \in Seq(S)
    OBVIOUS
  <2>1. R \subseteq S
    BY <1>1 DEF R, S
  <2> QED
    BY <2>1
<1> QED
  BY <1>2 DEF Nodes, Paths

LEMMA TreesArePaths ==
  ASSUME NEW t, IsTree(t)
  PROVE  DOMAIN t \subseteq Paths
<1> DEFINE R == STRING \X Nat
           S == (STRING \cup Reached) \X Nat
<1>1. R \subseteq S
  OBVIOUS
<1>2. DOMAIN t \subseteq Seq(R)
  BY DEF IsTree
<1> HIDE DEF R, S
<1>3. \A p \in Seq(R) : p \in Seq(S)
  BY <1>1
<1> QED
  BY <1>2, <1>3 DEF Paths, S

(* Beginnings of paths are compared element by element.                    *)
LEMMA SamePart ==
  ASSUME NEW p \in Paths, NEW q \in Paths, NEW n \in Nat, n <= Len(p), n <= Len(q)
  PROVE  SubSeq(p, 1, n) = SubSeq(q, 1, n) <=> \A k \in 1..n : p[k] = q[k]
<1> DEFINE S == (STRING \cup Reached) \X Nat
<1>1. p \in Seq(S) /\ q \in Seq(S)
  BY DEF Paths
<1> HIDE DEF S
<1>2. /\ SubSeq(p, 1, n) \in Seq(S) /\ SubSeq(q, 1, n) \in Seq(S)
      /\ Len(SubSeq(p, 1, n)) = n /\ Len(SubSeq(q, 1, n)) = n
      /\ \A k \in 1..n : SubSeq(p, 1, n)[k] = p[k] /\ SubSeq(q, 1, n)[k] = q[k]
  BY <1>1
<1>3. ASSUME \A k \in 1..n : p[k] = q[k] PROVE SubSeq(p, 1, n) = SubSeq(q, 1, n)
  BY <1>2, <1>3
<1>4. ASSUME SubSeq(p, 1, n) = SubSeq(q, 1, n) PROVE \A k \in 1..n : p[k] = q[k]
  BY <1>2, <1>4
<1> QED
  BY <1>3, <1>4

LEMMA PrefixIs ==
  ASSUME NEW p \in Paths, NEW q \in Paths
  PROVE  IsPrefix(p, q) <=> Len(p) <= Len(q) /\ \A k \in 1..Len(p) : p[k] = q[k]
<1>1. Len(p) \in Nat /\ Len(q) \in Nat
  BY DEF Paths
<1> QED
  BY <1>1, SamePart DEF IsPrefix

LEMMA LeftIs ==
  ASSUME NEW p \in Paths, NEW q \in Paths
  PROVE  LeftOf(p, q) <=>
           \E k \in 1..Len(p) :
             /\ k <= Len(q) /\ \A j \in 1 .. k - 1 : p[j] = q[j]
             /\ IF k = 1 THEN p[k][2] < q[k][2] ELSE p[k][1] = "left" /\ q[k][1] = "right"
<1>1. /\ Len(p) \in Nat /\ Len(q) \in Nat /\ DOMAIN p = 1..Len(p) /\ DOMAIN q = 1..Len(q)
  BY DEF Paths
<1>2. \A k \in 1..Len(p) : k <= Len(q) =>
        (SubSeq(p, 1, k - 1) = SubSeq(q, 1, k - 1) <=> \A j \in 1 .. k - 1 : p[j] = q[j])
  BY <1>1, SamePart
<1>3. DOMAIN p \cap DOMAIN q = {k \in 1..Len(p) : k <= Len(q)}
  BY <1>1
<1> QED
  BY <1>2, <1>3 DEF LeftOf

(* What is left of a node is so of what is below it, and so is what is     *)
(* below the one of what is below the other.                               *)
LEMMA LeftBelow ==
  ASSUME NEW p \in Paths, NEW q \in Paths, NEW u \in Paths, NEW v \in Paths,
         LeftOf(p, q), IsPrefix(p, u), IsPrefix(q, v)
  PROVE  LeftOf(u, v)
<1>1. PICK k \in 1..Len(p) :
        /\ k <= Len(q) /\ \A j \in 1 .. k - 1 : p[j] = q[j]
        /\ IF k = 1 THEN p[k][2] < q[k][2] ELSE p[k][1] = "left" /\ q[k][1] = "right"
  BY LeftIs
<1>2. /\ Len(p) <= Len(u) /\ \A j \in 1..Len(p) : p[j] = u[j]
      /\ Len(q) <= Len(v) /\ \A j \in 1..Len(q) : q[j] = v[j]
  BY PrefixIs
<1>3. Len(p) \in Nat /\ Len(q) \in Nat /\ Len(u) \in Nat /\ Len(v) \in Nat
  BY DEF Paths
<1>4. k \in 1..Len(u) /\ k <= Len(v) /\ u[k] = p[k] /\ v[k] = q[k]
  BY <1>1, <1>2, <1>3
<1>5. \A j \in 1 .. k - 1 : u[j] = v[j]
  BY <1>1, <1>2, <1>3
<1> QED
  BY <1>1, <1>4, <1>5, LeftIs

LEMMA EarlierBelow ==
  ASSUME NEW p \in Paths, NEW q \in Paths, NEW v \in Paths, Earlier(p, q), IsPrefix(q, v)
  PROVE  Earlier(p, v)
<1>1. CASE LeftOf(p, q)
  <2>1. Len(p) \in Nat
    BY DEF Paths
  <2>2. IsPrefix(p, p)
    BY <2>1, PrefixIs
  <2> QED
    BY <1>1, <2>2, LeftBelow DEF Earlier
<1>2. CASE IsStrictPrefix(p, q)
  <2>1. /\ Len(p) <= Len(q) /\ \A j \in 1..Len(p) : p[j] = q[j]
        /\ Len(q) <= Len(v) /\ \A j \in 1..Len(q) : q[j] = v[j]
        /\ p # q
    BY <1>2, PrefixIs DEF IsStrictPrefix
  <2>2. Len(p) \in Nat /\ Len(q) \in Nat /\ Len(v) \in Nat
    BY DEF Paths
  <2>3. IsPrefix(p, v)
    BY <2>1, <2>2, PrefixIs
  <2>4. p # v
    <3> SUFFICES ASSUME p = v PROVE FALSE
      OBVIOUS
    <3>1. Len(p) = Len(q) /\ \A j \in 1..Len(p) : p[j] = q[j]
      BY <2>1, <2>2
    <3> DEFINE S == (STRING \cup Reached) \X Nat
    <3>2. p \in Seq(S) /\ q \in Seq(S)
      BY DEF Paths
    <3> HIDE DEF S
    <3>3. p = q
      BY <3>1, <3>2
    <3> QED
      BY <2>1, <3>3
  <2> QED
    BY <2>3, <2>4 DEF Earlier, IsStrictPrefix
<1> QED
  BY <1>1, <1>2 DEF Earlier

-----------------------------------------------------------------------------
(* Trees.                                                                  *)

(* What is above a node of a tree is of the tree.                          *)
LEMMA AboveInTree ==
  ASSUME NEW t, IsTree(t), NEW q \in DOMAIN t, NEW n \in 0..Len(q)
  PROVE  SubSeq(q, 1, n) \in DOMAIN t
<1> DEFINE L == Len(q)
           B == {m \in Nat : m <= L /\ SubSeq(q, 1, L - m) \notin DOMAIN t}
<1>1. q \in Paths /\ L \in Nat
  BY TreesArePaths DEF Paths
<1>2. B = {}
  <2> SUFFICES ASSUME B # {} PROVE FALSE
    OBVIOUS
  <2>1. PICK m \in B : \A l \in B : m <= l
    BY Least, B \in SUBSET Nat
  <2>2. m # 0
    <3>1. SubSeq(q, 1, L) = q
      BY <1>1, SubSeqFull DEF Paths
    <3>2. L - 0 = L
      BY <1>1
    <3> QED
      BY <2>1, <3>1, <3>2
  <2>3. m - 1 \in Nat /\ m - 1 <= L /\ ~(m <= m - 1)
    BY <1>1, <2>2
  <2>4. SubSeq(q, 1, L - (m - 1)) \in DOMAIN t
    BY <2>1, <2>3
  <2> DEFINE p == SubSeq(q, 1, L - (m - 1))
  <2>5. p # <<>> /\ Front(p) = SubSeq(q, 1, L - m)
    <3> DEFINE S == (STRING \cup Reached) \X Nat
               N == L - (m - 1)
    <3>1. q \in Seq(S) /\ N \in 1..Len(q)
      BY <1>1, <2>3 DEF Paths
    <3> HIDE DEF S
    <3>2. Len(SubSeq(q, 1, N)) = N /\ SubSeq(q, 1, N) \in Seq(S)
      BY <3>1
    <3>3. SubSeq(SubSeq(q, 1, N), 1, N - 1) = SubSeq(q, 1, N - 1)
      BY <3>1, <3>2
    <3>4. N - 1 = L - m /\ N >= 1
      BY <1>1, <2>3
    <3>5. p = SubSeq(q, 1, N)
      OBVIOUS
    <3> HIDE DEF L, N, p
    <3>6. p # <<>>
      BY <3>1, <3>2, <3>4, <3>5
    <3>7. Front(p) = SubSeq(p, 1, Len(p) - 1)
      BY DEF Front
    <3> QED
      BY <3>2, <3>3, <3>4, <3>5, <3>6, <3>7
  <2>6. Front(p) \in DOMAIN t
    BY <2>4, <2>5 DEF IsTree
  <2> QED
    BY <2>5, <2>6
<1>3. L - n \in Nat /\ L - n <= L /\ L - (L - n) = n
  BY <1>1
<1> HIDE DEF L
<1> QED
  BY <1>2, <1>3

(* Every node is of one of the kinds.                                      *)
LEMMA KindOfNode ==
  ASSUME NEW t, IsTree(t), NEW p \in DOMAIN t
  PROVE  t[p] \in NodeKind
<1>1. {"TranslationUnit", "GenericParam", "VariableDecl"} \subseteq NodeKind
  <2>1. "TranslationUnit" \in DOMAIN UnitFields
    BY DEF UnitFields
  <2>2. "GenericParam" \in DOMAIN DeclFields /\ "VariableDecl" \in DOMAIN DeclFields
    BY DEF DeclFields
  <2> QED
    BY <2>1, <2>2 DEF NodeKind
<1>2. \A kind, field : Holds(kind, field) \subseteq NodeKind
  BY <1>1 DEF Holds
<1> QED
  BY <1>1, <1>2 DEF IsTree

(* Only what Followed lists can be an initializer or an operand.           *)
LEMMA FollowedAll ==
  ASSUME NEW kind \in NodeKind, NEW f \in Onward, f \in Fields[kind]
  PROVE  \E k \in DOMAIN Followed(kind) : Followed(kind)[k] = f
<1>1. ASSUME kind \in DOMAIN UnitFields PROVE f \notin UnitFields[kind]
  BY <1>1 DEF UnitFields, Onward
<1>2. ASSUME kind \in DOMAIN TypeFields PROVE f \notin TypeFields[kind]
  BY <1>2 DEF TypeFields, Onward
<1>3. ASSUME kind \in DOMAIN StmtFields PROVE f \notin StmtFields[kind]
  BY <1>3 DEF StmtFields, Onward
<1>4. ASSUME kind \in DOMAIN MetaFields PROVE f \notin MetaFields[kind]
  BY <1>4 DEF MetaFields, FunctionFields, Onward
<1>5. ASSUME kind \in DOMAIN DeclFields, f \in DeclFields[kind]
      PROVE  kind = "VariableDecl" /\ f = "initializer"
  BY <1>5 DEF DeclFields, FunctionFields, Onward
<1>6. ASSUME kind \in DOMAIN ExprFields, f \in ExprFields[kind]
      PROVE  kind = "BinaryOpExpr" /\ f \in {"left", "right"}
  BY <1>6 DEF ExprFields, Onward
<1>7. \/ kind \in DOMAIN UnitFields /\ f \in UnitFields[kind]
      \/ kind \in DOMAIN TypeFields /\ f \in TypeFields[kind]
      \/ kind \in DOMAIN DeclFields /\ f \in DeclFields[kind]
      \/ kind \in DOMAIN StmtFields /\ f \in StmtFields[kind]
      \/ kind \in DOMAIN ExprFields /\ f \in ExprFields[kind]
      \/ kind \in DOMAIN MetaFields /\ f \in MetaFields[kind]
  BY Zenon DEF NodeKind, Fields
<1>8. \/ kind = "VariableDecl" /\ f = "initializer"
      \/ kind = "BinaryOpExpr" /\ f \in {"left", "right"}
  BY <1>1, <1>2, <1>3, <1>4, <1>5, <1>6, <1>7
<1> QED
  BY <1>8 DEF Followed

(* The nodes below a dumped one are below those its own call goes on to.   *)
LEMMA NextBelow ==
  ASSUME NEW t, IsTree(t), NEW p \in DOMAIN t, p # <<>>, NEW q \in Dumped(t),
         IsPrefix(p, q), p # q
  PROVE  \E k \in DOMAIN Followed(t[p]) : IsPrefix(Append(p, <<Followed(t[p])[k], 0>>), q)
<1> DEFINE S == (STRING \cup Reached) \X Nat
           n == Len(p) + 1
           up == SubSeq(q, 1, n)
<1>1. p \in Paths /\ q \in Paths /\ q \in DOMAIN t
  BY TreesArePaths DEF Dumped
<1>2. p \in Seq(S) /\ q \in Seq(S)
  BY <1>1 DEF Paths
<1>3. Len(p) <= Len(q) /\ \A k \in 1..Len(p) : p[k] = q[k]
  BY <1>1, PrefixIs
<1>4. n \in 2..Len(q) /\ n \in 0..Len(q)
  <2> HIDE DEF S
  <2>1. Len(p) \in Nat /\ Len(q) \in Nat /\ Len(p) # 0
    BY <1>2
  <2>2. Len(p) # Len(q)
    BY <1>2, <1>3
  <2> QED
    BY <1>3, <2>1, <2>2
<1>5. up \in DOMAIN t
  BY <1>1, <1>4, AboveInTree
<1>6. /\ up # <<>> /\ Front(up) = p /\ Last(up) = q[n]
      /\ up \in Seq(S) /\ Len(up) = n /\ q[n] \in S
  <2> HIDE DEF S
  <2>1. /\ up \in Seq(S) /\ Len(up) = n /\ q[n] \in S /\ up[n] = q[n]
        /\ \A k \in 1 .. n - 1 : up[k] = q[k]
    BY <1>2, <1>4
  <2> HIDE DEF up
  <2>2. up # <<>> /\ n - 1 = Len(p)
    BY <1>2, <1>4, <2>1
  <2>3. SubSeq(up, 1, n - 1) = p
    BY <1>2, <1>3, <1>4, <2>1
  <2> QED
    BY <2>1, <2>2, <2>3 DEF Front, Last
<1>7. /\ q[n][1] \in Fields[t[p]] /\ (q[n][2] = 0 <=> q[n][1] \notin Vectors)
  BY <1>5, <1>6 DEF IsTree
<1>8. q[n][1] \in Onward
  BY <1>4 DEF Dumped, Onward
<1>9. PICK k \in DOMAIN Followed(t[p]) : Followed(t[p])[k] = q[n][1]
  BY <1>7, <1>8, KindOfNode, FollowedAll
<1>10. q[n][2] = 0
  BY <1>7, <1>8 DEF Onward, Vectors
<1>11. q[n] = <<Followed(t[p])[k], 0>>
  BY <1>6, <1>9, <1>10
<1> HIDE DEF S
<1>12. Append(p, q[n]) \in Seq(S) /\ Len(Append(p, q[n])) = n
  BY <1>2, <1>6
<1>13. \A j \in 1..n : Append(p, q[n])[j] = q[j]
  BY <1>2, <1>3, <1>6
<1>14. IsPrefix(Append(p, q[n]), q)
  <2>1. Append(p, q[n]) \in Paths /\ n <= Len(q)
    BY <1>4, <1>12 DEF Paths, S
  <2> DEFINE u == Append(p, q[n])
  <2>2. u \in Paths /\ Len(u) <= Len(q) /\ \A j \in 1..Len(u) : u[j] = q[j]
    BY <1>12, <1>13, <2>1
  <2> HIDE DEF u
  <2>3. IsPrefix(u, q)
    BY <1>1, <2>2, PrefixIs
  <2> QED
    BY <2>3 DEF u
<1> QED
  BY <1>11, <1>14

(* A call for what is null has nothing below it.                           *)
LEMMA NullBelow ==
  ASSUME NEW t, IsTree(t), NEW p \in Paths, p \notin DOMAIN t
  PROVE  \A q \in Dumped(t) : ~IsPrefix(p, q)
<1> SUFFICES ASSUME NEW q \in Dumped(t), IsPrefix(p, q) PROVE FALSE
  OBVIOUS
<1>1. q \in DOMAIN t /\ q \in Paths
  BY TreesArePaths DEF Dumped
<1>2. Len(p) \in 0..Len(q) /\ SubSeq(q, 1, Len(p)) = SubSeq(p, 1, Len(p))
  BY <1>1 DEF IsPrefix, Paths
<1>3. SubSeq(p, 1, Len(p)) = p
  BY SubSeqFull DEF Paths
<1> QED
  BY <1>1, <1>2, <1>3, AboveInTree

(* Everything that is dumped is below a declaration of the unit.           *)
LEMMA BelowDeclaration ==
  ASSUME NEW t, IsTree(t), NEW q \in Dumped(t)
  PROVE  /\ <<>> \in DOMAIN t
         /\ \E k \in DOMAIN Declarations(t) : IsPrefix(Declarations(t)[k].node, q)
<1> DEFINE S == (STRING \cup Reached) \X Nat
           up == SubSeq(q, 1, 1)
           I == {p[1][2] : p \in DOMAIN t \ {<<>>}}
<1>1. q \in DOMAIN t /\ q \in Paths /\ q # <<>> /\ q \in Seq(S)
  BY TreesArePaths DEF Dumped, Paths
<1>2. Len(q) \in Nat /\ Len(q) >= 1 /\ q[1] \in S
  <2> HIDE DEF S
  <2> QED
    BY <1>1
<1>3. <<>> \in DOMAIN t
  <2>1. SubSeq(q, 1, 0) = <<>>
    BY <1>1, SubSeqEmpty
  <2>2. 0 \in 0..Len(q)
    BY <1>2
  <2> QED
    BY <1>1, <2>1, <2>2, AboveInTree
<1>4. up \in DOMAIN t /\ up = <<q[1]>> /\ up # <<>>
  <2>1. up \in DOMAIN t
    BY <1>1, <1>2, AboveInTree
  <2> HIDE DEF S
  <2>2. up = <<q[1]>>
    <3>1. up \in Seq(S) /\ Len(up) = 1 /\ up[1] = q[1]
      BY <1>1, <1>2
    <3>2. <<q[1]>> \in Seq(S) /\ Len(<<q[1]>>) = 1 /\ <<q[1]>>[1] = q[1]
      BY <1>2
    <3> HIDE DEF up
    <3>3. \A u, v \in Seq(S) : Len(u) = 1 /\ Len(v) = 1 /\ u[1] = v[1] => u = v
      BY SeqEqual
    <3> QED
      BY <3>1, <3>2, <3>3
  <2>3. <<q[1]>> # <<>>
    OBVIOUS
  <2> QED
    BY <2>1, <2>2, <2>3
<1>5. Front(up) = <<>> /\ Last(up) = q[1]
  <2>1. Len(<<q[1]>>) = 1 /\ SubSeq(<<q[1]>>, 1, 0) = <<>> /\ <<q[1]>>[1] = q[1]
    BY <1>2
  <2> QED
    BY <1>4, <2>1 DEF Front, Last
<1>6. q[1][1] \in Fields["TranslationUnit"] /\ (q[1][2] = 0 <=> q[1][1] \notin Vectors)
  BY <1>4, <1>5, Zenon DEF IsTree
<1>7. q[1][1] = "declarations" /\ q[1][2] \in Nat \ {0}
  <2>1. "TranslationUnit" \in DOMAIN UnitFields
    BY DEF UnitFields
  <2>2. Fields["TranslationUnit"] = UnitFields["TranslationUnit"]
    <3>1. /\ "TranslationUnit" \notin DOMAIN TypeFields
          /\ "TranslationUnit" \notin DOMAIN DeclFields
          /\ "TranslationUnit" \notin DOMAIN StmtFields
          /\ "TranslationUnit" \notin DOMAIN ExprFields
          /\ "TranslationUnit" \notin DOMAIN MetaFields
      BY DEF TypeFields, DeclFields, StmtFields, ExprFields, MetaFields
    <3> QED
      BY <2>1, <3>1 DEF Fields, NodeKind
  <2>3. q[1][1] = "declarations"
    BY <1>6, <2>2 DEF UnitFields
  <2> QED
    BY <1>2, <1>6, <2>3 DEF Vectors
<1>8. q[1][2] <= Size(t) /\ Size(t) \in Nat
  <2>1. {0} \cup I \in SUBSET Nat /\ IsFiniteSet({0} \cup I) /\ q[1][2] \in {0} \cup I
    BY <1>1, SizesFinite
  <2> HIDE DEF I
  <2>2. Max({0} \cup I) \in {0} \cup I /\ \A y \in {0} \cup I : y <= Max({0} \cup I)
    BY <2>1, Greatest
  <2> QED
    BY <2>1, <2>2 DEF Size, I
<1>9. q[1] = <<"declarations", q[1][2]>>
  BY <1>2, <1>7
<1>10. /\ q[1][2] \in DOMAIN Declarations(t)
       /\ Declarations(t)[q[1][2]].node = <<q[1]>>
  <2>1. q[1][2] \in 1..Size(t)
    BY <1>7, <1>8
  <2>2. Declarations(t)[q[1][2]].node = <<<<"declarations", q[1][2]>>>>
    BY <2>1 DEF Declarations, Call
  <2> QED
    BY <1>9, <2>1, <2>2, Zenon DEF Declarations
<1>11. IsPrefix(<<q[1]>>, q)
  BY <1>1, <1>2, <1>4 DEF IsPrefix
<1> QED
  BY <1>3, <1>10, <1>11

-----------------------------------------------------------------------------
(* The steps.                                                              *)

(* Lines for the current file are added at the end.                        *)
LEMMA Extended ==
  ASSUME out \in Seq(LineSet), out' \in Seq(LineSet), Len(out) <= Len(out'), syn' = syn,
         \A n \in DOMAIN out : out'[n] = out[n],
         file \in Nat, file' \in Nat, file <= file', file' >= 1,
         \A n \in DOMAIN out' : n \notin DOMAIN out => out'[n].file = file',
         SectionsSoFar
  PROVE  /\ \A n \in DOMAIN out' : out'[n].file \in 1..file'
         /\ \A m, n \in DOMAIN out' : m < n => out'[m].file <= out'[n].file
         /\ \A f \in 1..file' : \A first, last \in DOMAIN out :
              f < file' /\ Section(f, first, last) => Section(f, first, last)'
<1>1. /\ DOMAIN out = 1..Len(out) /\ DOMAIN out' = 1..Len(out')
      /\ Len(out) \in Nat /\ Len(out') \in Nat
  OBVIOUS
<1>2. ASSUME NEW n \in DOMAIN out' PROVE out'[n].file \in 1..file'
  <2>1. CASE n \in DOMAIN out
    BY <2>1 DEF SectionsSoFar
  <2>2. CASE n \notin DOMAIN out
    BY <1>2, <2>2
  <2> QED
    BY <2>1, <2>2
<1>3. ASSUME NEW m \in DOMAIN out', NEW n \in DOMAIN out', m < n
      PROVE  out'[m].file <= out'[n].file
  <2>1. CASE n \in DOMAIN out
    <3>1. m \in DOMAIN out
      BY <1>1, <1>3, <2>1
    <3> QED
      BY <1>3, <2>1, <3>1 DEF SectionsSoFar
  <2>2. CASE n \notin DOMAIN out
    <3>1. out'[n].file = file' /\ out'[m].file \in 1..file'
      BY <1>2, <1>3, <2>2
    <3> QED
      BY <3>1
  <2> QED
    BY <2>1, <2>2
<1>4. ASSUME NEW f \in 1..file', NEW first \in DOMAIN out, NEW last \in DOMAIN out,
             f < file', Section(f, first, last)
      PROVE  Section(f, first, last)'
  <2>1. LinesOf(f)' = LinesOf(f)
    <3>1. \A n \in DOMAIN out' : n \notin DOMAIN out => out'[n].file # f
      BY <1>4
    <3>2. DOMAIN out \subseteq DOMAIN out'
      BY <1>1
    <3> QED
      BY <3>1, <3>2 DEF LinesOf
  <2>2. BodyFrom(f, first)' = BodyFrom(f, first) /\ BodyFrom(f, first) \in {first + 1, first + 2}
    BY DEF BodyFrom
  <2>3. Heading(f, first)'
    <3>1. Heading(f, first) /\ BodyFrom(f, first) <= last
      BY <1>4 DEF Section
    <3>2. <<>> \in DOMAIN syn[f] => first + 1 \in DOMAIN out
      BY <1>1, <3>1 DEF BodyFrom
    <3> QED
      BY <3>1, <3>2 DEF Heading
  <2> DEFINE body == BodyFrom(f, first) .. last - 1
  <2>4. body \subseteq DOMAIN out /\ body' = body
    BY <1>1, <2>2
  <2>5. InOrder(body) /\ {out[k].node : k \in body} = Dumped(syn[f])
    BY <1>4 DEF Section
  <2> HIDE DEF body
  <2>6. InOrder(body)'
    <3>1. body' \subseteq NodeLines'
      BY <1>1, <2>4, <2>5 DEF InOrder, NodeLines
    <3>2. \A k \in body : out'[k] = out[k]
      BY <2>4
    <3> QED
      BY <2>4, <2>5, <3>1, <3>2 DEF InOrder
  <2>7. {out[k].node : k \in body}' = Dumped(syn[f])'
    BY <2>4, <2>5
  <2>8. out'[last].line = "blank" /\ BodyFrom(f, first) <= last /\ LinesOf(f) = first..last
    BY <1>4 DEF Section
  <2> QED
    BY <2>1, <2>2, <2>3, <2>4, <2>6, <2>7, <2>8 DEF Section, body
<1> QED
  BY <1>2, <1>3, <1>4

(* What the trees are.                                                     *)
LEMMA TreesRight ==
  ASSUME TypesRight
  PROVE  /\ Len(syn) \in Nat /\ DOMAIN syn = 1..Len(syn)
         /\ \A k \in DOMAIN syn : IsTree(syn[k])
         /\ file \in Nat /\ out \in Seq(LineSet) /\ pending \in Seq(CallSet)
BY InputsAssumption DEF TypesRight

(* A file without a tree has a section of two lines.                       *)
LEMMA NoTreeOrder ==
  ASSUME OrderInv, FileWithoutTree
  PROVE  SectionsSoFar' /\ OpenSoFar' /\ PendingApart'
<1>1. /\ TypesRight /\ PendingInTree /\ SectionsSoFar
  BY DEF OrderInv, IndInv
<1>2. /\ mode = "files" /\ mode' = "files" /\ syn' = syn /\ file' = file + 1
      /\ pending = <<>> /\ pending' = <<>> /\ file < Len(syn)
      /\ <<>> \notin DOMAIN syn[file'] /\ out' = out \o <<FileLine, BlankLine>>
  BY <1>1 DEF FileWithoutTree, BeginFile, PendingInTree
<1>3. /\ file \in Nat /\ file' \in DOMAIN syn /\ IsTree(syn[file']) /\ out \in Seq(LineSet)
  BY <1>1, <1>2, TreesRight
<1>4. /\ FileLine \in LineSet /\ FileLine.line = "File" /\ FileLine.file = file'
      /\ BlankLine \in LineSet /\ BlankLine.line = "blank" /\ BlankLine.file = file'
  BY <1>2, <1>3 DEF FileLine, BlankLine, LineSet
<1> DEFINE N == Len(out)
<1>5. /\ out' \in Seq(LineSet) /\ Len(out') = N + 2 /\ N \in Nat
      /\ \A n \in DOMAIN out : out'[n] = out[n]
      /\ DOMAIN out = 1..N /\ DOMAIN out' = 1 .. N + 2
      /\ out'[N + 1] = FileLine /\ out'[N + 2] = BlankLine
  <2> HIDE DEF FileLine, BlankLine
  <2> QED
    BY <1>2, <1>3, <1>4
<1>6. \A n \in DOMAIN out' : n \notin DOMAIN out => n \in {N + 1, N + 2}
  BY <1>5
<1>7. /\ \A n \in DOMAIN out' : out'[n].file \in 1..file'
      /\ \A m, n \in DOMAIN out' : m < n => out'[m].file <= out'[n].file
      /\ \A f \in 1..file' : \A first, last \in DOMAIN out :
           f < file' /\ Section(f, first, last) => Section(f, first, last)'
  <2>1. N <= N + 2 /\ file' \in Nat /\ file <= file' /\ file' >= 1
    BY <1>2, <1>3, <1>5
  <2>2. \A n \in DOMAIN out' : n \notin DOMAIN out => out'[n].file = file'
    BY <1>4, <1>5, <1>6
  <2> QED
    BY <1>1, <1>2, <1>3, <1>5, <2>1, <2>2, Extended
<1>8. PICK F, first, last : F = file' /\ first = N + 1 /\ last = N + 2
  OBVIOUS
<1>9. Section(F, first, last)'
  <2>1. LinesOf(F)' = first..last
    <3>1. \A n \in DOMAIN out : out'[n].file # F
      BY <1>1, <1>2, <1>3, <1>5, <1>8 DEF SectionsSoFar
    <3>2. \A n \in DOMAIN out' : out'[n].file = F <=> n \in {N + 1, N + 2}
      BY <1>4, <1>5, <1>6, <1>8, <3>1
    <3> QED
      BY <1>5, <1>8, <3>2 DEF LinesOf
  <2>2. Heading(F, first)' /\ BodyFrom(F, first)' = first + 1
    BY <1>2, <1>4, <1>5, <1>8 DEF Heading, BodyFrom
  <2>3. Dumped(syn'[F]) = {}
    BY <1>2, <1>3, <1>8, BelowDeclaration
  <2>4. first + 1 .. last - 1 = {} /\ first + 1 <= last
    BY <1>5, <1>8
  <2>5. out'[last].line = "blank"
    BY <1>4, <1>5, <1>8
  <2> QED
    BY <2>1, <2>2, <2>3, <2>4, <2>5 DEF Section, InOrder
<1>10. \A f \in 1..file' : \E a, b \in DOMAIN out' : Section(f, a, b)'
  <2> SUFFICES ASSUME NEW f \in 1..file' PROVE \E a, b \in DOMAIN out' : Section(f, a, b)'
    OBVIOUS
  <2>1. CASE f = file'
    BY <1>5, <1>8, <1>9, <2>1
  <2>2. CASE f # file'
    <3>1. f \in 1..file /\ f < file'
      BY <1>2, <1>3, <2>2
    <3>2. PICK a, b \in DOMAIN out : Section(f, a, b)
      BY <1>1, <1>2, <1>3, <3>1 DEF SectionsSoFar, Written
    <3> QED
      BY <1>5, <1>7, <3>1, <3>2
  <2> QED
    BY <2>1, <2>2
<1>11. SectionsSoFar'
  BY <1>7, <1>10, Zenon DEF SectionsSoFar
<1> QED
  BY <1>2, <1>11 DEF OpenSoFar, PendingApart

(* A unit's declarations are to come, and everything dumped is below them. *)
LEMMA TreeOrder ==
  ASSUME OrderInv, FileWithTree
  PROVE  SectionsSoFar' /\ OpenSoFar' /\ PendingApart'
<1>1. TypesRight /\ SectionsSoFar
  BY DEF OrderInv, IndInv
<1>2. /\ mode = "files" /\ mode' = "tree" /\ syn' = syn /\ file' = file + 1 /\ file < Len(syn)
      /\ pending' = Declarations(syn[file'])
      /\ <<>> \in DOMAIN syn[file'] /\ out' = out \o <<FileLine, UnitLine>>
  BY DEF FileWithTree, BeginFile
<1>3. /\ file \in Nat /\ file' \in DOMAIN syn /\ IsTree(syn[file']) /\ out \in Seq(LineSet)
  BY <1>1, <1>2, TreesRight
<1>4. /\ FileLine \in LineSet /\ FileLine.line = "File" /\ FileLine.file = file'
      /\ UnitLine \in LineSet /\ UnitLine.line = "TranslationUnit" /\ UnitLine.file = file'
  BY <1>2, <1>3 DEF FileLine, UnitLine, LineSet
<1> DEFINE N == Len(out)
<1>5. /\ out' \in Seq(LineSet) /\ Len(out') = N + 2 /\ N \in Nat
      /\ \A n \in DOMAIN out : out'[n] = out[n]
      /\ DOMAIN out = 1..N /\ DOMAIN out' = 1 .. N + 2
      /\ out'[N + 1] = FileLine /\ out'[N + 2] = UnitLine
  <2> HIDE DEF FileLine, UnitLine
  <2> QED
    BY <1>2, <1>3, <1>4
<1>6. \A n \in DOMAIN out' : n \notin DOMAIN out => n \in {N + 1, N + 2}
  BY <1>5
<1>7. /\ \A n \in DOMAIN out' : out'[n].file \in 1..file'
      /\ \A m, n \in DOMAIN out' : m < n => out'[m].file <= out'[n].file
      /\ \A f \in 1..file' : \A first, last \in DOMAIN out :
           f < file' /\ Section(f, first, last) => Section(f, first, last)'
  <2>1. N <= N + 2 /\ file' \in Nat /\ file <= file' /\ file' >= 1
    BY <1>2, <1>3, <1>5
  <2>2. \A n \in DOMAIN out' : n \notin DOMAIN out => out'[n].file = file'
    BY <1>4, <1>5, <1>6
  <2> QED
    BY <1>1, <1>2, <1>3, <1>5, <2>1, <2>2, Extended
<1>8. SectionsSoFar'
  <2>1. \A f \in 1..file' : Written(f)' => \E a, b \in DOMAIN out' : Section(f, a, b)'
    <3> SUFFICES ASSUME NEW f \in 1..file', Written(f)'
                 PROVE  \E a, b \in DOMAIN out' : Section(f, a, b)'
      OBVIOUS
    <3>1. f \in 1..file /\ f < file'
      BY <1>2, <1>3 DEF Written
    <3>2. PICK a, b \in DOMAIN out : Section(f, a, b)
      BY <1>1, <1>2, <1>3, <3>1 DEF SectionsSoFar, Written
    <3> QED
      BY <1>5, <1>7, <3>1, <3>2
  <2> QED
    BY <1>7, <2>1, Zenon DEF SectionsSoFar
<1>9. PICK first : first = N + 1
  OBVIOUS
<1>10. OpenSection(first)'
  <2>1. LinesOf(file)' = first..Len(out')
    <3>1. \A n \in DOMAIN out : out'[n].file # file'
      BY <1>1, <1>2, <1>3, <1>5 DEF SectionsSoFar
    <3>2. \A n \in DOMAIN out' : out'[n].file = file' <=> n \in {N + 1, N + 2}
      BY <1>4, <1>5, <1>6, <3>1
    <3> QED
      BY <1>5, <1>9, <3>2 DEF LinesOf
  <2>2. Heading(file, first)'
    BY <1>2, <1>4, <1>5, <1>9 DEF Heading
  <2>3. first + 2 .. Len(out') = {}
    BY <1>5, <1>9
  <2>4. \A q \in Dumped(Tree') : \E k \in DOMAIN pending' : IsPrefix(pending'[k].node, q)
    BY <1>2, <1>3, BelowDeclaration DEF Tree
  <2> QED
    BY <2>1, <2>2, <2>3, <2>4 DEF OpenSection, InOrder
<1>11. OpenSoFar'
  <2>1. first \in 1 .. Len(out') - 1
    BY <1>5, <1>9
  <2> QED
    BY <1>2, <1>3, <1>10, <2>1 DEF OpenSoFar, Tree
<1>12. PendingApart'
  <2>1. Size(syn[file']) \in Nat
    BY <1>3, SizesFinite, Greatest DEF Size
  <2>2. \A k \in DOMAIN pending' :
          pending'[k].node = <<<<"declarations", k>>>> /\ k \in Nat
    BY <1>2, <2>1 DEF Declarations, Call
  <2>3. ASSUME NEW k \in Nat
        PROVE  /\ <<<<"declarations", k>>>> \in Paths /\ DumpPath(<<<<"declarations", k>>>>)
               /\ Len(<<<<"declarations", k>>>>) = 1
    <3> DEFINE slot == <<"declarations", k>>
               S == (STRING \cup Reached) \X Nat
    <3>1. slot \in S
      BY DEF Reached
    <3> HIDE DEF slot, S
    <3>2. <<slot>> \in Seq(S) /\ Len(<<slot>>) = 1 /\ <<slot>> # <<>>
      BY <3>1
    <3>3. 2..1 = {}
      OBVIOUS
    <3> QED
      BY <3>2, <3>3 DEF slot, S, Paths, DumpPath
  <2>4. ASSUME NEW j \in Nat, NEW k \in Nat, j < k
        PROVE  LeftOf(<<<<"declarations", j>>>>, <<<<"declarations", k>>>>)
    <3> DEFINE p == <<<<"declarations", j>>>>
               q == <<<<"declarations", k>>>>
    <3>1. p[1][2] < q[1][2]
      BY <2>4
    <3>2. p \in Paths /\ q \in Paths /\ Len(p) = 1 /\ Len(q) = 1
      BY <2>3
    <3> HIDE DEF p, q
    <3>3. 1 \in 1..Len(p) /\ 1 <= Len(q) /\ \A i \in 1 .. 1 - 1 : p[i] = q[i]
      BY <3>2
    <3>4. LeftOf(p, q)
      BY <3>1, <3>2, <3>3, LeftIs
    <3> QED
      BY <3>4 DEF p, q
  <2> QED
    BY <2>2, <2>3, <2>4 DEF PendingApart
<1> QED
  BY <1>8, <1>11, <1>12

(* Nothing is below a call for what is null.                               *)
LEMMA NullOrder ==
  ASSUME OrderInv, DumpNull
  PROVE  SectionsSoFar' /\ OpenSoFar' /\ PendingApart'
<1>1. /\ TypesRight /\ SectionsSoFar /\ OpenSoFar /\ PendingApart
  BY DEF OrderInv, IndInv
<1>2. /\ mode = "tree" /\ mode' = "tree" /\ syn' = syn /\ file' = file /\ out' = out
      /\ pending # <<>> /\ pending' = Tail(pending) /\ Head(pending).node \notin DOMAIN Tree
  BY DEF DumpNull
<1>3. /\ pending' = <<>> \o Tail(pending) /\ pending \in Seq(CallSet) /\ <<>> \in Seq(CallSet)
  BY <1>1, <1>2, TreesRight
<1>4. /\ \A k \in DOMAIN pending' : k + 1 \in DOMAIN pending /\ pending'[k] = pending[k + 1]
      /\ \A k \in DOMAIN pending : k # 1 => k - 1 \in DOMAIN pending' /\ pending'[k - 1] = pending[k]
      /\ DOMAIN pending' \subseteq Nat
  BY <1>2, <1>3
<1>5. SectionsSoFar'
  <2>1. ASSUME NEW f, NEW a, NEW b, Section(f, a, b) PROVE Section(f, a, b)'
    BY <1>2, <2>1 DEF Section, LinesOf, Heading, BodyFrom, InOrder, NodeLines
  <2>2. \A f : Written(f)' <=> Written(f)
    BY <1>2 DEF Written
  <2> QED
    BY <1>1, <1>2, <2>1, <2>2 DEF SectionsSoFar
<1>6. PendingApart'
  <2> SUFFICES ASSUME NEW k \in DOMAIN pending'
               PROVE  /\ DumpPath(pending'[k].node)
                      /\ \A j \in DOMAIN pending' : j < k =>
                           LeftOf(pending'[j].node, pending'[k].node)
    BY DEF PendingApart
  <2>1. \A j \in DOMAIN pending' : j < k => j + 1 < k + 1
    BY <1>4
  <2> QED
    BY <1>1, <1>4, <2>1 DEF PendingApart
<1>7. OpenSoFar'
  <2>1. PICK first \in 1 .. Len(out) - 1 : OpenSection(first)
    BY <1>1, <1>2 DEF OpenSoFar
  <2>2. file \in DOMAIN syn /\ <<>> \in DOMAIN Tree /\ Tree' = Tree
    BY <1>1, <1>2 DEF OpenSoFar, Tree
  <2>3. \A q \in Dumped(Tree) : ~IsPrefix(pending[1].node, q)
    <3>1. IsTree(Tree)
      BY <1>1, <2>2, TreesRight DEF Tree
    <3>2. 1 \in DOMAIN pending /\ Head(pending) = pending[1] /\ pending[1] \in CallSet
      BY <1>2, <1>3
    <3>3. pending[1].node \in Nodes /\ pending[1].node \notin DOMAIN Tree
      BY <1>2, <3>2 DEF CallSet
    <3> QED
      BY <3>1, <3>3, NullBelow, NodesArePaths
  <2>4. \A q \in Dumped(Tree) :
          \/ \E m \in first + 2 .. Len(out) : out[m].node = q
          \/ \E k \in DOMAIN pending' : IsPrefix(pending'[k].node, q)
    BY <1>4, <2>1, <2>3 DEF OpenSection
  <2>5. OpenSection(first)'
    BY <1>2, <1>4, <2>1, <2>2, <2>4 DEF OpenSection, LinesOf, Heading, InOrder, NodeLines
  <2> QED
    BY <1>2, <2>1, <2>2, <2>5 DEF OpenSoFar
<1> QED
  BY <1>5, <1>6, <1>7

(* When no call is left everything has been written.                       *)
LEMMA EndOrder ==
  ASSUME OrderInv, EndTree
  PROVE  SectionsSoFar' /\ OpenSoFar' /\ PendingApart'
<1>1. TypesRight /\ SectionsSoFar /\ OpenSoFar
  BY DEF OrderInv, IndInv
<1>2. /\ mode = "tree" /\ mode' = "files" /\ syn' = syn /\ file' = file
      /\ pending = <<>> /\ pending' = <<>> /\ out' = Append(out, BlankLine)
  BY DEF EndTree
<1>3. file \in Nat /\ out \in Seq(LineSet) /\ file \in DOMAIN syn /\ <<>> \in DOMAIN syn[file]
  BY <1>1, <1>2, TreesRight DEF OpenSoFar, Tree
<1>4. BlankLine \in LineSet /\ BlankLine.line = "blank" /\ BlankLine.file = file
  BY <1>2, <1>3 DEF BlankLine, LineSet
<1> DEFINE N == Len(out)
<1>5. /\ out' \in Seq(LineSet) /\ Len(out') = N + 1 /\ N \in Nat
      /\ \A n \in DOMAIN out : out'[n] = out[n]
      /\ DOMAIN out = 1..N /\ DOMAIN out' = 1 .. N + 1 /\ out'[N + 1] = BlankLine
  <2> HIDE DEF BlankLine
  <2> QED
    BY <1>2, <1>3, <1>4
<1>6. PICK first \in 1 .. N - 1 : OpenSection(first)
  BY <1>1, <1>2 DEF OpenSoFar
<1>7. file >= 1
  <2>1. file \in 1..Len(syn)
    BY <1>1, <1>3, TreesRight
  <2> QED
    BY <1>3, <2>1
<1>8. /\ \A n \in DOMAIN out' : out'[n].file \in 1..file'
      /\ \A m, n \in DOMAIN out' : m < n => out'[m].file <= out'[n].file
      /\ \A f \in 1..file' : \A a, b \in DOMAIN out :
           f < file' /\ Section(f, a, b) => Section(f, a, b)'
  <2>1. N <= N + 1 /\ file' \in Nat /\ file <= file' /\ file' >= 1
    BY <1>2, <1>3, <1>5, <1>7
  <2>2. \A n \in DOMAIN out' : n \notin DOMAIN out => out'[n].file = file'
    BY <1>2, <1>4, <1>5
  <2> QED
    BY <1>1, <1>2, <1>3, <1>5, <2>1, <2>2, Extended
<1>9. PICK F, last : F = file /\ last = N + 1
  OBVIOUS
<1>10. Section(F, first, last)'
  <2>1. LinesOf(F)' = first..last
    <3>1. LinesOf(file) = first..N
      BY <1>6 DEF OpenSection
    <3>2. \A n \in DOMAIN out' : out'[n].file = F <=> n \in LinesOf(file) \/ n = N + 1
      BY <1>4, <1>5, <1>9 DEF LinesOf
    <3>3. \A n \in LinesOf(file) : n \in DOMAIN out'
      BY <1>5 DEF LinesOf
    <3>4. LinesOf(F)' = LinesOf(file) \cup {N + 1}
      BY <1>5, <3>2, <3>3 DEF LinesOf
    <3> QED
      BY <1>5, <1>9, <3>1, <3>4
  <2>2. first \in DOMAIN out /\ first + 1 \in DOMAIN out
    BY <1>5
  <2>3. Heading(F, first)' /\ BodyFrom(F, first)' = first + 2
    <3>1. Heading(file, first)
      BY <1>6 DEF OpenSection
    <3> QED
      BY <1>2, <1>3, <1>5, <1>9, <2>2, <3>1 DEF Heading, BodyFrom
  <2>4. first + 2 <= last /\ last - 1 = N
    BY <1>5, <1>9
  <2> DEFINE body == first + 2 .. last - 1
  <2>5. body \subseteq DOMAIN out /\ body' = body
    BY <1>5, <2>4
  <2>6. /\ InOrder(body) /\ \A m \in body : out[m].node \in Dumped(Tree)
        /\ \A q \in Dumped(Tree) : \E m \in body : out[m].node = q
    BY <1>2, <1>6, <2>4 DEF OpenSection
  <2> HIDE DEF body
  <2>7. InOrder(body)'
    <3>1. body \subseteq NodeLines'
      BY <1>5, <2>5, <2>6 DEF InOrder, NodeLines
    <3> QED
      BY <1>5, <2>5, <2>6, <3>1 DEF InOrder
  <2>8. {out'[k].node : k \in body} = Dumped(syn'[F])
    BY <1>2, <1>5, <1>9, <2>5, <2>6 DEF Tree
  <2>9. out'[last].line = "blank"
    BY <1>4, <1>5, <1>9
  <2> QED
    BY <2>1, <2>3, <2>4, <2>5, <2>7, <2>8, <2>9 DEF Section, body
<1>11. SectionsSoFar'
  <2>1. \A f \in 1..file' : \E a, b \in DOMAIN out' : Section(f, a, b)'
    <3> SUFFICES ASSUME NEW f \in 1..file' PROVE \E a, b \in DOMAIN out' : Section(f, a, b)'
      OBVIOUS
    <3>1. CASE f = file
      BY <1>5, <1>9, <1>10, <3>1
    <3>2. CASE f # file
      <4>1. f \in 1..file /\ f < file'
        BY <1>2, <1>3, <3>2
      <4>2. PICK a, b \in DOMAIN out : Section(f, a, b)
        BY <1>1, <1>2, <4>1 DEF SectionsSoFar, Written
      <4> QED
        BY <1>5, <1>8, <4>1, <4>2
    <3> QED
      BY <3>1, <3>2
  <2> QED
    BY <1>8, <2>1, Zenon DEF SectionsSoFar
<1> QED
  BY <1>2, <1>11 DEF OpenSoFar, PendingApart

(* The calls a dumped node makes: each below the node, the left one first, *)
(* and together above all that is dumped below the node.                   *)
LEMMA CallsBelow ==
  ASSUME IsTree(Tree), NEW call \in CallSet, call.node \in Dumped(Tree)
  PROVE  /\ \A k \in DOMAIN Calls(call) :
              /\ IsStrictPrefix(call.node, Calls(call)[k].node)
              /\ DumpPath(Calls(call)[k].node)
              /\ \A j \in DOMAIN Calls(call) : j < k =>
                   LeftOf(Calls(call)[j].node, Calls(call)[k].node)
         /\ \A q \in Dumped(Tree) : IsPrefix(call.node, q) =>
              q = call.node \/ \E k \in DOMAIN Calls(call) : IsPrefix(Calls(call)[k].node, q)
<1> DEFINE S == (STRING \cup Reached) \X Nat
           p == call.node
           f == Followed(Tree[p])
           sub(k) == Append(p, <<f[k], 0>>)
<1>1. p \in DOMAIN Tree /\ p # <<>> /\ p \in Paths /\ \A k \in 2..Len(p) : p[k][1] \in Onward
  BY TreesArePaths DEF Dumped, Onward
<1>2. DOMAIN Calls(call) = DOMAIN f /\ \A k \in DOMAIN f : Calls(call)[k].node = sub(k)
  BY DEF Calls, Call
<1>3. /\ DOMAIN f \subseteq Nat /\ \A k \in DOMAIN f : f[k] \in Onward
      /\ \A j, k \in DOMAIN f : j < k => f[j] = "left" /\ f[k] = "right"
  <2>1. CASE f = <<"initializer">>
    BY <2>1 DEF Onward
  <2>2. CASE f = <<"left", "right">>
    BY <2>2 DEF Onward
  <2>3. CASE f = <<>>
    BY <2>3
  <2>4. f \in {<<"initializer">>, <<"left", "right">>, <<>>}
    BY DEF Followed
  <2> QED
    BY <2>1, <2>2, <2>3, <2>4
<1> HIDE DEF f
<1>4. p \in Seq(S) /\ Len(p) \in Nat /\ Len(p) >= 1
  <2>1. p \in Seq(S)
    BY <1>1 DEF Paths
  <2> HIDE DEF S
  <2> QED
    BY <1>1, <2>1
<1>5. ASSUME NEW k \in DOMAIN f
      PROVE  /\ sub(k) \in Paths /\ Len(sub(k)) = Len(p) + 1 /\ sub(k)[Len(p) + 1] = <<f[k], 0>>
             /\ \A i \in 1..Len(p) : sub(k)[i] = p[i]
  <2>1. <<f[k], 0>> \in S
    BY <1>3, <1>5 DEF Onward, Reached
  <2> HIDE DEF S
  <2>2. sub(k) \in Seq(S) /\ Len(sub(k)) = Len(p) + 1
    BY <1>4, <2>1
  <2> QED
    BY <1>4, <2>1, <2>2 DEF Paths, S
<1>6. ASSUME NEW k \in DOMAIN f
      PROVE  IsStrictPrefix(p, sub(k)) /\ DumpPath(sub(k))
  <2> HIDE DEF sub, p, S
  <2>1. IsPrefix(p, sub(k))
    BY <1>1, <1>4, <1>5, PrefixIs
  <2>2. p # sub(k) /\ sub(k) # <<>>
    BY <1>4, <1>5
  <2>3. ASSUME NEW i \in 2..Len(sub(k)) PROVE sub(k)[i][1] \in Onward
    <3>1. CASE i = Len(p) + 1
      BY <1>3, <1>5, <3>1
    <3>2. CASE i # Len(p) + 1
      <4>1. i \in 2..Len(p) /\ i \in 1..Len(p)
        BY <1>4, <1>5, <3>2
      <4> QED
        BY <1>1, <1>5, <4>1
    <3> QED
      BY <3>1, <3>2
  <2> QED
    BY <2>1, <2>2, <2>3 DEF IsStrictPrefix, DumpPath
<1>7. ASSUME NEW j \in DOMAIN f, NEW k \in DOMAIN f, j < k
      PROVE  LeftOf(sub(j), sub(k))
  <2>1. f[j] = "left" /\ f[k] = "right"
    BY <1>3, <1>7
  <2> DEFINE N == Len(p) + 1
  <2>2. N \in 1..Len(sub(j)) /\ N <= Len(sub(k)) /\ N # 1 /\ N - 1 = Len(p)
    BY <1>4, <1>5
  <2>3. sub(j)[N][1] = "left" /\ sub(k)[N][1] = "right"
    BY <1>5, <2>1
  <2>4. \A i \in 1 .. N - 1 : sub(j)[i] = sub(k)[i]
    BY <1>5, <2>2
  <2>5. sub(j) \in Paths /\ sub(k) \in Paths
    BY <1>5
  <2> HIDE DEF sub, N
  <2> QED
    BY <2>2, <2>3, <2>4, <2>5, LeftIs
<1>8. ASSUME NEW q \in Dumped(Tree), IsPrefix(p, q), q # p
      PROVE  \E k \in DOMAIN f : IsPrefix(sub(k), q)
  BY <1>1, <1>8, NextBelow DEF f
<1> QED
  BY <1>2, <1>6, <1>7, <1>8

(* A node is written, and its calls come before those that were to come.   *)
LEMMA NodeOrder ==
  ASSUME OrderInv, DumpNode
  PROVE  SectionsSoFar' /\ OpenSoFar' /\ PendingApart'
<1>1. /\ TypesRight /\ SectionsSoFar /\ OpenSoFar /\ PendingApart
  BY DEF OrderInv, IndInv
<1>2. PICK call, calls, N : call = Head(pending) /\ calls = Calls(call) /\ N = Len(out) + 1
  OBVIOUS
<1>3. /\ mode = "tree" /\ mode' = "tree" /\ syn' = syn /\ file' = file /\ Tree' = Tree
      /\ pending # <<>> /\ pending' = calls \o Tail(pending) /\ call.node \in DOMAIN Tree
      /\ out' = Append(out, NodeLine(call))
  BY <1>2 DEF DumpNode, Tree
<1>4. /\ file \in Nat /\ file \in DOMAIN syn /\ file >= 1 /\ IsTree(Tree) /\ <<>> \in DOMAIN Tree
      /\ out \in Seq(LineSet) /\ pending \in Seq(CallSet)
  <2>1. file \in DOMAIN syn /\ <<>> \in DOMAIN Tree
    BY <1>1, <1>3 DEF OpenSoFar
  <2>2. /\ file \in 1..Len(syn) /\ Len(syn) \in Nat /\ IsTree(Tree)
        /\ out \in Seq(LineSet) /\ pending \in Seq(CallSet)
    BY <1>1, <2>1, TreesRight DEF Tree
  <2>3. file >= 1 /\ file \in Nat
    BY <2>2
  <2> QED
    BY <2>1, <2>2, <2>3
<1>5. /\ call \in CallSet /\ 1 \in DOMAIN pending /\ call = pending[1]
      /\ \A k \in DOMAIN pending : pending[k] \in CallSet /\ (k # 1 => 1 < k)
  BY <1>2, <1>3, <1>4
<1>6. call.node \in Dumped(Tree) /\ call.node \in Paths
  <2>1. DumpPath(call.node)
    BY <1>1, <1>5 DEF PendingApart
  <2> QED
    BY <1>3, <1>4, <2>1, TreesArePaths DEF DumpPath, Dumped, Onward
<1>7. /\ calls \in Seq(CallSet)
      /\ \A k \in DOMAIN calls :
           /\ IsStrictPrefix(call.node, calls[k].node) /\ DumpPath(calls[k].node)
           /\ \A j \in DOMAIN calls : j < k => LeftOf(calls[j].node, calls[k].node)
      /\ \A q \in Dumped(Tree) : IsPrefix(call.node, q) =>
           q = call.node \/ \E k \in DOMAIN calls : IsPrefix(calls[k].node, q)
  BY <1>2, <1>4, <1>5, <1>6, CallsOf, CallsBelow
<1>8. /\ pending' \in Seq(CallSet)
      /\ \A k \in DOMAIN pending' :
           \/ k \in DOMAIN calls /\ pending'[k] = calls[k]
           \/ /\ k - Len(calls) + 1 \in DOMAIN pending /\ k \notin DOMAIN calls
              /\ pending'[k] = pending[k - Len(calls) + 1]
      /\ \A k \in DOMAIN calls : k \in DOMAIN pending' /\ pending'[k] = calls[k]
      /\ \A k \in DOMAIN pending : k # 1 =>
           /\ k + Len(calls) - 1 \in DOMAIN pending'
           /\ pending'[k + Len(calls) - 1] = pending[k]
      /\ DOMAIN pending' \subseteq Nat /\ DOMAIN pending \subseteq Nat
      /\ Len(calls) \in Nat /\ DOMAIN calls = 1..Len(calls)
  BY <1>3, <1>4, <1>7, PendingAfter
<1>9. ASSUME NEW k \in DOMAIN pending', k \notin DOMAIN calls
      PROVE  /\ k - Len(calls) + 1 \in DOMAIN pending /\ 1 < k - Len(calls) + 1
             /\ pending'[k] = pending[k - Len(calls) + 1]
  <2>1. k \in 1..Len(pending') /\ Len(pending') \in Nat
    BY <1>8
  <2>2. k > Len(calls)
    BY <1>8, <1>9, <2>1
  <2> QED
    BY <1>8, <1>9, <2>1, <2>2
(* Calls that were to come are right of the node and all that is below it. *)
<1>10. ASSUME NEW k \in DOMAIN calls, NEW m \in DOMAIN pending, 1 < m
       PROVE  LeftOf(call.node, pending[m].node) /\ LeftOf(calls[k].node, pending[m].node)
  <2>1. LeftOf(call.node, pending[m].node)
    BY <1>1, <1>5, <1>10 DEF PendingApart
  <2>2. calls[k].node \in Paths /\ pending[m].node \in Paths
    <3>1. calls[k] \in CallSet /\ pending[m] \in CallSet
      BY <1>5, <1>7
    <3> QED
      BY <3>1, NodesArePaths DEF CallSet
  <2>3. IsPrefix(call.node, calls[k].node)
    BY <1>7 DEF IsStrictPrefix
  <2>4. IsPrefix(pending[m].node, pending[m].node)
    <3>1. Len(pending[m].node) \in Nat
      BY <2>2 DEF Paths
    <3> QED
      BY <2>2, <3>1, PrefixIs
  <2> QED
    BY <1>6, <2>1, <2>2, <2>3, <2>4, LeftBelow
<1>11. PendingApart'
  <2>1. ASSUME NEW k \in DOMAIN pending' PROVE DumpPath(pending'[k].node)
    BY <1>1, <1>7, <1>8 DEF PendingApart
  <2>2. ASSUME NEW j \in DOMAIN pending', NEW k \in DOMAIN pending', j < k
        PROVE  LeftOf(pending'[j].node, pending'[k].node)
    <3>1. CASE k \in DOMAIN calls
      <4>1. j \in DOMAIN calls
        <5>1. j \in 1..Len(pending') /\ Len(pending') \in Nat
          BY <1>8
        <5> QED
          BY <1>8, <2>2, <3>1, <5>1
      <4> QED
        BY <1>7, <1>8, <2>2, <3>1, <4>1
    <3>2. CASE k \notin DOMAIN calls /\ j \in DOMAIN calls
      BY <1>8, <1>9, <1>10, <3>2
    <3>3. CASE k \notin DOMAIN calls /\ j \notin DOMAIN calls
      <4>1. j - Len(calls) + 1 < k - Len(calls) + 1
        BY <1>8, <2>2
      <4> QED
        BY <1>1, <1>9, <3>3, <4>1 DEF PendingApart
    <3> QED
      BY <3>1, <3>2, <3>3
  <2> QED
    BY <2>1, <2>2, Zenon DEF PendingApart
<1>12. /\ NodeLine(call) \in LineSet /\ NodeLine(call).line = "node"
       /\ NodeLine(call).file = file /\ NodeLine(call).node = call.node
  <2>1. nodeKindToName(Tree[call.node]) \in NodeNames /\ Detail(Tree[call.node]) \in Details
    BY DEF nodeKindToName, Detail, NodeNames, Details
  <2>2. call.node \in Nodes /\ call.indent \in Nat
    BY <1>5 DEF CallSet
  <2> QED
    BY <1>4, <2>1, <2>2 DEF NodeLine, LineSet, NodeLineSet
<1>13. /\ out' \in Seq(LineSet) /\ Len(out') = N /\ N \in Nat /\ Len(out) = N - 1
       /\ \A n \in DOMAIN out : out'[n] = out[n]
       /\ DOMAIN out = 1 .. N - 1 /\ DOMAIN out' = 1..N
       /\ out'[N].line = "node" /\ out'[N].file = file /\ out'[N].node = call.node
  <2>1. out'[N] = NodeLine(call)
    BY <1>2, <1>3, <1>4, <1>12
  <2> HIDE DEF NodeLine
  <2> QED
    BY <1>2, <1>3, <1>4, <1>12, <2>1
<1>14. /\ \A n \in DOMAIN out' : out'[n].file \in 1..file'
       /\ \A m, n \in DOMAIN out' : m < n => out'[m].file <= out'[n].file
       /\ \A f \in 1..file' : \A a, b \in DOMAIN out :
            f < file' /\ Section(f, a, b) => Section(f, a, b)'
  <2>1. Len(out) <= Len(out') /\ file <= file'
    BY <1>3, <1>4, <1>13
  <2>2. \A n \in DOMAIN out' : n \notin DOMAIN out => out'[n].file = file'
    BY <1>3, <1>13
  <2> QED
    BY <1>1, <1>3, <1>4, <1>13, <2>1, <2>2, Extended
<1>15. SectionsSoFar'
  <2>1. \A f \in 1..file' : Written(f)' => \E a, b \in DOMAIN out' : Section(f, a, b)'
    <3> SUFFICES ASSUME NEW f \in 1..file', Written(f)'
                 PROVE  \E a, b \in DOMAIN out' : Section(f, a, b)'
      OBVIOUS
    <3>1. f \in 1..file /\ f < file' /\ Written(f)
      BY <1>3 DEF Written
    <3>2. PICK a, b \in DOMAIN out : Section(f, a, b)
      BY <1>1, <3>1 DEF SectionsSoFar
    <3>3. a \in DOMAIN out' /\ b \in DOMAIN out'
      BY <1>13
    <3> QED
      BY <1>14, <3>1, <3>2, <3>3
  <2> QED
    BY <1>14, <2>1, Zenon DEF SectionsSoFar
<1>16. PICK first \in 1 .. Len(out) - 1 : OpenSection(first)
  BY <1>1, <1>3 DEF OpenSoFar
<1>17. PICK body : body = first + 2 .. N - 1
  OBVIOUS
<1>18. /\ LinesOf(file) = first .. N - 1 /\ Heading(file, first) /\ InOrder(body)
       /\ \A m \in body : out[m].node \in Dumped(Tree)
       /\ \A q \in Dumped(Tree) :
            \/ \E m \in body : out[m].node = q
            \/ \E k \in DOMAIN pending : IsPrefix(pending[k].node, q)
       /\ \A m \in body : \A k \in DOMAIN pending : Earlier(out[m].node, pending[k].node)
  BY <1>13, <1>16, <1>17 DEF OpenSection
<1>19. /\ body \subseteq DOMAIN out /\ first + 2 .. N = body \cup {N} /\ N \notin body
       /\ first \in 1 .. N - 2 /\ \A m \in body : m < N
  BY <1>13, <1>17
<1>20. OpenSection(first)'
  <2>1. LinesOf(file)' = first..N
    <3>1. \A n \in DOMAIN out' : out'[n].file = file' <=> n \in LinesOf(file) \/ n = N
      BY <1>3, <1>13 DEF LinesOf
    <3>2. LinesOf(file)' = LinesOf(file) \cup {N}
      <4>1. \A n \in LinesOf(file) : n \in DOMAIN out'
        BY <1>13 DEF LinesOf
      <4>2. N \in DOMAIN out'
        BY <1>13, <1>19
      <4> QED
        BY <3>1, <4>1, <4>2 DEF LinesOf
    <3> QED
      BY <1>13, <1>18, <1>19, <3>2
  <2>2. Heading(file, first)'
    <3>1. first \in DOMAIN out /\ first + 1 \in DOMAIN out
      BY <1>13, <1>19
    <3> QED
      BY <1>3, <1>13, <1>18, <3>1 DEF Heading
  <2>3. InOrder(body \cup {N})'
    <3>1. body \cup {N} \subseteq NodeLines'
      BY <1>13, <1>18, <1>19 DEF InOrder, NodeLines
    <3>2. ASSUME NEW j \in body, NEW k \in body, j < k
          PROVE  Earlier(out'[j].node, out'[k].node)
      BY <1>13, <1>18, <1>19, <3>2 DEF InOrder
    <3>3. ASSUME NEW j \in body PROVE Earlier(out'[j].node, out'[N].node) /\ ~(N < j)
      BY <1>5, <1>13, <1>18, <1>19
    <3>4. ~(N < N)
      BY <1>13
    <3>5. \A j, k \in body \cup {N} : j < k => Earlier(out'[j].node, out'[k].node)
      BY <3>2, <3>3, <3>4
    <3> QED
      BY <3>1, <3>5 DEF InOrder
  <2>4. \A m \in body \cup {N} : out'[m].node \in Dumped(Tree)
    BY <1>6, <1>13, <1>18, <1>19
  <2>5. ASSUME NEW q \in Dumped(Tree)
        PROVE  \/ \E m \in body \cup {N} : out'[m].node = q
               \/ \E k \in DOMAIN pending' : IsPrefix(pending'[k].node, q)
    <3>1. CASE \E m \in body : out[m].node = q
      BY <1>13, <1>19, <3>1
    <3>2. CASE \E k \in DOMAIN pending : IsPrefix(pending[k].node, q)
      <4>1. PICK k \in DOMAIN pending : IsPrefix(pending[k].node, q)
        BY <3>2
      <4>2. CASE k # 1
        BY <1>8, <4>1, <4>2
      <4>3. CASE k = 1 /\ q = call.node
        BY <1>13, <4>3
      <4>4. CASE k = 1 /\ q # call.node
        BY <1>5, <1>7, <1>8, <4>1, <4>4
      <4> QED
        BY <4>2, <4>3, <4>4
    <3> QED
      BY <1>18, <3>1, <3>2
  <2>6. ASSUME NEW m \in body \cup {N}, NEW k \in DOMAIN pending'
        PROVE  Earlier(out'[m].node, pending'[k].node)
    <3>1. CASE m = N /\ k \in DOMAIN calls
      BY <1>7, <1>8, <1>13, <3>1 DEF Earlier
    <3>2. CASE m = N /\ k \notin DOMAIN calls
      <4>1. LeftOf(call.node, pending'[k].node)
        BY <1>1, <1>5, <1>9, <3>2 DEF PendingApart
      <4> QED
        BY <1>13, <3>2, <4>1 DEF Earlier
    <3>3. CASE m \in body /\ k \in DOMAIN calls
      <4>1. Earlier(out[m].node, call.node) /\ out'[m] = out[m]
        BY <1>5, <1>13, <1>18, <1>19, <3>3
      <4>2. out[m].node \in Paths
        BY <1>4, <1>18, <3>3, TreesArePaths DEF Dumped
      <4>3. calls[k].node \in Paths /\ IsPrefix(call.node, calls[k].node)
        <5>1. calls[k] \in CallSet
          BY <1>7, <3>3
        <5> QED
          BY <1>7, <3>3, <5>1, NodesArePaths DEF CallSet, IsStrictPrefix
      <4> QED
        BY <1>6, <1>8, <3>3, <4>1, <4>2, <4>3, EarlierBelow
    <3>4. CASE m \in body /\ k \notin DOMAIN calls
      BY <1>9, <1>13, <1>18, <1>19, <3>4
    <3> QED
      BY <3>1, <3>2, <3>3, <3>4
  <2>7. first + 2 .. Len(out') = body \cup {N} /\ Len(out') = N
    BY <1>13, <1>19
  <2> QED
    BY <1>3, <2>1, <2>2, <2>3, <2>4, <2>5, <2>6, <2>7 DEF OpenSection
<1>21. OpenSoFar'
  <2>1. first \in 1 .. Len(out') - 1
    BY <1>13, <1>19
  <2> QED
    BY <1>3, <1>4, <1>20, <2>1 DEF OpenSoFar
<1> QED
  BY <1>11, <1>15, <1>21

(* The end of all files.                                                   *)
LEMMA FinishOrder ==
  ASSUME OrderInv, Finish \/ UNCHANGED vars
  PROVE  SectionsSoFar' /\ OpenSoFar' /\ PendingApart'
<1>1. /\ SectionsSoFar /\ OpenSoFar /\ PendingApart
  BY DEF OrderInv
<1>2. /\ syn' = syn /\ file' = file /\ out' = out /\ pending' = pending /\ Tree' = Tree
      /\ mode' = "tree" <=> mode = "tree"
  BY DEF Finish, vars, Tree
<1>3. \A f, a, b : Section(f, a, b) => Section(f, a, b)'
  BY <1>2 DEF Section, LinesOf, Heading, BodyFrom, InOrder, NodeLines
<1>4. \A first : OpenSection(first) => OpenSection(first)'
  BY <1>2 DEF OpenSection, LinesOf, Heading, InOrder, NodeLines
<1>5. \A f : Written(f)' <=> Written(f)
  BY <1>2 DEF Written
<1> QED
  BY <1>1, <1>2, <1>3, <1>4, <1>5 DEF SectionsSoFar, OpenSoFar, PendingApart

-----------------------------------------------------------------------------
LEMMA InitOrder == Init => OrderInv
<1> SUFFICES ASSUME Init PROVE OrderInv
  OBVIOUS
<1>1. 1..0 = {}
  OBVIOUS
<1> QED
  BY <1>1, InitIndInv DEF Init, OrderInv, SectionsSoFar, OpenSoFar, PendingApart

LEMMA NextOrder == OrderInv /\ [Next]_vars => OrderInv'
<1> SUFFICES ASSUME OrderInv, [Next]_vars PROVE OrderInv'
  OBVIOUS
<1>1. IndInv'
  BY NextIndInv DEF OrderInv
<1>2. SectionsSoFar' /\ OpenSoFar' /\ PendingApart'
  BY NoTreeOrder, TreeOrder, NullOrder, NodeOrder, EndOrder, FinishOrder DEF Next, Write, Done
<1> QED
  BY <1>1, <1>2 DEF OrderInv

(* What is written and what is still to be written make up the sections.   *)
THEOREM OrderInvariance == Spec => []OrderInv
BY InitOrder, NextOrder, PTL DEF Spec

(* outSyntax.txt consists of one section for each source file, in their    *)
(* order, with each node that is dumped once and after those it is below   *)
(* or to the right of.                                                     *)
THEOREM SectionsCorrect == Spec => []SectionsExact
<1>1. OrderInv => SectionsExact
  BY Zenon DEF OrderInv, SectionsSoFar, SectionsExact
<1> QED
  BY <1>1, OrderInvariance, PTL
=============================================================================
