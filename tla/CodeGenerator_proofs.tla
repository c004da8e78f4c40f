-------------------------- MODULE CodeGenerator_proofs --------------------------
(***************************************************************************)
(* Proofs about CodeGenerator: GenTypeOK, StatementCursor and              *)
(* OperandsStack hold for every set of variables, every language and every *)
(* bound, whatever source is compiled.                                     *)
(*                                                                         *)
(* The generator relies on the shape of the AST (GrammarInv, which the     *)
(* productions establish and CheckTypeVisitor keeps), and a statement      *)
(* relies on the visits of its expression to give the cursor back          *)
(* (Orderly, which says who will).                                         *)
(***************************************************************************)
EXTENDS CodeGenerator, FrontEndChecks_proofs

-------------------------------------------------------------------------------
(***************************************************************************)
(* The shape of the AST.                                                   *)
(***************************************************************************)
IsExpr(as, e) == e \in Vars \/ (e \in DOMAIN as /\ as[e].kind \in ExprKinds)

\* The statements that compute an expression first, then look at a second child.
Governing == Conditionals \cup {"FOREACH"}

\* An operation, a call or an assignment has expressions for operands, and a
\* node has the children its visit() reads.
Grammatical(as, node) ==
  /\ node.kind \in ExprKinds \cup {"AFF"} => \A i \in DOMAIN node.kids : IsExpr(as, node.kids[i])
  /\ node.kind \in {"BINARY", "AFF"} => Len(node.kids) = 2
  /\ node.kind \in {"UNARY", "LOOP"} => Len(node.kids) = 1
  /\ node.kind \in Governing =>
       /\ Len(node.kids) >= 2 /\ IsExpr(as, node.kids[1])
       /\ node.op = "ELSE" => Len(node.kids) >= 3

GrammarInv ==
  /\ \A i \in DOMAIN stack : stack[i].sort = "expr" => IsExpr(ast, Value(i))
  /\ \A n \in DOMAIN ast : Grammatical(ast, ast[n])

\* What is an expression stays one when objects are added.
LEMMA ExprStays ==
  ASSUME NEW e, TypeInv, AstGrows, IsExpr(ast, e)
  PROVE  IsExpr(ast', e)
<1>1. /\ DOMAIN ast = 1..Len(ast) /\ DOMAIN ast' = 1..Len(ast')
      /\ Len(ast) \in Nat /\ Len(ast') \in Nat /\ Len(ast) <= Len(ast')
      /\ \A n \in 1..Len(ast) : ast'[n] = ast[n]
  BY TypeOKDef DEF TypeInv, AstGrows
<1> QED
  BY <1>1 DEF IsExpr

\* What is grammatical stays so.
LEMMA GrammaticalStays ==
  ASSUME NEW node, NEW as, NEW bs, Grammatical(as, node),
         \A e : IsExpr(as, e) => IsExpr(bs, e)
  PROVE  Grammatical(bs, node)
BY DEF Grammatical

\* A reduction that creates grammatical objects.
LEMMA GrammarStep ==
  ASSUME TypeInv, GrammarInv, NEW k \in 0..Len(stack), NEW item, NEW S, NEW nodes \in Seq(S),
         Create(nodes), Reduce(k, item),
         \A x \in S : Grammatical(ast', x),
         item.sort = "expr" => IsExpr(ast', item.nodes[1])
  PROVE  GrammarInv'
<1>1. /\ AstGrows /\ Len(nodes) \in Nat /\ Len(ast') = Len(ast) + Len(nodes)
      /\ \A n \in (Len(ast) + 1)..Len(ast') :
           n - Len(ast) \in 1..Len(nodes) /\ ast'[n] = nodes[n - Len(ast)]
  BY Creation
<1>2. StackPops(k) /\ stack'[1] = item
  BY Popping
<1>3. \A e : IsExpr(ast, e) => IsExpr(ast', e)
  BY <1>1, ExprStays
<1>4. ASSUME NEW n \in DOMAIN ast' PROVE Grammatical(ast', ast'[n])
  <2>1. Len(ast) \in Nat /\ DOMAIN ast = 1..Len(ast) /\ DOMAIN ast' = 1..Len(ast')
    BY <1>1, TypeOKDef DEF TypeInv, AstGrows
  <2>2. CASE n \in 1..Len(ast)
    <3>1. ast'[n] = ast[n] /\ Grammatical(ast, ast[n])
      BY <1>1, <2>1, <2>2 DEF AstGrows, GrammarInv
    <3> QED
      BY <1>3, <3>1, GrammaticalStays
  <2>3. CASE n \notin 1..Len(ast)
    <3>1. n \in (Len(ast) + 1)..Len(ast')
      BY <1>1, <2>1, <2>3
    <3>2. ast'[n] \in S
      BY <1>1, <3>1, ElementOfSeq
    <3> QED
      BY <3>2
  <2> QED
    BY <2>2, <2>3
<1>5. ASSUME NEW i \in DOMAIN stack', stack'[i].sort = "expr"
      PROVE  IsExpr(ast', stack'[i].nodes[1])
  <2>1. CASE i = 1
    BY <1>2, <1>5, <2>1
  <2>2. CASE i # 1
    <3>1. i \in 2..Len(stack') /\ Len(stack) \in Nat /\ DOMAIN stack = 1..Len(stack)
      BY <1>2, <2>2, TypeOKDef DEF TypeInv, StackPops
    <3>2. k + i - 1 \in DOMAIN stack /\ stack'[i] = stack[k + i - 1]
      BY <1>2, <3>1 DEF StackPops
    <3>3. IsExpr(ast, stack[k + i - 1].nodes[1])
      BY <1>5, <3>2 DEF GrammarInv, Value
    <3> QED
      BY <1>3, <3>2, <3>3
  <2> QED
    BY <2>1, <2>2
<1> QED
  BY <1>4, <1>5 DEF GrammarInv, Value

\* A value held as an expression is one, before and after a reduction.
LEMMA HeldExpr ==
  ASSUME TypeInv, GrammarInv, NEW k \in Nat \ {0}, Holds(k, "expr"), AstGrows
  PROVE  IsExpr(ast', Value(k))
<1>1. k \in DOMAIN stack /\ stack[k].sort = "expr"
  BY TypeOKDef DEF TypeInv, Holds
<1> QED
  BY <1>1, ExprStays DEF GrammarInv

\* The objects a production creates, when there is one, two, three or four.
LEMMA Created ==
  ASSUME TypeInv, NEW nodes, NEW S, nodes \in Seq(S), Create(nodes)
  PROVE  /\ AstGrows
         /\ \A i \in 1..Len(nodes) :
              nodes[i].kind \in ExprKinds => IsExpr(ast', Len(ast) + i)
<1>1. /\ AstGrows /\ Len(nodes) \in Nat /\ Len(ast') = Len(ast) + Len(nodes)
      /\ \A n \in (Len(ast) + 1)..Len(ast') :
           n - Len(ast) \in 1..Len(nodes) /\ ast'[n] = nodes[n - Len(ast)]
  BY Creation
<1>2. Len(ast) \in Nat /\ DOMAIN ast' = 1..Len(ast')
  BY <1>1, TypeOKDef DEF TypeInv, AstGrows
<1>3. ASSUME NEW i \in 1..Len(nodes), nodes[i].kind \in ExprKinds
      PROVE  IsExpr(ast', Len(ast) + i)
  <2>1. Len(ast) + i \in (Len(ast) + 1)..Len(ast') /\ (Len(ast) + i) - Len(ast) = i
    BY <1>1, <1>2
  <2>2. ast'[Len(ast) + i] = nodes[i] /\ Len(ast) + i \in DOMAIN ast'
    BY <1>1, <1>2, <2>1
  <2> QED
    BY <1>3, <2>2 DEF IsExpr
<1> QED
  BY <1>1, <1>3

\* Productions that create one object.
LEMMA OneExprGrammar ==
  ASSUME TypeInv, GrammarInv, NEW k \in 0..Len(stack), NEW node, ToExpr(k, <<node>>, Top),
         node.kind \in ExprKinds, AstGrows => Grammatical(ast', node)
  PROVE  GrammarInv'
<1> DEFINE S == {node}
           nodes == <<node>>
           item == Item("expr", <<Top>>)
<1>1. nodes \in Seq(S) /\ Len(nodes) = 1 /\ nodes[1] = node /\ \A x \in S : x = node
  OBVIOUS
<1>2. Create(nodes) /\ Reduce(k, item)
  BY DEF ToExpr
<1>3. item.nodes[1] = Top /\ Top = Len(ast) + 1
  BY DEF Item, Top
<1> HIDE DEF S, nodes, item
<1>4. AstGrows /\ IsExpr(ast', Len(ast) + 1)
  BY <1>1, <1>2, Created
<1> QED
  BY <1>1, <1>2, <1>3, <1>4, GrammarStep

LEMMA OneStmGrammar ==
  ASSUME TypeInv, GrammarInv, NEW k \in 0..Len(stack), NEW node, ToStm(k, <<node>>),
         AstGrows => Grammatical(ast', node)
  PROVE  GrammarInv'
<1> DEFINE S == {node}
           nodes == <<node>>
           item == Item("stm", <<Len(ast) + Len(nodes)>>)
<1>1. nodes \in Seq(S) /\ \A x \in S : x = node
  OBVIOUS
<1>2. Create(nodes) /\ Reduce(k, item) /\ item.sort # "expr"
  BY DEF ToStm, Item
<1> HIDE DEF S, nodes, item
<1>3. AstGrows
  BY <1>1, <1>2, Created
<1> QED
  BY <1>1, <1>2, <1>3, GrammarStep

\* The elements of a list of expressions are expressions.
LEMMA ListedExprs ==
  ASSUME TypeInv, GrammarInv, NEW n \in Nat, HoldsList(n), AstGrows
  PROVE  \A i \in DOMAIN Listed(n) : IsExpr(ast', Listed(n)[i])
<1>1. ASSUME NEW i \in 1..n PROVE IsExpr(ast', Value(n + 1 - i))
  <2>1. n + 1 - i \in Nat \ {0} /\ n + 1 - i \in 1..n
    OBVIOUS
  <2>2. Holds(n + 1 - i, "expr")
    BY <2>1 DEF HoldsList
  <2> QED
    BY <2>1, <2>2, HeldExpr
<1> QED
  BY <1>1 DEF Listed

\* The productions of left_part, expression and ATmega328p_expression.
LEMMA ParseExprGrammar ==
  ASSUME TypeInv, GrammarInv, ParseExpr, phase' # "aborted"
  PROVE  GrammarInv'
<1>0. Len(ast) \in Nat /\ Len(stack) \in Nat
  BY TypeOKDef DEF TypeInv
<1>a. 0 \in 0..Len(stack)
  BY <1>0
<1>b. ASSUME NEW k \in Nat \ {0}, NEW sort, Holds(k, sort) PROVE k \in 0..Len(stack)
  BY <1>0, <1>b DEF Holds
<1>1. ASSUME NEW l, ConstantExpression(l) PROVE GrammarInv'
  <2> DEFINE node == Node("CONSTANT", l, Len(cells) + 1, <<>>)
  <2>1. ToExpr(0, <<node>>, Top)
    BY <1>1 DEF ConstantExpression
  <2>2. node.kind \in ExprKinds /\ Grammatical(ast', node)
    BY DEF Node, ExprKinds, Grammatical, Governing, Conditionals
  <2> HIDE DEF node
  <2> QED
    BY <1>a, <2>1, <2>2, OneExprGrammar
<1>2. ASSUME NEW v \in Vars, LeftPart(v) PROVE GrammarInv'
  <2> DEFINE S == {}
             item == Item("expr", <<v>>)
  <2>1. <<>> \in Seq(S) /\ \A x \in S : Grammatical(ast', x)
    OBVIOUS
  <2>2. Create(<<>>) /\ Reduce(0, item)
    BY <1>2 DEF LeftPart, ToExpr
  <2>3. IsExpr(ast', item.nodes[1])
    BY DEF Item, IsExpr
  <2> HIDE DEF S, item
  <2> QED
    BY <1>a, <2>1, <2>2, <2>3, GrammarStep
<1>3. ASSUME NEW v \in Vars PROVE ~UnknownVariable(v)
  BY DEF UnknownVariable, Abort
<1>4. ASSUME NEW v \in Vars, IndexedLeftPart(v) PROVE GrammarInv'
  <2> DEFINE node == Node("GET", "GET", NullType, <<Value(1), v>>)
  <2>1. Holds(1, "expr") /\ ToExpr(1, <<node>>, Top)
    BY <1>4 DEF IndexedLeftPart
  <2>2. ASSUME AstGrows PROVE Grammatical(ast', node)
    <3>1. IsExpr(ast', Value(1)) /\ IsExpr(ast', v)
      BY <2>1, <2>2, HeldExpr DEF IsExpr
    <3> QED
      BY <3>1 DEF Node, Grammatical, Governing, Conditionals
  <2>3. node.kind \in ExprKinds
    BY DEF Node, ExprKinds
  <2> HIDE DEF node
  <2> QED
    BY <1>b, <2>1, <2>2, <2>3, OneExprGrammar
<1>5. ASSUME NEW op, NEW type, Holds(1, "expr"), Holds(2, "expr"),
             ToExpr(2, <<Node("BINARY", op, type, <<Value(2), Value(1)>>)>>, Top)
      PROVE  GrammarInv'
  <2> DEFINE node == Node("BINARY", op, type, <<Value(2), Value(1)>>)
  <2>1. ASSUME AstGrows PROVE Grammatical(ast', node)
    <3>1. IsExpr(ast', Value(1)) /\ IsExpr(ast', Value(2))
      BY <1>5, <2>1, HeldExpr
    <3> QED
      BY <3>1 DEF Node, Grammatical, Governing, Conditionals
  <2>2. node.kind \in ExprKinds
    BY DEF Node, ExprKinds
  <2>3. ToExpr(2, <<node>>, Top)
    BY <1>5
  <2> HIDE DEF node
  <2> QED
    BY <1>5, <1>b, <2>1, <2>2, <2>3, OneExprGrammar
<1>6. ASSUME NEW op, AliasBinary(op) \/ Comparison(op) PROVE GrammarInv'
  BY <1>5, <1>6 DEF AliasBinary, Comparison
<1>7. ASSUME NEW op, Unary(op) PROVE GrammarInv'
  <2> DEFINE node == Node("UNARY", op, TypeOf(Value(1)), <<Value(1)>>)
  <2>1. Holds(1, "expr") /\ ToExpr(1, <<node>>, Top)
    BY <1>7 DEF Unary
  <2>2. ASSUME AstGrows PROVE Grammatical(ast', node)
    <3>1. IsExpr(ast', Value(1))
      BY <2>1, <2>2, HeldExpr
    <3> QED
      BY <3>1 DEF Node, Grammatical, Governing, Conditionals
  <2>3. node.kind \in ExprKinds
    BY DEF Node, ExprKinds
  <2> HIDE DEF node
  <2> QED
    BY <1>b, <2>1, <2>2, <2>3, OneExprGrammar
<1>8. ASSUME NEW kind \in {"CALL", "EXPRLIST", "EXPRSET", "EXPRRANGE"}, NEW op, NEW type,
             NEW n \in Nat, n \in 0..Len(stack), HoldsList(n),
             ToExpr(n, <<Node(kind, op, type, Listed(n))>>, Top)
      PROVE  GrammarInv'
  <2> DEFINE node == Node(kind, op, type, Listed(n))
  <2>1. ASSUME AstGrows PROVE Grammatical(ast', node)
    BY <1>8, <2>1, ListedExprs DEF Node, Grammatical, Governing, Conditionals
  <2>2. node.kind \in ExprKinds
    BY DEF Node, ExprKinds
  <2>3. ToExpr(n, <<node>>, Top)
    BY <1>8
  <2> HIDE DEF node
  <2> QED
    BY <1>8, <2>1, <2>2, <2>3, OneExprGrammar
<1>9. ASSUME NEW n \in 1..MaxArgs, UserCall(n) PROVE GrammarInv'
  <2>1. n \in Nat /\ n \in 0..Len(stack) /\ HoldsList(n)
    BY <1>9, ListedValues, BoundAssumption DEF UserCall
  <2> QED
    BY <1>8, <1>9, <2>1 DEF UserCall
<1>10. ASSUME NEW kind \in {"EXPRLIST", "EXPRSET", "EXPRRANGE"}, NEW n \in Nat,
              n \in 0..Len(stack), Aggregate(kind, n)
       PROVE  GrammarInv'
  BY <1>8, <1>10 DEF Aggregate
<1>11. ASSUME NEW kind \in {"EXPRLIST", "EXPRSET"}, NEW n \in 1..MaxArgs, Aggregate(kind, n)
       PROVE  GrammarInv'
  <2>1. n \in Nat /\ n \in 0..Len(stack)
    BY <1>11, ListedValues, BoundAssumption DEF Aggregate
  <2> QED
    BY <1>10, <1>11, <2>1
<1>12. ASSUME Aggregate("EXPRRANGE", 2) PROVE GrammarInv'
  <2>1. Holds(2, "expr")
    BY <1>12 DEF Aggregate, HoldsList
  <2> QED
    BY <1>b, <1>10, <1>12, <2>1
<1>13. ASSUME NEW f, Read(f) PROVE GrammarInv'
  <2> DEFINE node == Node("CALL", f, functionCell[f], <<>>)
  <2>1. ToExpr(0, <<node>>, Top)
    BY <1>13 DEF Read
  <2>2. node.kind \in ExprKinds /\ Grammatical(ast', node)
    BY DEF Node, ExprKinds, Grammatical, Governing, Conditionals
  <2> HIDE DEF node
  <2> QED
    BY <1>a, <2>1, <2>2, OneExprGrammar
<1>14. ASSUME DigitalRead PROVE GrammarInv'
  <2> DEFINE n1 == Node("CONSTANT", "EXPR", Len(cells) + 1, <<Value(1)>>)
             n2 == Node("UNARY", "ARG", Len(cells) + 1, <<Top>>)
             n3 == Node("CALL", "digitalRead", functionCell.digitalRead, <<Top + 1>>)
             S == {n1, n2, n3}
             nodes == <<n1, n2, n3>>
             item == Item("expr", <<Top + 2>>)
  <2>1. Holds(1, "expr") /\ Create(nodes) /\ Reduce(1, item)
    BY <1>14 DEF DigitalRead, ToExpr
  <2>2. nodes \in Seq(S) /\ Len(nodes) = 3 /\ nodes[1] = n1 /\ nodes[2] = n2 /\ nodes[3] = n3
    OBVIOUS
  <2>3. n1.kind \in ExprKinds /\ n2.kind \in ExprKinds /\ n3.kind \in ExprKinds
    BY DEF Node, ExprKinds
  <2>4. AstGrows /\ \A i \in 1..3 : nodes[i].kind \in ExprKinds => IsExpr(ast', Len(ast) + i)
    <3> HIDE DEF nodes, S
    <3> QED
      BY <2>1, <2>2, Created
  <2>5. IsExpr(ast', Top) /\ IsExpr(ast', Top + 1) /\ IsExpr(ast', Top + 2)
    <3> HIDE DEF n1, n2, n3, nodes, S
    <3> QED
      BY <1>0, <2>2, <2>3, <2>4 DEF Top
  <2>6. IsExpr(ast', Value(1))
    BY <2>1, <2>4, HeldExpr
  <2>7. Grammatical(ast', n1) /\ Grammatical(ast', n2) /\ Grammatical(ast', n3)
    BY <2>5, <2>6 DEF Node, Grammatical, Governing, Conditionals
  <2>8. item.nodes[1] = Top + 2 /\ \A x \in S : Grammatical(ast', x)
    BY <2>7 DEF Item
  <2> HIDE DEF n1, n2, n3, nodes, S, item
  <2> QED
    BY <1>b, <2>1, <2>2, <2>5, <2>8, GrammarStep
<1>15. ASSUME AnalogRead PROVE GrammarInv'
  <2> DEFINE n1 == Node("UNARY", "ARG", TypeOf(Value(1)), <<Value(1)>>)
             n2 == Node("CALL", "analogRead", functionCell.analogRead, <<Top>>)
             S == {n1, n2}
             nodes == <<n1, n2>>
             item == Item("expr", <<Top + 1>>)
  <2>1. Holds(1, "expr") /\ Create(nodes) /\ Reduce(1, item)
    BY <1>15 DEF AnalogRead, ToExpr
  <2>2. nodes \in Seq(S) /\ Len(nodes) = 2 /\ nodes[1] = n1 /\ nodes[2] = n2
    OBVIOUS
  <2>3. n1.kind \in ExprKinds /\ n2.kind \in ExprKinds
    BY DEF Node, ExprKinds
  <2>4. AstGrows /\ \A i \in 1..2 : nodes[i].kind \in ExprKinds => IsExpr(ast', Len(ast) + i)
    <3> HIDE DEF nodes, S
    <3> QED
      BY <2>1, <2>2, Created
  <2>5. IsExpr(ast', Top) /\ IsExpr(ast', Top + 1)
    <3> HIDE DEF n1, n2, nodes, S
    <3> QED
      BY <1>0, <2>2, <2>3, <2>4 DEF Top
  <2>6. IsExpr(ast', Value(1))
    BY <2>1, <2>4, HeldExpr
  <2>7. Grammatical(ast', n1) /\ Grammatical(ast', n2)
    BY <2>5, <2>6 DEF Node, Grammatical, Governing, Conditionals
  <2>8. item.nodes[1] = Top + 1 /\ \A x \in S : Grammatical(ast', x)
    BY <2>7 DEF Item
  <2> HIDE DEF n1, n2, nodes, S, item
  <2> QED
    BY <1>b, <2>1, <2>2, <2>5, <2>8, GrammarStep
<1> QED
  BY <1>1, <1>2, <1>3, <1>4, <1>6, <1>7, <1>9, <1>11, <1>12, <1>13, <1>14, <1>15
     DEF ParseExpr

\* A production of a statement that creates several objects.
LEMMA StmsGrammar ==
  ASSUME TypeInv, GrammarInv, NEW k \in 0..Len(stack), NEW S, NEW nodes \in Seq(S),
         ToStm(k, nodes),
         AstGrows /\ (\A i \in 1..Len(nodes) :
                        nodes[i].kind \in ExprKinds => IsExpr(ast', Len(ast) + i))
           => \A x \in S : Grammatical(ast', x)
  PROVE  GrammarInv'
<1> DEFINE item == Item("stm", <<Len(ast) + Len(nodes)>>)
<1>1. Create(nodes) /\ Reduce(k, item) /\ item.sort # "expr"
  BY DEF ToStm, Item
<1> HIDE DEF item
<1>2. \A x \in S : Grammatical(ast', x)
  BY <1>1, Created
<1> QED
  BY <1>1, <1>2, GrammarStep

\* The productions of stm and case.
LEMMA ParseStmGrammar ==
  ASSUME TypeInv, GrammarInv, ParseStm, ~FirstOfList, ~NextOfList, phase' # "aborted"
  PROVE  GrammarInv'
<1>0. Len(ast) \in Nat /\ Len(stack) \in Nat
  BY TypeOKDef DEF TypeInv
<1>a. ASSUME NEW k \in Nat \ {0}, NEW sort, Holds(k, sort) PROVE k \in 0..Len(stack)
  BY <1>0, <1>a DEF Holds
<1>b. ASSUME NEW type, NEW e PROVE Grammatical(ast', Node("EXPR", "EXPR", type, <<e>>))
  BY DEF Node, Grammatical, ExprKinds, Governing, Conditionals
<1>c. ASSUME NEW op, NEW type, NEW e, IsExpr(ast', e)
      PROVE  Grammatical(ast', Node("UNARY", op, type, <<e>>))
  BY <1>c DEF Node, Grammatical, Governing, Conditionals
<1>1. ASSUME NEW op, Increment(op) PROVE GrammarInv'
  <2> DEFINE n1 == Node("UNARY", op, TypeOf(Value(1)), <<Value(1)>>)
             n2 == Node("EXPR", "EXPR", NullType, <<Top>>)
             S == {n1, n2}
             nodes == <<n1, n2>>
  <2>1. Holds(1, "expr") /\ ToStm(1, nodes) /\ nodes \in Seq(S)
    BY <1>1 DEF Increment
  <2>2. ASSUME AstGrows PROVE \A x \in S : Grammatical(ast', x)
    <3>1. IsExpr(ast', Value(1))
      BY <2>1, <2>2, HeldExpr
    <3>2. Grammatical(ast', n1) /\ Grammatical(ast', n2)
      BY <1>b, <1>c, <3>1
    <3> QED
      BY <3>2
  <2> HIDE DEF S, nodes
  <2> QED
    BY <1>a, <2>1, <2>2, StmsGrammar
<1>2. ASSUME NEW p, OneArgProcedure(p) PROVE GrammarInv'
  <2> DEFINE n1 == Node("UNARY", "ARG", TypeOf(Value(1)), <<Value(1)>>)
             n2 == Node("CALL", p, ProcedureCell, <<Top>>)
             n3 == Node("EXPR", "EXPR", NullType, <<Top + 1>>)
             S == {n1, n2, n3}
             nodes == <<n1, n2, n3>>
  <2>1. Holds(1, "expr") /\ ToStm(1, nodes) /\ nodes \in Seq(S)
    BY <1>2 DEF OneArgProcedure
  <2>2. Len(nodes) = 3 /\ nodes[1] = n1 /\ n1.kind \in ExprKinds
    BY DEF Node, ExprKinds
  <2>3. ASSUME AstGrows, \A i \in 1..Len(nodes) :
                 nodes[i].kind \in ExprKinds => IsExpr(ast', Len(ast) + i)
        PROVE  \A x \in S : Grammatical(ast', x)
    <3>1. IsExpr(ast', Value(1))
      BY <2>1, <2>3, HeldExpr
    <3>2. IsExpr(ast', Top)
      <4> HIDE DEF n1, n2, n3, nodes
      <4> QED
        BY <2>2, <2>3 DEF Top
    <3>3. Grammatical(ast', n2)
      BY <3>2 DEF Node, Grammatical, Governing, Conditionals
    <3>4. Grammatical(ast', n1) /\ Grammatical(ast', n3)
      BY <1>b, <1>c, <3>1
    <3> QED
      BY <3>3, <3>4
  <2> HIDE DEF S, nodes
  <2> QED
    BY <1>a, <2>1, <2>3, StmsGrammar
<1>3. ASSUME NEW p, TwoArgProcedure(p) PROVE GrammarInv'
  <2> DEFINE n1 == Node("UNARY", "ARG", TypeOf(Value(2)), <<Value(2)>>)
             n2 == Node("UNARY", "ARG", TypeOf(Value(1)), <<Value(1)>>)
             n3 == Node("CALL", p, ProcedureCell, <<Top, Top + 1>>)
             n4 == Node("EXPR", "EXPR", NullType, <<Top + 2>>)
             S == {n1, n2, n3, n4}
             nodes == <<n1, n2, n3, n4>>
  <2>1. Holds(1, "expr") /\ Holds(2, "expr") /\ ToStm(2, nodes) /\ nodes \in Seq(S)
    BY <1>3 DEF TwoArgProcedure
  <2>2. /\ Len(nodes) = 4 /\ nodes[1] = n1 /\ nodes[2] = n2
        /\ n1.kind \in ExprKinds /\ n2.kind \in ExprKinds
    BY DEF Node, ExprKinds
  <2>3. ASSUME AstGrows, \A i \in 1..Len(nodes) :
                 nodes[i].kind \in ExprKinds => IsExpr(ast', Len(ast) + i)
        PROVE  \A x \in S : Grammatical(ast', x)
    <3>1. IsExpr(ast', Value(1)) /\ IsExpr(ast', Value(2))
      BY <2>1, <2>3, HeldExpr
    <3>2. IsExpr(ast', Top) /\ IsExpr(ast', Top + 1)
      <4> HIDE DEF n1, n2, n3, n4, nodes
      <4> QED
        BY <1>0, <2>2, <2>3 DEF Top
    <3>3. Grammatical(ast', n3)
      BY <3>2 DEF Node, Grammatical, Governing, Conditionals
    <3>4. Grammatical(ast', n1) /\ Grammatical(ast', n2) /\ Grammatical(ast', n4)
      BY <1>b, <1>c, <3>1
    <3> QED
      BY <3>3, <3>4
  <2> HIDE DEF S, nodes
  <2> QED
    BY <1>a, <2>1, <2>3, StmsGrammar
<1>4. ASSUME NEW p PROVE ~CastOfNull(p) /\ ~UnregisteredProcedure
  BY DEF CastOfNull, UnregisteredProcedure, Abort
<1>5. ASSUME NEW n \in 1..MaxArgs, UserCallStm(n) PROVE GrammarInv'
  <2> DEFINE n1 == Node("CALL", "user", NullType, Listed(n))
             n2 == Node("EXPR", "EXPR", NullType, <<Top>>)
             S == {n1, n2}
             nodes == <<n1, n2>>
  <2>1. HoldsList(n) /\ ToStm(n, nodes) /\ nodes \in Seq(S)
    BY <1>5 DEF UserCallStm
  <2>2. n \in Nat /\ n \in 0..Len(stack)
    BY <2>1, ListedValues, BoundAssumption
  <2>3. ASSUME AstGrows PROVE \A x \in S : Grammatical(ast', x)
    <3>1. Grammatical(ast', n1)
      BY <2>1, <2>2, <2>3, ListedExprs DEF Node, Grammatical, Governing, Conditionals
    <3>2. Grammatical(ast', n2)
      BY <1>b
    <3> QED
      BY <3>1, <3>2
  <2> HIDE DEF S, nodes
  <2> QED
    BY <2>1, <2>2, <2>3, StmsGrammar
<1>6. ASSUME NEW n \in 1..MaxArgs, Switch(n) PROVE GrammarInv'
  <2> DEFINE node == Node("SWITCH", "SWITCH", NullType, <<Value(n + 1)>> \o Listed(n))
  <2>1. Holds(n + 1, "expr") /\ ToStm(n + 1, <<node>>)
    BY <1>6 DEF Switch
  <2>2. Grammatical(ast', node)
    BY DEF Node, Grammatical, ExprKinds, Governing, Conditionals
  <2>3. n + 1 \in Nat \ {0}
    BY BoundAssumption
  <2> HIDE DEF node
  <2> QED
    BY <1>a, <2>1, <2>2, <2>3, OneStmGrammar
<1>7. ASSUME CaseStm PROVE GrammarInv'
  <2> DEFINE node == Node("CASE", "CASE", NullType, <<Value(2), Value(1)>>)
             S == {node}
             nodes == <<node>>
             item == Item("case", <<Top>>)
  <2>1. Holds(2, "expr") /\ Create(nodes) /\ Reduce(2, item) /\ nodes \in Seq(S)
    BY <1>7 DEF CaseStm
  <2>2. item.sort # "expr" /\ \A x \in S : Grammatical(ast', x)
    BY DEF Item, Node, Grammatical, ExprKinds, Governing, Conditionals
  <2> HIDE DEF node, S, nodes, item
  <2> QED
    BY <1>a, <2>1, <2>2, GrammarStep
<1>8. ASSUME NEW kind \in {"IF", "WHILE", "FOREACH"}, Governed(kind) PROVE GrammarInv'
  <2> DEFINE node == Node(kind, kind, NullType, <<Value(2), Value(1)>>)
  <2>1. Holds(2, "expr") /\ ToStm(2, <<node>>)
    BY <1>8 DEF Governed
  <2>2. ASSUME AstGrows PROVE Grammatical(ast', node)
    <3>1. IsExpr(ast', Value(2))
      BY <2>1, <2>2, HeldExpr
    <3> QED
      BY <3>1 DEF Node, Grammatical, ExprKinds
  <2> HIDE DEF node
  <2> QED
    BY <1>a, <2>1, <2>2, OneStmGrammar
<1>9. ASSUME IfElse PROVE GrammarInv'
  <2> DEFINE node == Node("IF", "ELSE", NullType, <<Value(3), Value(2), Value(1)>>)
  <2>1. Holds(3, "expr") /\ ToStm(3, <<node>>)
    BY <1>9 DEF IfElse
  <2>2. ASSUME AstGrows PROVE Grammatical(ast', node)
    <3>1. IsExpr(ast', Value(3))
      BY <2>1, <2>2, HeldExpr
    <3> QED
      BY <3>1 DEF Node, Grammatical, ExprKinds
  <2> HIDE DEF node
  <2> QED
    BY <1>a, <2>1, <2>2, OneStmGrammar
<1>10. ASSUME DoWhile PROVE GrammarInv'
  <2> DEFINE node == Node("DO", "DO", NullType, <<Value(1), Value(2)>>)
  <2>1. Holds(1, "expr") /\ Holds(2, "stm") /\ ToStm(2, <<node>>)
    BY <1>10 DEF DoWhile
  <2>2. ASSUME AstGrows PROVE Grammatical(ast', node)
    <3>1. IsExpr(ast', Value(1))
      BY <2>1, <2>2, HeldExpr
    <3> QED
      BY <3>1 DEF Node, Grammatical, ExprKinds
  <2> HIDE DEF node
  <2> QED
    BY <1>a, <2>1, <2>2, OneStmGrammar
<1>11. ASSUME Loop \/ Return PROVE GrammarInv'
  <2>1. PICK sort, node : /\ Holds(1, sort) /\ ToStm(1, <<node>>)
                          /\ node \in {Node("LOOP", "LOOP", NullType, <<Value(1)>>),
                                       Node("RETURN", "RETURN", NullType, <<Value(1)>>)}
    BY <1>11 DEF Loop, Return
  <2>2. Grammatical(ast', node)
    BY <2>1 DEF Node, Grammatical, ExprKinds, Governing, Conditionals
  <2> QED
    BY <1>a, <2>1, <2>2, OneStmGrammar
<1>12. ASSUME Block PROVE GrammarInv'
  <2> DEFINE node == Node("SEQ", "SEQ", NullType, stack[1].nodes)
  <2>1. Holds(1, "list") /\ ToStm(1, <<node>>)
    BY <1>12 DEF Block
  <2>2. Grammatical(ast', node)
    BY DEF Node, Grammatical, ExprKinds, Governing, Conditionals
  <2> HIDE DEF node
  <2> QED
    BY <1>a, <2>1, <2>2, OneStmGrammar
<1>13. ASSUME Break PROVE GrammarInv'
  <2> DEFINE node == Node("BREAK", "BREAK", NullType, <<>>)
  <2>1. ToStm(0, <<node>>) /\ 0 \in 0..Len(stack)
    BY <1>0, <1>13 DEF Break
  <2>2. Grammatical(ast', node)
    BY DEF Node, Grammatical, ExprKinds, Governing, Conditionals
  <2> HIDE DEF node
  <2> QED
    BY <2>1, <2>2, OneStmGrammar
<1>14. ASSUME NEW op, Assignment(op) PROVE GrammarInv'
  <2> DEFINE node == Node("AFF", op, NullType, <<Value(2), Value(1)>>)
  <2>1. Holds(1, "expr") /\ Holds(2, "expr") /\ ToStm(2, <<node>>)
    BY <1>14 DEF Assignment
  <2>2. ASSUME AstGrows PROVE Grammatical(ast', node)
    <3>1. IsExpr(ast', Value(1)) /\ IsExpr(ast', Value(2))
      BY <2>1, <2>2, HeldExpr
    <3> QED
      BY <3>1 DEF Node, Grammatical, ExprKinds, Governing, Conditionals
  <2> HIDE DEF node
  <2> QED
    BY <1>a, <2>1, <2>2, OneStmGrammar
<1> QED
  BY <1>1, <1>2, <1>3, <1>4, <1>5, <1>6, <1>7, <1>8, <1>9, <1>10, <1>11, <1>12, <1>13,
     <1>14 DEF ParseStm

\* A step that builds nothing keeps the shape of what there is.
LEMMA SameGrammar ==
  ASSUME GrammarInv, DOMAIN ast' = DOMAIN ast, stack' = stack \/ stack' = <<>>,
         \A n \in DOMAIN ast : /\ ast'[n].kind = ast[n].kind /\ ast'[n].op = ast[n].op
                               /\ ast'[n].kids = ast[n].kids
  PROVE  GrammarInv'
<1>1. \A e : IsExpr(ast', e) <=> IsExpr(ast, e)
  BY DEF IsExpr
<1>2. \A n \in DOMAIN ast' : Grammatical(ast', ast'[n])
  BY <1>1 DEF GrammarInv, Grammatical
<1>3. \A i \in DOMAIN stack' : stack'[i].sort = "expr" => IsExpr(ast', stack'[i].nodes[1])
  BY <1>1 DEF GrammarInv, Value
<1> QED
  BY <1>2, <1>3 DEF GrammarInv, Value

\* A statement that enters a list.
LEMMA EntersGrammar ==
  ASSUME TypeInv, GrammarInv, NEW k \in 1..Len(stack), Enters(k)
  PROVE  GrammarInv'
<1>1. StackPops(k) /\ stack'[1].sort = "list" /\ ast' = ast
  BY DEF Enters
<1>2. ASSUME NEW i \in DOMAIN stack', stack'[i].sort = "expr"
      PROVE  IsExpr(ast, stack'[i].nodes[1])
  <2>1. i \in 2..Len(stack') /\ Len(stack) \in Nat /\ DOMAIN stack = 1..Len(stack)
    BY <1>1, <1>2, TypeOKDef DEF TypeInv, StackPops
  <2>2. k + i - 1 \in DOMAIN stack /\ stack'[i] = stack[k + i - 1]
    BY <1>1, <2>1 DEF StackPops
  <2> QED
    BY <1>2, <2>2 DEF GrammarInv, Value
<1> QED
  BY <1>1, <1>2 DEF GrammarInv, Value

LEMMA AbortGrammar == Abort => GrammarInv'
BY DEF Abort, GrammarInv

LEMMA NextGrammar ==
  ASSUME TypeInv, DeclInv, DeclInv', GrammarInv, Next
  PROVE  GrammarInv'
<1>1. CASE Abort
  BY <1>1, AbortGrammar
<1>2. CASE Retyped
  BY <1>2, SameGrammar DEF Retyped
<1>3. CASE phase' # "aborted"
  <2>1. CASE ParseExpr
    BY <1>3, <2>1, ParseExprGrammar
  <2>2. CASE FirstOfList \/ NextOfList
    BY <2>2, ListEnters, EntersGrammar
  <2>3. CASE ParseStm /\ ~FirstOfList /\ ~NextOfList
    BY <1>3, <2>3, ParseStmGrammar
  <2>4. CASE Define \/ Check
    BY <1>2, <1>3, <2>4, DefineRetypes, CheckRetypes
  <2> QED
    BY <2>1, <2>2, <2>3, <2>4 DEF Next
<1>4. CASE Parsing /\ phase' = phase
  BY <1>3, <1>4 DEF Parsing
<1> QED
  BY <1>1, <1>2, <1>4, StepKinds DEF Reduced, Enters

-------------------------------------------------------------------------------
(***************************************************************************)
(* The cursor.                                                             *)
(***************************************************************************)
\* A visit that leaves the cursor where it found it, or at the first register.
Quiet(t) == t.step \in {"code", "pass", "increment"}

\* A visit that ends by giving back the cursor it saved.
Restores(t) == t.step \in {"right", "combine", "call"}

\* A visit of (a part of) an expression.
ExprTask(as, t) ==
  \/ Quiet(t) /\ (t.step = "code" => IsExpr(as, t.node))
  \/ Restores(t)
  \/ t.step = "argument"

\* Once the first p - 1 visits of ts are over, the cursor, which is at c now,
\* is in W: the last of them that gives back a cursor gives back one of W.
Returns(ts, c, p, W) ==
  \/ c \in W /\ \A q \in 1..(p - 1) : Quiet(ts[q])
  \/ \E r \in 1..(p - 1) :
       Restores(ts[r]) /\ ts[r].saved \in W /\ \A q \in (r + 1)..(p - 1) : Quiet(ts[q])

\* The visits that use the cursor an expression leaves them, and where they
\* expect it.
Awaiting == {"right", "combine", "store", "control"}
Window(t) ==
  IF t.step = "right" THEN {t.saved, FirstRegister}
  ELSE IF t.step = "combine" THEN Above(t.saved) \cup Above(FirstRegister)
  ELSE {FirstRegister}

Orderly(as, ts, c) ==
  \A p \in DOMAIN ts : ts[p].step \in Awaiting =>
    /\ \A q \in 1..(p - 1) : ExprTask(as, ts[q])
    /\ Returns(ts, c, p, Window(ts[p]))

\* A visit that was cut is one of a node its step is for.
Suits(as, t) ==
  /\ t.step = "right"    => t.node \in DOMAIN as /\ as[t.node].kind = "BINARY"
  /\ t.step = "argument" => IsExpr(as, t.node)
  /\ t.step = "store"    => t.node \in DOMAIN as /\ as[t.node].kind = "AFF"
  /\ t.step = "control"  => t.node \in DOMAIN as /\ as[t.node].kind \in Governing
  /\ t.step = "else"     => t.node \in DOMAIN as /\ Len(as[t.node].kids) >= 3
  /\ t.step \in {"combine", "call", "pass", "increment"} => t.node \in DOMAIN as

Tasks(as) == [step : Steps, node : Ref(as), saved : Int]

\* The inductive invariant of the generator.
WalkInv ==
  /\ GenTypeOK
  /\ phase \notin {"generating", "done"} => DOMAIN register = Vars
  /\ \A p \in DOMAIN todo : Suits(ast, todo[p])
  /\ Orderly(ast, todo, currentRegisterCt)

\* It says what the two properties say.
LEMMA FirstIsOrderly ==
  ASSUME WalkInv
  PROVE  StatementCursor
<1> SUFFICES ASSUME Doing("store") \/ Doing("control")
             PROVE  currentRegisterCt = FirstRegister
  BY DEF StatementCursor
<1>1. /\ todo # <<>> /\ todo \in Seq(Tasks(ast)) /\ Head(todo) = todo[1]
      /\ todo[1].step \in {"store", "control"}
  BY DEF WalkInv, GenTypeOK, Tasks, Doing
<1>2. 1 \in DOMAIN todo
  BY <1>1
<1>3. Returns(todo, currentRegisterCt, 1, {FirstRegister})
  BY <1>1, <1>2 DEF WalkInv, Orderly, Awaiting, Window
<1> QED
  BY <1>3 DEF Returns

LEMMA OrderlyStacks ==
  ASSUME WalkInv
  PROVE  OperandsStack
<1> SUFFICES ASSUME NEW q \in DOMAIN todo, todo[q].step = "combine",
                    \A p \in 1..(q - 1) : todo[p].step \in {"code", "pass", "increment"}
             PROVE  currentRegisterCt \in Above(todo[q].saved) \cup Above(FirstRegister)
  BY DEF OperandsStack
<1>1. Returns(todo, currentRegisterCt, q, Above(todo[q].saved) \cup Above(FirstRegister))
  BY DEF WalkInv, Orderly, Awaiting, Window
<1> QED
  BY <1>1 DEF Returns, Restores

\* What a visit that calls others and what a visit that returns put in front of
\* the visits that were waiting.
Spliced(us, new, ts) ==
  /\ Len(us) \in Nat /\ Len(new) \in Nat /\ Len(ts) \in Nat
  /\ DOMAIN us = 1..Len(us) /\ DOMAIN new = 1..Len(new) /\ DOMAIN ts = 1..Len(ts)
  /\ Len(us) = (Len(new) + Len(ts)) - 1
  /\ \A i \in 1..Len(new) : us[i] = new[i]
  /\ \A k \in 2..Len(ts) : us[(Len(new) + k) - 1] = ts[k]

LEMMA SplicedTasks ==
  ASSUME NEW S, NEW ts \in Seq(S), ts # <<>>, NEW new \in Seq(S)
  PROVE  /\ new \o Tail(ts) \in Seq(S)
         /\ Spliced(new \o Tail(ts), new, ts)
<1>1. /\ Len(new) \in Nat /\ Len(ts) \in Nat /\ Len(ts) > 0
      /\ DOMAIN new = 1..Len(new) /\ DOMAIN ts = 1..Len(ts)
  BY LenProperties, EmptySeq
<1>2. Tail(ts) \in Seq(S) /\ Len(Tail(ts)) = Len(ts) - 1
  BY HeadTailProperties
<1>3. \A i \in 1..(Len(ts) - 1) : Tail(ts)[i] = ts[i + 1]
  BY HeadTailProperties
<1> DEFINE rest == Tail(ts)
<1>4. rest \in Seq(S) /\ Len(rest) = Len(ts) - 1 /\ \A i \in 1..(Len(ts) - 1) : rest[i] = ts[i + 1]
  BY <1>2, <1>3
<1> HIDE DEF rest
<1>5. /\ new \o rest \in Seq(S) /\ Len(new \o rest) = Len(new) + Len(rest)
      /\ \A i \in 1..(Len(new) + Len(rest)) :
           (new \o rest)[i] = IF i <= Len(new) THEN new[i] ELSE rest[i - Len(new)]
  BY <1>4, ConcatProperties
<1> DEFINE us == new \o rest
<1>6. us \in Seq(S) /\ DOMAIN us = 1..Len(us)
  BY <1>5, LenProperties
<1>7. /\ Len(us) = Len(new) + Len(rest)
      /\ \A i \in 1..(Len(new) + Len(rest)) :
           us[i] = IF i <= Len(new) THEN new[i] ELSE rest[i - Len(new)]
  BY <1>5
<1> HIDE DEF us
<1>8. \A i \in 1..Len(new) : us[i] = new[i]
  BY <1>1, <1>4, <1>7
<1>9. ASSUME NEW k \in 2..Len(ts) PROVE us[(Len(new) + k) - 1] = ts[k]
  <2> DEFINE i == (Len(new) + k) - 1
  <2>1. i \in 1..(Len(new) + Len(rest)) /\ ~(i <= Len(new)) /\ i - Len(new) = k - 1
    BY <1>1, <1>4
  <2>2. k - 1 \in 1..(Len(ts) - 1) /\ (k - 1) + 1 = k
    BY <1>1
  <2>3. us[i] = rest[i - Len(new)]
    BY <1>7, <2>1
  <2>4. rest[k - 1] = ts[(k - 1) + 1]
    BY <1>4, <2>2
  <2> QED
    BY <2>1, <2>2, <2>3, <2>4
<1>10. Spliced(us, new, ts)
  BY <1>1, <1>4, <1>6, <1>7, <1>8, <1>9 DEF Spliced
<1> QED
  BY <1>6, <1>10 DEF us, rest

\* The heart of the argument: the visits that replace the first one are in
\* order themselves and give the cursor back as it would have.
Relays(as, t, c, new, d) ==
  ExprTask(as, t) =>
    /\ \A i \in 1..Len(new) : ExprTask(as, new[i])
    /\ Quiet(t) => Returns(new, d, Len(new) + 1, {c, FirstRegister})
    /\ Restores(t) => Returns(new, d, Len(new) + 1, {t.saved})

LEMMA FirstInWindow == \A t : t.saved \in Int => FirstRegister \in Window(t)
BY DEF Window, Above, FirstRegister

\* The first k - 1 of the visits ts are over once the ones that replace the first
\* and the ones after it are.
LEMMA ReturnsStep ==
  ASSUME NEW us, NEW new, NEW ts, Spliced(us, new, ts),
         NEW k \in 2..Len(ts), NEW d, NEW V, NEW W, V \subseteq W,
         Returns(new, d, Len(new) + 1, V),
         \A q \in 2..(k - 1) : Quiet(ts[q])
  PROVE  Returns(us, d, (Len(new) + k) - 1, W)
<1> DEFINE p == (Len(new) + k) - 1
<1>1. /\ Len(us) \in Nat /\ Len(new) \in Nat /\ Len(ts) \in Nat
      /\ \A i \in 1..Len(new) : us[i] = new[i]
      /\ \A i \in 2..Len(ts) : us[(Len(new) + i) - 1] = ts[i]
  BY DEF Spliced
<1>2. ASSUME NEW q \in (Len(new) + 1)..(p - 1) PROVE Quiet(us[q])
  <2>1. PICK i \in 2..(k - 1) : q = (Len(new) + i) - 1
    <3>1. (q - Len(new)) + 1 \in 2..(k - 1) /\ q = (Len(new) + ((q - Len(new)) + 1)) - 1
      BY <1>1
    <3> QED
      BY <3>1
  <2>2. i \in 2..Len(ts)
    BY <1>1
  <2> QED
    BY <1>1, <2>1, <2>2
<1>3. p \in Nat /\ p > Len(new)
  BY <1>1
<1> HIDE DEF p
<1>4. CASE d \in V /\ \A q \in 1..Len(new) : Quiet(new[q])
  <2>1. ASSUME NEW q \in 1..(p - 1) PROVE Quiet(us[q])
    <3>1. q \in 1..Len(new) \/ q \in (Len(new) + 1)..(p - 1)
      BY <1>1, <1>3
    <3> QED
      BY <1>1, <1>2, <1>4, <3>1
  <2>2. Returns(us, d, p, W)
    BY <1>4, <2>1 DEF Returns
  <2> QED
    BY <2>2 DEF p
<1>5. ASSUME NEW r \in 1..Len(new), Restores(new[r]), new[r].saved \in V,
             \A q \in (r + 1)..Len(new) : Quiet(new[q])
      PROVE  Returns(us, d, p, W)
  <2>1. r \in 1..(p - 1) /\ us[r] = new[r]
    BY <1>1, <1>3
  <2>2. ASSUME NEW q \in (r + 1)..(p - 1) PROVE Quiet(us[q])
    <3>1. CASE q <= Len(new)
      <4>1. q \in 1..Len(new) /\ q \in (r + 1)..Len(new)
        BY <1>1, <3>1
      <4> QED
        BY <1>1, <1>5, <4>1
    <3>2. CASE ~(q <= Len(new))
      <4>1. q \in (Len(new) + 1)..(p - 1)
        BY <1>1, <1>3, <3>2
      <4> QED
        BY <1>2, <4>1
    <3> QED
      BY <3>1, <3>2
  <2>3. us[r].saved \in W /\ Restores(us[r])
    BY <1>5, <2>1
  <2> QED
    BY <2>1, <2>2, <2>3 DEF Returns
<1>6. (Len(new) + 1) - 1 = Len(new)
  BY <1>1
<1>7. \/ d \in V /\ \A q \in 1..Len(new) : Quiet(new[q])
      \/ \E r \in 1..Len(new) :
           Restores(new[r]) /\ new[r].saved \in V /\ \A q \in (r + 1)..Len(new) : Quiet(new[q])
  BY <1>6 DEF Returns
<1> QED
  BY <1>4, <1>5, <1>7 DEF p

LEMMA OrderlyStep ==
  ASSUME NEW as, NEW us \in Seq(Tasks(as)), NEW new, NEW ts, Spliced(us, new, ts),
         NEW c, NEW d, Orderly(as, ts, c), Orderly(as, new, d), Relays(as, ts[1], c, new, d)
  PROVE  Orderly(as, us, d)
<1>1. /\ Len(us) \in Nat /\ Len(new) \in Nat /\ Len(ts) \in Nat
      /\ DOMAIN us = 1..Len(us) /\ DOMAIN new = 1..Len(new) /\ DOMAIN ts = 1..Len(ts)
      /\ Len(us) = (Len(new) + Len(ts)) - 1
      /\ \A i \in 1..Len(new) : us[i] = new[i]
      /\ \A k \in 2..Len(ts) : us[(Len(new) + k) - 1] = ts[k]
  BY DEF Spliced
<1> SUFFICES ASSUME NEW p \in 1..Len(us), us[p].step \in Awaiting
             PROVE  /\ \A q \in 1..(p - 1) : ExprTask(as, us[q])
                    /\ Returns(us, d, p, Window(us[p]))
  BY <1>1 DEF Orderly
<1>2. CASE p <= Len(new)
  <2>1. /\ p \in 1..Len(new) /\ us[p] = new[p]
        /\ \A q \in 1..(p - 1) : us[q] = new[q]
    BY <1>1, <1>2
  <2>2. /\ \A q \in 1..(p - 1) : ExprTask(as, new[q])
        /\ Returns(new, d, p, Window(new[p]))
    BY <1>1, <2>1 DEF Orderly
  <2>3. Returns(us, d, p, Window(us[p]))
    <3>1. \A r \in 1..(p - 1) : \A q \in (r + 1)..(p - 1) : q \in 1..(p - 1)
      OBVIOUS
    <3> QED
      BY <2>1, <2>2, <3>1 DEF Returns
  <2> QED
    BY <2>1, <2>2, <2>3
<1>3. CASE ~(p <= Len(new))
  <2>1. PICK k \in 2..Len(ts) : p = (Len(new) + k) - 1
    <3>1. (p - Len(new)) + 1 \in 2..Len(ts) /\ p = (Len(new) + ((p - Len(new)) + 1)) - 1
      BY <1>1, <1>3
    <3> QED
      BY <3>1
  <2>2. us[p] = ts[k] /\ k \in DOMAIN ts
    BY <1>1, <2>1
  <2> DEFINE W == Window(us[p])
  <2>3. /\ \A q \in 1..(k - 1) : ExprTask(as, ts[q])
        /\ Returns(ts, c, k, W)
    BY <2>2 DEF Orderly
  <2>4. FirstRegister \in W
    <3>1. us[p] \in Tasks(as)
      BY ElementOfSeq
    <3> QED
      BY <3>1, FirstInWindow DEF Tasks
  <2>5. ExprTask(as, ts[1])
    <3>1. 1 \in 1..(k - 1)
      BY <1>1, <2>1
    <3> QED
      BY <2>3, <3>1
  <2>6. ASSUME NEW q \in 1..(p - 1) PROVE ExprTask(as, us[q])
    <3>1. CASE q <= Len(new)
      <4>1. q \in 1..Len(new)
        BY <1>1, <3>1
      <4> QED
        BY <1>1, <2>5, <4>1 DEF Relays
    <3>2. CASE ~(q <= Len(new))
      <4>1. PICK i \in 2..(k - 1) : q = (Len(new) + i) - 1
        <5>1. /\ (q - Len(new)) + 1 \in 2..(k - 1)
              /\ q = (Len(new) + ((q - Len(new)) + 1)) - 1
          BY <1>1, <2>1, <3>2
        <5> QED
          BY <5>1
      <4>2. i \in 2..Len(ts) /\ i \in 1..(k - 1)
        BY <1>1, <2>1
      <4>3. us[q] = ts[i]
        BY <1>1, <4>1, <4>2
      <4> QED
        BY <2>3, <4>2, <4>3
    <3> QED
      BY <3>1, <3>2
  <2> HIDE DEF W
  <2>7. ASSUME c \in W, \A q \in 1..(k - 1) : Quiet(ts[q])
        PROVE  Returns(us, d, p, W)
    <3>1. Quiet(ts[1]) /\ \A q \in 2..(k - 1) : Quiet(ts[q])
      BY <2>1, <2>7
    <3>2. Returns(new, d, Len(new) + 1, {c, FirstRegister})
      BY <2>5, <3>1 DEF Relays
    <3>3. {c, FirstRegister} \subseteq W
      BY <2>4, <2>7
    <3> QED
      BY <2>1, <3>1, <3>2, <3>3, ReturnsStep
  <2>8. ASSUME NEW r \in 1..(k - 1), Restores(ts[r]), ts[r].saved \in W,
               \A q \in (r + 1)..(k - 1) : Quiet(ts[q])
        PROVE  Returns(us, d, p, W)
    <3>1. CASE r = 1
      <4>1. Restores(ts[1]) /\ {ts[1].saved} \subseteq W /\ \A q \in 2..(k - 1) : Quiet(ts[q])
        BY <2>8, <3>1
      <4>2. Returns(new, d, Len(new) + 1, {ts[1].saved})
        BY <2>5, <4>1 DEF Relays
      <4> QED
        BY <2>1, <4>1, <4>2, ReturnsStep
    <3>2. CASE r # 1
      <4> DEFINE j == (Len(new) + r) - 1
      <4>1. j \in 1..(p - 1) /\ r \in 2..Len(ts)
        BY <1>1, <2>1, <3>2
      <4>2. us[j] = ts[r]
        BY <1>1, <4>1
      <4>3. ASSUME NEW q \in (j + 1)..(p - 1) PROVE Quiet(us[q])
        <5>1. PICK i \in (r + 1)..(k - 1) : q = (Len(new) + i) - 1
          <6>1. /\ (q - Len(new)) + 1 \in (r + 1)..(k - 1)
                /\ q = (Len(new) + ((q - Len(new)) + 1)) - 1
            BY <1>1, <2>1, <4>1
          <6> QED
            BY <6>1
        <5>2. i \in 2..Len(ts)
          BY <1>1, <2>1, <4>1
        <5>3. us[q] = ts[i]
          BY <1>1, <5>1, <5>2
        <5> QED
          BY <2>8, <5>1, <5>3
      <4> HIDE DEF j
      <4> QED
        BY <2>8, <4>1, <4>2, <4>3 DEF Returns
    <3> QED
      BY <3>1, <3>2
  <2>9. Returns(us, d, p, W)
    BY <2>3, <2>7, <2>8 DEF Returns
  <2> QED
    BY <2>6, <2>9 DEF W
<1> QED
  BY <1>1, <1>2, <1>3

-------------------------------------------------------------------------------
(***************************************************************************)
(* The steps of the generator, by what they do to the visits under way.    *)
(***************************************************************************)
RegistersExist ==
  /\ DOMAIN register' \subseteq Ref(ast)
  /\ \A e \in DOMAIN register' : register'[e] \in Int

LEMMA WalkStep ==
  ASSUME WalkInv, phase = "generating", todo # <<>>, Stays, RegistersExist,
         NEW new \in Seq(Tasks(ast)), Continue(new), currentRegisterCt' \in Int,
         \A i \in DOMAIN new : Suits(ast, new[i]),
         Orderly(ast, new, currentRegisterCt'),
         Relays(ast, Head(todo), currentRegisterCt, new, currentRegisterCt')
  PROVE  WalkInv'
<1>1. todo \in Seq(Tasks(ast)) /\ Head(todo) = todo[1]
  BY DEF WalkInv, GenTypeOK, Tasks
<1>2. todo' \in Seq(Tasks(ast)) /\ Spliced(todo', new, todo)
  <2>1. todo' = new \o Tail(todo)
    BY DEF Continue
  <2>2. new \o Tail(todo) \in Seq(Tasks(ast)) /\ Spliced(new \o Tail(todo), new, todo)
    BY <1>1, SplicedTasks
  <2> QED
    BY <2>1, <2>2
<1>3. ast' = ast /\ phase' = phase
  BY DEF Stays, vars
<1>4. Orderly(ast, todo', currentRegisterCt')
  BY <1>1, <1>2, OrderlyStep DEF WalkInv
<1>5. ASSUME NEW p \in DOMAIN todo' PROVE Suits(ast, todo'[p])
  <2>1. /\ Len(new) \in Nat /\ Len(todo) \in Nat
        /\ DOMAIN todo' = 1..Len(todo') /\ DOMAIN new = 1..Len(new)
        /\ DOMAIN todo = 1..Len(todo)
        /\ Len(todo') = (Len(new) + Len(todo)) - 1
        /\ \A i \in 1..Len(new) : todo'[i] = new[i]
        /\ \A k \in 2..Len(todo) : todo'[(Len(new) + k) - 1] = todo[k]
    BY <1>2 DEF Spliced
  <2>2. CASE p <= Len(new)
    <3>1. p \in DOMAIN new /\ todo'[p] = new[p]
      BY <2>1, <2>2
    <3> QED
      BY <3>1
  <2>3. CASE ~(p <= Len(new))
    <3>1. PICK k \in 2..Len(todo) : p = (Len(new) + k) - 1
      <4>1. /\ (p - Len(new)) + 1 \in 2..Len(todo)
            /\ p = (Len(new) + ((p - Len(new)) + 1)) - 1
        BY <2>1, <2>3
      <4> QED
        BY <4>1
    <3>2. todo'[p] = todo[k] /\ k \in DOMAIN todo
      BY <2>1, <3>1
    <3> QED
      BY <3>2 DEF WalkInv
  <2> QED
    BY <2>2, <2>3
<1>6. GenTypeOK'
  BY <1>2, <1>3 DEF GenTypeOK, Tasks, RegistersExist
<1> QED
  BY <1>3, <1>4, <1>5, <1>6 DEF WalkInv

\* The visit at hand.
LEMMA CurrentTask ==
  ASSUME WalkInv, phase = "generating", todo # <<>>
  PROVE  /\ Head(todo) \in Tasks(ast) /\ Suits(ast, Head(todo))
         /\ Current = Head(todo).node /\ Saved = Head(todo).saved
         /\ Current \in Ref(ast) /\ Saved \in Int /\ currentRegisterCt \in Int
         /\ Head(todo).step \in Awaiting => currentRegisterCt \in Window(Head(todo))
<1>1. todo \in Seq(Tasks(ast)) /\ Head(todo) = todo[1] /\ 1 \in DOMAIN todo
  BY DEF WalkInv, GenTypeOK, Tasks
<1>2. Head(todo) \in Tasks(ast)
  BY <1>1, ElementOfSeq, LenProperties
<1>3. Head(todo).step \in Awaiting => Returns(todo, currentRegisterCt, 1, Window(Head(todo)))
  BY <1>1 DEF WalkInv, Orderly
<1> QED
  BY <1>1, <1>2, <1>3 DEF Current, Saved, Tasks, Returns, WalkInv, GenTypeOK

LEMMA SameRegisters ==
  ASSUME WalkInv, register' = register
  PROVE  RegistersExist
BY DEF WalkInv, GenTypeOK, RegistersExist

LEMMA RegisterSet ==
  ASSUME WalkInv, NEW e \in Ref(ast), NEW r \in Int, SetRegister(e, r)
  PROVE  RegistersExist
BY DEF WalkInv, GenTypeOK, RegistersExist, SetRegister

LEMMA RegisterInt ==
  ASSUME WalkInv, NEW e
  PROVE  RegisterOf(e) \in Int
BY DEF WalkInv, GenTypeOK, RegisterOf

\* A visit returns.
LEMMA WalkReturns ==
  ASSUME WalkInv, phase = "generating", todo # <<>>, Stays, RegistersExist, Continue(<<>>),
         currentRegisterCt' \in Int,
         Quiet(Head(todo)) => currentRegisterCt' \in {currentRegisterCt, FirstRegister},
         Restores(Head(todo)) => currentRegisterCt' = Saved
  PROVE  WalkInv'
<1> DEFINE new == <<>>
<1>1. new \in Seq(Tasks(ast)) /\ DOMAIN new = {} /\ Len(new) = 0
  OBVIOUS
<1>2. Continue(new)
  OBVIOUS
<1> HIDE DEF new
<1>3. Orderly(ast, new, currentRegisterCt')
  BY <1>1 DEF Orderly
<1>4. Relays(ast, Head(todo), currentRegisterCt, new, currentRegisterCt')
  BY <1>1 DEF Relays, Returns, Saved
<1> QED
  BY <1>1, <1>2, <1>3, <1>4, WalkStep

\* What accept() starts.
LEMMA VisitTask ==
  ASSUME NEW as, NEW e \in Ref(as)
  PROVE  /\ Visit(e) \in Tasks(as) /\ Suits(as, Visit(e)) /\ Quiet(Visit(e))
         /\ Visit(e).step \notin Awaiting /\ (IsExpr(as, e) => ExprTask(as, Visit(e)))
<1> DEFINE t == Visit(e)
<1>1. t = [step |-> "code", node |-> e, saved |-> 0]
  BY DEF Visit, Task
<1> HIDE DEF t
<1>2. t \in Tasks(as) /\ t.step = "code" /\ t.node = e
  <2>1. "code" \in Steps /\ 0 \in Int
    BY DEF Steps
  <2> QED
    BY <1>1, <2>1 DEF Tasks
<1>3. Suits(as, t) /\ Quiet(t) /\ t.step \notin Awaiting /\ (IsExpr(as, e) => ExprTask(as, t))
  BY <1>2 DEF Suits, Quiet, Awaiting, ExprTask
<1> QED
  BY <1>2, <1>3 DEF t

\* A visit calls accept() on a node, and goes on when that returns.
LEMMA WalkCalls ==
  ASSUME WalkInv, phase = "generating", todo # <<>>, Stays, RegistersExist,
         NEW e \in Ref(ast), NEW then \in Tasks(ast), Suits(ast, then),
         Continue(<<Visit(e), then>>), currentRegisterCt' \in Int,
         then.step \in Awaiting => IsExpr(ast, e) /\ currentRegisterCt' \in Window(then),
         ExprTask(ast, Head(todo)) =>
           /\ IsExpr(ast, e) /\ ExprTask(ast, then)
           /\ \/ Restores(then) /\ (\/ Quiet(Head(todo)) /\ then.saved = currentRegisterCt
                                    \/ Restores(Head(todo)) /\ then.saved = Saved)
              \/ Quiet(Head(todo)) /\ Quiet(then) /\ currentRegisterCt' = currentRegisterCt
  PROVE  WalkInv'
<1> DEFINE first == Visit(e)
           new == <<first, then>>
<1>1. /\ first \in Tasks(ast) /\ Suits(ast, first) /\ Quiet(first)
      /\ first.step \notin Awaiting /\ (IsExpr(ast, e) => ExprTask(ast, first))
  BY VisitTask
<1> HIDE DEF first
<1>2. /\ new \in Seq(Tasks(ast)) /\ DOMAIN new = 1..2 /\ Len(new) = 2
      /\ new[1] = first /\ new[2] = then
  BY <1>1
<1>3. Continue(new)
  BY DEF first
<1> HIDE DEF new
<1>4. \A i \in DOMAIN new : Suits(ast, new[i])
  BY <1>1, <1>2
<1>5. ~(Quiet(Head(todo)) /\ Restores(Head(todo)))
  BY DEF Quiet, Restores
<1>6. Orderly(ast, new, currentRegisterCt')
  <2>1. ASSUME NEW p \in DOMAIN new, new[p].step \in Awaiting
        PROVE  /\ p = 2 /\ new[p] = then
    BY <1>1, <1>2, <2>1
  <2>2. ASSUME then.step \in Awaiting
        PROVE  /\ \A q \in 1..(2 - 1) : ExprTask(ast, new[q])
               /\ Returns(new, currentRegisterCt', 2, Window(then))
    BY <1>1, <1>2, <2>2 DEF Returns
  <2> QED
    BY <2>1, <2>2 DEF Orderly
<1>7. ASSUME ExprTask(ast, Head(todo))
      PROVE  /\ \A i \in 1..2 : ExprTask(ast, new[i])
             /\ Quiet(Head(todo)) =>
                  Returns(new, currentRegisterCt', 3, {currentRegisterCt, FirstRegister})
             /\ Restores(Head(todo)) => Returns(new, currentRegisterCt', 3, {Saved})
  <2>1. \A i \in 1..2 : ExprTask(ast, new[i])
    BY <1>1, <1>2, <1>7
  <2>2. CASE Restores(then) /\ (\/ Quiet(Head(todo)) /\ then.saved = currentRegisterCt
                                \/ Restores(Head(todo)) /\ then.saved = Saved)
    <3>1. ASSUME NEW W, then.saved \in W PROVE Returns(new, currentRegisterCt', 3, W)
      <4>1. 2 \in 1..(3 - 1) /\ \A q \in (2 + 1)..(3 - 1) : Quiet(new[q])
        OBVIOUS
      <4> QED
        BY <1>2, <2>2, <3>1, <4>1 DEF Returns
    <3> QED
      BY <1>5, <2>1, <2>2, <3>1
  <2>3. CASE Quiet(Head(todo)) /\ Quiet(then) /\ currentRegisterCt' = currentRegisterCt
    <3>1. \A q \in 1..(3 - 1) : Quiet(new[q])
      BY <1>1, <1>2, <2>3
    <3> QED
      BY <1>5, <2>1, <2>3, <3>1 DEF Returns
  <2> QED
    BY <1>7, <2>2, <2>3
<1>8. Relays(ast, Head(todo), currentRegisterCt, new, currentRegisterCt')
  BY <1>2, <1>7 DEF Relays, Saved
<1> QED
  BY <1>2, <1>3, <1>4, <1>6, <1>8, WalkStep

-------------------------------------------------------------------------------
(***************************************************************************)
(* The actions of the generator.                                           *)
(***************************************************************************)
\* The children a visit() reads exist.
LEMMA Children ==
  ASSUME TypeInv, GrammarInv, NEW n \in DOMAIN ast
  PROVE  /\ ast[n].kids \in Seq(Ref(ast)) /\ Len(ast[n].kids) \in Nat
         /\ DOMAIN ast[n].kids = 1..Len(ast[n].kids)
         /\ \A i \in 1..Len(ast[n].kids) : ast[n].kids[i] \in Ref(ast)
         /\ Grammatical(ast, ast[n])
<1>1. ast[n].kids \in Seq(Ref(ast))
  <2>1. /\ Len(ast) \in Nat /\ DOMAIN ast = 1..Len(ast)
        /\ ast \in Seq(NodeSet(Len(cells), Len(ast)))
    BY TypeOKDef DEF TypeInv
  <2>2. ast[n] \in NodeSet(Len(cells), Len(ast))
    BY <2>1, ElementOfSeq
  <2> QED
    BY <2>1, <2>2 DEF NodeSet, Ref
<1> QED
  BY <1>1, LenProperties, ElementOfSeq DEF GrammarInv

LEMMA Operands ==
  ASSUME TypeInv, GrammarInv, NEW n \in DOMAIN ast
  PROVE  /\ ast[n].kind \in ExprKinds \cup {"AFF"} =>
              \A i \in 1..Len(ast[n].kids) : IsExpr(ast, ast[n].kids[i])
         /\ ast[n].kind \in {"BINARY", "AFF"} =>
              /\ ast[n].kids[1] \in Ref(ast) /\ IsExpr(ast, ast[n].kids[1])
              /\ ast[n].kids[2] \in Ref(ast) /\ IsExpr(ast, ast[n].kids[2])
         /\ ast[n].kind = "UNARY" =>
              ast[n].kids[1] \in Ref(ast) /\ IsExpr(ast, ast[n].kids[1])
         /\ ast[n].kind = "LOOP" => ast[n].kids[1] \in Ref(ast)
         /\ ast[n].kind \in Governing =>
              /\ ast[n].kids[1] \in Ref(ast) /\ IsExpr(ast, ast[n].kids[1])
              /\ ast[n].kids[2] \in Ref(ast)
              /\ ast[n].op = "ELSE" => Len(ast[n].kids) >= 3
<1> DEFINE kids == ast[n].kids
<1>1. /\ Len(kids) \in Nat /\ DOMAIN kids = 1..Len(kids)
      /\ \A i \in 1..Len(kids) : kids[i] \in Ref(ast)
      /\ Grammatical(ast, ast[n])
  BY Children
<1>2. ast[n].kind \in ExprKinds \cup {"AFF"} => \A i \in 1..Len(kids) : IsExpr(ast, kids[i])
  BY <1>1 DEF Grammatical
<1>3. /\ ast[n].kind \in {"BINARY", "AFF"} => Len(kids) = 2
      /\ ast[n].kind \in {"UNARY", "LOOP"} => Len(kids) = 1
      /\ ast[n].kind \in Governing =>
           /\ Len(kids) >= 2 /\ IsExpr(ast, kids[1])
           /\ ast[n].op = "ELSE" => Len(kids) >= 3
  BY <1>1 DEF Grammatical
<1>4. "BINARY" \in ExprKinds /\ "UNARY" \in ExprKinds
  BY DEF ExprKinds
<1> HIDE DEF kids
<1>5. /\ ast[n].kind \in {"BINARY", "AFF"} =>
           /\ kids[1] \in Ref(ast) /\ IsExpr(ast, kids[1])
           /\ kids[2] \in Ref(ast) /\ IsExpr(ast, kids[2])
      /\ ast[n].kind = "UNARY" => kids[1] \in Ref(ast) /\ IsExpr(ast, kids[1])
  BY <1>1, <1>2, <1>3, <1>4
<1>6. /\ ast[n].kind = "LOOP" => kids[1] \in Ref(ast)
      /\ ast[n].kind \in Governing => kids[1] \in Ref(ast) /\ kids[2] \in Ref(ast)
  BY <1>1, <1>3
<1> QED
  BY <1>2, <1>3, <1>5, <1>6 DEF kids

\* Expr.size() is between that of a type without a size and that of four bytes.
LEMMA Sizes ==
  ASSUME TypeInv, NEW e \in Ref(ast)
  PROVE  SizeOf(e) \in -1..4
<1>1. CASE ~HasType(e)
  BY <1>1 DEF SizeOf
<1>2. CASE HasType(e)
  <2>1. /\ varType \in [Vars -> NullType..Len(cells)] /\ cells \in Seq(Cell)
        /\ Len(ast) \in Nat /\ DOMAIN ast = 1..Len(ast) /\ Len(cells) \in Nat
        /\ ast \in Seq(NodeSet(Len(cells), Len(ast)))
    BY TypeOKDef DEF TypeInv, TypeOK
  <2>2. TypeOf(e) \in NullType..Len(cells)
    <3>1. CASE e \in Vars
      BY <2>1, <3>1 DEF TypeOf
    <3>2. CASE e \notin Vars
      <4>1. e \in 1..Len(ast)
        BY <2>1, <3>2 DEF Ref
      <4>2. ast[e] \in NodeSet(Len(cells), Len(ast))
        BY <2>1, <4>1, ElementOfSeq
      <4> QED
        BY <3>2, <4>2 DEF TypeOf, NodeSet
    <3> QED
      BY <3>1, <3>2
  <2>3. TypeOf(e) \in 1..Len(cells)
    BY <1>2, <2>1, <2>2 DEF HasType, NullType
  <2>4. TagOf(e) \in Tag
    <3>1. cells[TypeOf(e)] \in Cell
      BY <2>1, <2>3, ElementOfSeq
    <3> QED
      BY <3>1 DEF TagOf, Cell
  <2>5. \A tag \in Tag : sizeMap[tag] \in -1..4
    BY DEF Tag, sizeMap
  <2> QED
    BY <1>2, <2>4, <2>5 DEF SizeOf
<1> QED
  BY <1>1, <1>2

\* The visits that return at once.
LEMMA VisitsReturn ==
  ASSUME TypeInv, GrammarInv, WalkInv,
         \/ VisitVAR \/ VisitCONSTANT \/ Pass \/ Increment1 \/ VisitLIST \/ VisitOther
         \/ BinaryCombine \/ Call \/ Store \/ EndIf \/ EndWhile \/ EndForeach \/ EndLoop
  PROVE  WalkInv'
<1> DEFINE leaves == {"code", "pass", "increment"}
           ends   == {"end if", "end while", "end foreach", "end loop"}
<1>1. ASSUME NEW step, Doing(step), Stays, Continue(<<>>), RegistersExist,
             currentRegisterCt' \in Int,
             step \in leaves => currentRegisterCt' \in {currentRegisterCt, FirstRegister},
             step \in {"right", "combine", "call"} => currentRegisterCt' = Saved
      PROVE  WalkInv'
  BY <1>1, WalkReturns DEF Doing, Quiet, Restores
<1>2. ASSUME NEW step, Doing(step)
      PROVE  /\ Current \in Ref(ast) /\ Saved \in Int /\ currentRegisterCt \in Int
             /\ Suits(ast, Head(todo)) /\ Current = Head(todo).node /\ Head(todo).step = step
  BY <1>2, CurrentTask DEF Doing
<1>3. CASE VisitVAR \/ VisitCONSTANT \/ Pass \/ Increment1 \/ VisitOther
  <2>1. PICK step \in leaves :
          /\ Doing(step) /\ Stays /\ Continue(<<>>) /\ currentRegisterCt' = currentRegisterCt
          /\ register' = register \/ SetRegister(Current, currentRegisterCt)
    BY <1>3 DEF VisitVAR, VisitCONSTANT, Pass, Increment1, VisitOther, DoingKind
  <2>2. RegistersExist
    BY <1>2, <2>1, SameRegisters, RegisterSet
  <2>3. step \notin {"right", "combine", "call"}
    OBVIOUS
  <2> QED
    BY <1>1, <1>2, <2>1, <2>2, <2>3
<1>4. CASE VisitLIST
  <2>1. /\ Doing("code") /\ Stays /\ Continue(<<>>) /\ currentRegisterCt' = FirstRegister
        /\ register' = register \/ SetRegister(Current, FirstRegister)
    BY <1>4 DEF VisitLIST, DoingKind, MoveTo
  <2>2. FirstRegister \in Int
    BY DEF FirstRegister
  <2>3. RegistersExist
    BY <1>2, <2>1, <2>2, SameRegisters, RegisterSet
  <2> QED
    BY <1>1, <2>1, <2>2, <2>3
<1>5. CASE BinaryCombine
  <2>1. /\ Doing("combine") /\ Stays /\ Continue(<<>>) /\ currentRegisterCt' = Saved
        /\ register' = register \/ SetRegister(Current, RegisterOf(Kid(1)))
    BY <1>5 DEF BinaryCombine, MoveTo
  <2>2. RegistersExist
    BY <1>2, <2>1, SameRegisters, RegisterSet, RegisterInt
  <2> QED
    BY <1>1, <1>2, <2>1, <2>2
<1>6. CASE Call
  <2>1. /\ Doing("call") /\ Stays /\ Continue(<<>>) /\ currentRegisterCt' = Saved
        /\ register' = register
    BY <1>6 DEF Call, MoveTo
  <2>2. RegistersExist
    BY <2>1, SameRegisters
  <2> QED
    BY <1>1, <1>2, <2>1, <2>2
<1>7. CASE Store
  <2>1. /\ Doing("store") /\ Stays /\ Continue(<<>>) /\ register' = register
        /\ currentRegisterCt' = currentRegisterCt + SizeOf(Kid(2))
    BY <1>7 DEF Store, MoveTo
  <2>2. Current \in DOMAIN ast /\ ast[Current].kind = "AFF"
    BY <1>2, <2>1 DEF Suits
  <2>3. SizeOf(Kid(2)) \in Int
    BY <2>2, Operands, Sizes DEF Kid
  <2>4. RegistersExist
    BY <2>1, SameRegisters
  <2> QED
    BY <1>1, <1>2, <2>1, <2>3, <2>4
<1>8. CASE EndIf \/ EndWhile \/ EndForeach \/ EndLoop
  <2>1. PICK step \in ends :
          /\ Doing(step) /\ Stays /\ Continue(<<>>) /\ currentRegisterCt' = currentRegisterCt
          /\ register' = register
    BY <1>8 DEF EndIf, EndWhile, EndForeach, EndLoop
  <2>2. RegistersExist
    BY <2>1, SameRegisters
  <2>3. step \notin leaves /\ step \notin {"right", "combine", "call"}
    OBVIOUS
  <2> QED
    BY <1>1, <1>2, <2>1, <2>2, <2>3
<1> QED
  BY <1>3, <1>4, <1>5, <1>6, <1>7, <1>8

\* The node of a visit that DoingKind selects, and what Continue() needs to know.
LEMMA VisitedNode ==
  ASSUME WalkInv, NEW kinds, DoingKind("code", kinds)
  PROVE  /\ Current \in DOMAIN ast /\ ast[Current].kind \in kinds
         /\ phase = "generating" /\ todo # <<>>
         /\ Quiet(Head(todo)) /\ ~Restores(Head(todo))
         /\ currentRegisterCt \in Int
         /\ ExprTask(ast, Head(todo)) => ast[Current].kind \in ExprKinds
<1>1. phase = "generating" /\ todo # <<>> /\ Head(todo).step = "code"
  BY DEF DoingKind, Doing
<1>2. /\ Current \in Ref(ast) /\ Current = Head(todo).node /\ currentRegisterCt \in Int
      /\ Current \notin Vars /\ ast[Current].kind \in kinds
  BY <1>1, CurrentTask DEF DoingKind
<1>3. Current \in DOMAIN ast
  BY <1>2 DEF Ref
<1> QED
  BY <1>1, <1>2, <1>3 DEF Quiet, Restores, ExprTask, IsExpr

\* The visit of a node that was cut.
LEMMA CutVisit ==
  ASSUME WalkInv, NEW step, Doing(step)
  PROVE  /\ phase = "generating" /\ todo # <<>> /\ Head(todo).step = step
         /\ Suits(ast, Head(todo)) /\ Current = Head(todo).node
         /\ Current \in Ref(ast) /\ Saved \in Int /\ currentRegisterCt \in Int
         /\ Saved = Head(todo).saved
         /\ step \in Awaiting => currentRegisterCt \in Window(Head(todo))
BY CurrentTask DEF Doing

\* Where a visit goes on when the visit it calls returns.
LEMMA ThenTask ==
  ASSUME NEW as, NEW step \in Steps, NEW n \in Ref(as), NEW r \in Int
  PROVE  /\ Task(step, n, r) \in Tasks(as)
         /\ Task(step, n, r).step = step /\ Task(step, n, r).node = n
         /\ Task(step, n, r).saved = r
<1> DEFINE t == Task(step, n, r)
<1>1. t = [step |-> step, node |-> n, saved |-> r]
  BY DEF Task
<1> HIDE DEF t
<1>2. t \in Tasks(as) /\ t.step = step /\ t.node = n /\ t.saved = r
  BY <1>1 DEF Tasks
<1> QED
  BY <1>2 DEF t

\* The visits of an operation and of a unary operator.
LEMMA OperationCalls ==
  ASSUME TypeInv, GrammarInv, WalkInv, VisitBinary \/ BinaryRight \/ VisitUnary
  PROVE  WalkInv'
<1>1. CASE VisitBinary
  <2> DEFINE then == Task("right", Current, currentRegisterCt)
  <2>1. /\ DoingKind("code", {"BINARY"}) /\ Continue(<<Visit(Kid(1)), then>>) /\ Stays
        /\ currentRegisterCt' = currentRegisterCt /\ register' = register
    BY <1>1 DEF VisitBinary
  <2>2. /\ Current \in DOMAIN ast /\ ast[Current].kind = "BINARY"
        /\ phase = "generating" /\ todo # <<>>
        /\ Quiet(Head(todo)) /\ ~Restores(Head(todo)) /\ currentRegisterCt \in Int
    BY <2>1, VisitedNode
  <2>3. Kid(1) \in Ref(ast) /\ IsExpr(ast, Kid(1))
    BY <2>2, Operands DEF Kid
  <2>4. /\ then \in Tasks(ast) /\ then.step = "right" /\ then.node = Current
        /\ then.saved = currentRegisterCt
    <3>1. Current \in Ref(ast) /\ "right" \in Steps
      BY <2>2 DEF Ref, Steps
    <3> QED
      BY <2>2, <3>1, ThenTask
  <2> HIDE DEF then
  <2>5. Suits(ast, then) /\ Restores(then) /\ ExprTask(ast, then)
    BY <2>2, <2>4 DEF Suits, Restores, ExprTask
  <2>6. currentRegisterCt' \in Window(then)
    BY <2>1, <2>4 DEF Window
  <2>7. RegistersExist
    BY <2>1, SameRegisters
  <2> QED
    BY <2>1, <2>2, <2>3, <2>4, <2>5, <2>6, <2>7, WalkCalls
<1>2. CASE BinaryRight
  <2> DEFINE then == Task("combine", Current, Saved)
  <2>1. /\ Doing("right") /\ Continue(<<Visit(Kid(2)), then>>) /\ Stays
        /\ currentRegisterCt' = currentRegisterCt + SizeOf(Kid(1)) /\ register' = register
    BY <1>2 DEF BinaryRight, MoveTo
  <2>2. /\ phase = "generating" /\ todo # <<>> /\ Head(todo).step = "right"
        /\ Suits(ast, Head(todo)) /\ Current = Head(todo).node
        /\ Current \in Ref(ast) /\ Saved \in Int /\ currentRegisterCt \in Int
        /\ Saved = Head(todo).saved /\ currentRegisterCt \in Window(Head(todo))
    BY <2>1, CutVisit DEF Awaiting
  <2>3. Current \in DOMAIN ast /\ ast[Current].kind = "BINARY"
    BY <2>2 DEF Suits
  <2>4. Kid(1) \in Ref(ast) /\ Kid(2) \in Ref(ast) /\ IsExpr(ast, Kid(2))
    BY <2>3, Operands DEF Kid
  <2>5. /\ then \in Tasks(ast) /\ then.step = "combine" /\ then.node = Current
        /\ then.saved = Saved
    <3>1. "combine" \in Steps
      BY DEF Steps
    <3> QED
      BY <2>2, <3>1, ThenTask
  <2> HIDE DEF then
  <2>6. Suits(ast, then) /\ Restores(then) /\ ExprTask(ast, then)
    BY <2>3, <2>5 DEF Suits, Restores, ExprTask
  <2>7. SizeOf(Kid(1)) \in -1..4
    BY <2>4, Sizes
  <2>8. currentRegisterCt \in {Saved, FirstRegister} /\ FirstRegister \in Int
    BY <2>2 DEF Window, FirstRegister
  <2>9. currentRegisterCt' \in Window(then)
    <3>1. currentRegisterCt' \in Above(Saved) \cup Above(FirstRegister)
      BY <2>1, <2>2, <2>7, <2>8 DEF Above
    <3> QED
      BY <2>5, <3>1 DEF Window
  <2>10. RegistersExist
    BY <2>1, SameRegisters
  <2>11. Restores(Head(todo)) /\ currentRegisterCt' \in Int
    BY <2>1, <2>2, <2>7 DEF Restores
  <2> QED
    BY <2>1, <2>2, <2>4, <2>5, <2>6, <2>9, <2>10, <2>11, WalkCalls
<1>3. CASE VisitUnary
  <2>1. /\ DoingKind("code", {"UNARY"}) /\ Stays
        /\ currentRegisterCt' = currentRegisterCt /\ register' = register
        /\ \/ Continue(<<>>)
           \/ Continue(<<Visit(Kid(1)), Task("pass", Current, 0)>>)
           \/ Continue(<<Visit(Kid(1)), Task("increment", Current, 0)>>)
    BY <1>3 DEF VisitUnary
  <2>2. /\ Current \in DOMAIN ast /\ ast[Current].kind = "UNARY"
        /\ phase = "generating" /\ todo # <<>>
        /\ Quiet(Head(todo)) /\ ~Restores(Head(todo)) /\ currentRegisterCt \in Int
    BY <2>1, VisitedNode
  <2>3. Kid(1) \in Ref(ast) /\ IsExpr(ast, Kid(1))
    BY <2>2, Operands DEF Kid
  <2>4. RegistersExist
    BY <2>1, SameRegisters
  <2>5. CASE Continue(<<>>)
    BY <2>1, <2>2, <2>4, <2>5, WalkReturns
  <2>6. ASSUME NEW step \in {"pass", "increment"},
               Continue(<<Visit(Kid(1)), Task(step, Current, 0)>>)
        PROVE  WalkInv'
    <3> DEFINE then == Task(step, Current, 0)
    <3>1. then \in Tasks(ast) /\ then.step = step /\ then.node = Current
      <4>1. Current \in Ref(ast)
        BY <2>2 DEF Ref
      <4>2. step \in Steps
        BY DEF Steps
      <4> QED
        BY <4>1, <4>2, ThenTask
    <3>2. Continue(<<Visit(Kid(1)), then>>)
      BY <2>6
    <3> HIDE DEF then
    <3>3. Suits(ast, then) /\ Quiet(then) /\ ExprTask(ast, then) /\ then.step \notin Awaiting
      BY <2>2, <3>1 DEF Suits, Quiet, ExprTask, Awaiting
    <3> QED
      BY <2>1, <2>2, <2>3, <2>4, <3>1, <3>2, <3>3, WalkCalls
  <2> QED
    BY <2>1, <2>5, <2>6
<1> QED
  BY <1>1, <1>2, <1>3

\* The visits of statements: what the expression leaves is used at once.
LEMMA StatementCalls ==
  ASSUME TypeInv, GrammarInv, WalkInv,
         VisitAFF \/ VisitControl \/ Control \/ Else \/ VisitLOOP
  PROVE  WalkInv'
<1>1. ASSUME NEW n \in DOMAIN ast, NEW e \in Ref(ast), NEW step \in Steps, NEW r \in Int,
             phase = "generating", todo # <<>>, Stays, register' = register,
             Continue(<<Visit(e), Task(step, n, r)>>), currentRegisterCt' \in Int,
             ~ExprTask(ast, Head(todo)),
             step \notin {"right", "combine", "argument", "call", "pass", "increment"},
             step = "store" => ast[n].kind = "AFF",
             step = "control" => ast[n].kind \in Governing,
             step = "else" => Len(ast[n].kids) >= 3,
             step \in {"store", "control"} =>
               IsExpr(ast, e) /\ currentRegisterCt' = FirstRegister
      PROVE  WalkInv'
  <2> DEFINE then == Task(step, n, r)
  <2>1. then \in Tasks(ast) /\ then.step = step /\ then.node = n
    <3>1. n \in Ref(ast)
      BY DEF Ref
    <3> QED
      BY <3>1, ThenTask
  <2>2. Continue(<<Visit(e), then>>)
    BY <1>1
  <2> HIDE DEF then
  <2>3. Suits(ast, then)
    BY <1>1, <2>1 DEF Suits
  <2>4. then.step \in Awaiting => IsExpr(ast, e) /\ currentRegisterCt' \in Window(then)
    BY <1>1, <2>1 DEF Awaiting, Window
  <2>5. RegistersExist
    BY <1>1, SameRegisters
  <2> QED
    BY <1>1, <2>1, <2>2, <2>3, <2>4, <2>5, WalkCalls
<1>2. FirstRegister \in Int /\ 0 \in Int /\ 1 \in Int
  BY DEF FirstRegister
<1>3. CASE VisitAFF
  <2>1. /\ DoingKind("code", {"AFF"}) /\ currentRegisterCt' = FirstRegister
        /\ Continue(<<Visit(Kid(2)), Task("store", Current, 0)>>) /\ Stays
        /\ register' = register
    BY <1>3 DEF VisitAFF, MoveTo
  <2>2. /\ Current \in DOMAIN ast /\ ast[Current].kind = "AFF"
        /\ phase = "generating" /\ todo # <<>> /\ ~ExprTask(ast, Head(todo))
    BY <2>1, VisitedNode DEF ExprKinds
  <2>3. Kid(2) \in Ref(ast) /\ IsExpr(ast, Kid(2)) /\ "store" \in Steps
    BY <2>2, Operands DEF Kid, Steps
  <2> QED
    BY <1>1, <1>2, <2>1, <2>2, <2>3
<1>4. CASE VisitControl
  <2>1. /\ DoingKind("code", Governing) /\ currentRegisterCt' = FirstRegister
        /\ Continue(<<Visit(Kid(1)), Task("control", Current, 0)>>) /\ Stays
        /\ register' = register
    BY <1>4 DEF VisitControl, MoveTo, Governing
  <2>2. /\ Current \in DOMAIN ast /\ ast[Current].kind \in Governing
        /\ phase = "generating" /\ todo # <<>> /\ ~ExprTask(ast, Head(todo))
    BY <2>1, VisitedNode DEF ExprKinds, Governing, Conditionals
  <2>3. Kid(1) \in Ref(ast) /\ IsExpr(ast, Kid(1)) /\ "control" \in Steps
    BY <2>2, Operands DEF Kid, Steps
  <2> QED
    BY <1>1, <1>2, <2>1, <2>2, <2>3
<1>5. CASE Control
  <2>1. PICK step \in {"end if", "else", "end while", "end foreach"} :
          /\ Doing("control") /\ currentRegisterCt' = currentRegisterCt
          /\ Continue(<<Visit(Kid(2)), Task(step, Current, 0)>>) /\ Stays
          /\ register' = register
          /\ step = "else" => ast[Current].op = "ELSE"
    BY <1>5 DEF Control
  <2>2. /\ phase = "generating" /\ todo # <<>> /\ Head(todo).step = "control"
        /\ Suits(ast, Head(todo)) /\ Current = Head(todo).node /\ currentRegisterCt \in Int
    BY <2>1, CutVisit
  <2>3. /\ Current \in DOMAIN ast /\ ast[Current].kind \in Governing
        /\ ~ExprTask(ast, Head(todo))
    BY <2>2 DEF Suits, ExprTask, Quiet, Restores
  <2>4. Kid(2) \in Ref(ast) /\ (step = "else" => Len(ast[Current].kids) >= 3)
    BY <2>1, <2>3, Operands DEF Kid
  <2>5. step \in Steps
    BY DEF Steps
  <2> QED
    BY <1>1, <1>2, <2>1, <2>2, <2>3, <2>4, <2>5
<1>6. CASE Else
  <2>1. /\ Doing("else") /\ currentRegisterCt' = currentRegisterCt
        /\ Continue(<<Visit(Kid(3)), Task("end if", Current, 1)>>) /\ Stays
        /\ register' = register
    BY <1>6 DEF Else
  <2>2. /\ phase = "generating" /\ todo # <<>> /\ Head(todo).step = "else"
        /\ Suits(ast, Head(todo)) /\ Current = Head(todo).node /\ currentRegisterCt \in Int
    BY <2>1, CutVisit
  <2>3. /\ Current \in DOMAIN ast /\ Len(ast[Current].kids) >= 3
        /\ ~ExprTask(ast, Head(todo))
    BY <2>2 DEF Suits, ExprTask, Quiet, Restores
  <2>4. Kid(3) \in Ref(ast)
    BY <2>3, Children DEF Kid
  <2>5. "end if" \in Steps
    BY DEF Steps
  <2> QED
    BY <1>1, <1>2, <2>1, <2>2, <2>3, <2>4, <2>5
<1>7. CASE VisitLOOP
  <2>1. /\ DoingKind("code", {"LOOP"}) /\ currentRegisterCt' = currentRegisterCt
        /\ Continue(<<Visit(Kid(1)), Task("end loop", Current, 0)>>) /\ Stays
        /\ register' = register
    BY <1>7 DEF VisitLOOP
  <2>2. /\ Current \in DOMAIN ast /\ ast[Current].kind = "LOOP" /\ currentRegisterCt \in Int
        /\ phase = "generating" /\ todo # <<>> /\ ~ExprTask(ast, Head(todo))
    <3>1. "LOOP" \notin ExprKinds
      BY DEF ExprKinds
    <3>2. /\ Current \in DOMAIN ast /\ ast[Current].kind \in {"LOOP"}
          /\ phase = "generating" /\ todo # <<>> /\ currentRegisterCt \in Int
          /\ ExprTask(ast, Head(todo)) => ast[Current].kind \in ExprKinds
      BY <2>1, VisitedNode
    <3> QED
      BY <3>1, <3>2
  <2>3. Kid(1) \in Ref(ast) /\ "end loop" \in Steps
    BY <2>2, Operands DEF Kid, Steps
  <2> QED
    BY <1>1, <1>2, <2>1, <2>2, <2>3
<1> QED
  BY <1>3, <1>4, <1>5, <1>6, <1>7

\* A visit of several nodes in turn.
LEMMA TasksInTurn ==
  ASSUME NEW as, NEW step \in Steps, NEW nodes \in Seq(Ref(as))
  PROVE  LET new == [i \in DOMAIN nodes |-> Task(step, nodes[i], 0)]
         IN /\ new \in Seq(Tasks(as)) /\ Len(new) = Len(nodes)
            /\ \A i \in 1..Len(new) : new[i].step = step /\ new[i].node = nodes[i]
<1> DEFINE new == [i \in DOMAIN nodes |-> Task(step, nodes[i], 0)]
<1>1. Len(nodes) \in Nat /\ DOMAIN nodes = 1..Len(nodes)
  BY LenProperties
<1>2. ASSUME NEW i \in 1..Len(nodes)
      PROVE  /\ new[i] \in Tasks(as) /\ new[i].step = step /\ new[i].node = nodes[i]
  <2>1. nodes[i] \in Ref(as)
    BY ElementOfSeq
  <2>2. new[i] = Task(step, nodes[i], 0)
    BY <1>1
  <2>3. ASSUME NEW e \in Ref(as)
        PROVE  LET t == Task(step, e, 0)
               IN t \in Tasks(as) /\ t.step = step /\ t.node = e
    <3>1. Task(step, e, 0) \in Tasks(as)
      BY ThenTask, 0 \in Int
    <3>2. Task(step, e, 0).step = step /\ Task(step, e, 0).node = e
      BY DEF Task
    <3> QED
      BY <3>1, <3>2
  <2> HIDE DEF new
  <2> QED
    BY <2>1, <2>2, <2>3
<1>3. new = [i \in 1..Len(nodes) |-> new[i]]
  BY <1>1
<1> HIDE DEF new
<1>4. new \in [1..Len(nodes) -> Tasks(as)]
  BY <1>2, <1>3
<1>5. new \in Seq(Tasks(as)) /\ Len(new) = Len(nodes)
  <2>1. new \in Seq(Tasks(as))
    BY <1>1, <1>4, SeqDef
  <2>2. DOMAIN new = 1..Len(nodes) /\ DOMAIN new = 1..Len(new) /\ Len(new) \in Nat
    BY <1>4, <2>1, LenProperties
  <2>3. \A a, b \in Nat : 1..a = 1..b => a = b
    OBVIOUS
  <2> QED
    BY <1>1, <2>1, <2>2, <2>3
<1> QED
  BY <1>2, <1>5 DEF new

\* Visits none of which uses the cursor it is left, started by a visit no
\* expression waits for.
LEMMA WalkInTurn ==
  ASSUME WalkInv, phase = "generating", todo # <<>>, Stays, register' = register,
         currentRegisterCt' = currentRegisterCt,
         NEW step \in {"data", "code"}, NEW nodes \in Seq(Ref(ast)),
         Continue([i \in DOMAIN nodes |-> Task(step, nodes[i], 0)]),
         ~ExprTask(ast, Head(todo))
  PROVE  WalkInv'
<1> DEFINE new == [i \in DOMAIN nodes |-> Task(step, nodes[i], 0)]
<1>1. step \in Steps
  BY DEF Steps
<1>2. /\ new \in Seq(Tasks(ast)) /\ Len(new) = Len(nodes)
      /\ \A i \in 1..Len(new) : new[i].step = step /\ new[i].node = nodes[i]
  BY <1>1, TasksInTurn
<1>3. Continue(new)
  OBVIOUS
<1> HIDE DEF new
<1>4. DOMAIN new = 1..Len(new)
  BY <1>2, LenProperties
<1>5. \A i \in DOMAIN new : Suits(ast, new[i])
  BY <1>2, <1>4 DEF Suits
<1>6. Orderly(ast, new, currentRegisterCt')
  BY <1>2, <1>4 DEF Orderly, Awaiting
<1>7. Relays(ast, Head(todo), currentRegisterCt, new, currentRegisterCt')
  BY DEF Relays
<1>8. RegistersExist /\ currentRegisterCt' \in Int
  BY SameRegisters DEF WalkInv, GenTypeOK
<1> QED
  BY <1>2, <1>3, <1>5, <1>6, <1>7, <1>8, WalkStep

LEMMA InsideWalks ==
  ASSUME TypeInv, GrammarInv, WalkInv, VisitInside
  PROVE  WalkInv'
<1> DEFINE nodes == ast[Current].kids
<1>1. /\ DoingKind("code", {"EXPR", "SEQ"}) /\ Stays /\ register' = register
      /\ currentRegisterCt' = currentRegisterCt
      /\ Continue([i \in DOMAIN nodes |-> Task("code", nodes[i], 0)])
  BY DEF VisitInside, Visit, Kid
<1>2. /\ Current \in DOMAIN ast /\ ast[Current].kind \in {"EXPR", "SEQ"}
      /\ phase = "generating" /\ todo # <<>>
      /\ ExprTask(ast, Head(todo)) => ast[Current].kind \in ExprKinds
  BY <1>1, VisitedNode
<1>3. ~ExprTask(ast, Head(todo))
  BY <1>2 DEF ExprKinds
<1>4. nodes \in Seq(Ref(ast))
  BY <1>2, Children
<1> HIDE DEF nodes
<1> QED
  BY <1>1, <1>2, <1>3, <1>4, WalkInTurn

\* DataGeneratorVisitor visits nodes that exist.
LEMMA DataNodes ==
  ASSUME TypeInv, GrammarInv, NEW n \in DOMAIN ast
  PROVE  DataKids(n) \in Seq(Ref(ast))
<1>1. ASSUME NEW e \in Ref(ast) PROVE <<e>> \in Seq(Ref(ast))
  OBVIOUS
<1>2. ast[n].kids \in Seq(Ref(ast)) /\ <<>> \in Seq(Ref(ast))
  BY Children
<1>3. CASE ast[n].kind = "AFF"
  <2>1. ast[n].kids[2] \in Ref(ast)
    BY <1>3, Operands
  <2>2. DataKids(n) = <<ast[n].kids[2]>>
    BY <1>3 DEF DataKids, Conditionals
  <2> QED
    BY <1>1, <2>1, <2>2
<1>4. CASE ast[n].kind \in Governing
  <2>1. ast[n].kids[1] \in Ref(ast)
    BY <1>4, Operands
  <2>2. DataKids(n) = <<ast[n].kids[1]>>
    BY <1>4 DEF DataKids, Governing, Conditionals
  <2> QED
    BY <1>1, <2>1, <2>2
<1>5. CASE ast[n].kind \notin Governing \cup {"AFF"}
  <2>1. DataKids(n) \in {ast[n].kids, <<>>}
    BY <1>5 DEF DataKids, Governing
  <2> QED
    BY <1>2, <2>1
<1> QED
  BY <1>3, <1>4, <1>5

LEMMA DataWalks ==
  ASSUME TypeInv, GrammarInv, WalkInv, DataVisit
  PROVE  WalkInv'
<1>1. /\ Doing("data") /\ Stays /\ register' = register
      /\ currentRegisterCt' = currentRegisterCt
      /\ \/ Continue(<<>>)
         \/ /\ Current \notin Vars
            /\ Continue([i \in DOMAIN DataKids(Current) |->
                           Task("data", DataKids(Current)[i], 0)])
  BY DEF DataVisit
<1>2. /\ phase = "generating" /\ todo # <<>> /\ Head(todo).step = "data"
      /\ Current \in Ref(ast) /\ currentRegisterCt \in Int
  BY <1>1, CutVisit
<1>3. RegistersExist
  BY <1>1, SameRegisters
<1>4. ~Quiet(Head(todo)) /\ ~Restores(Head(todo)) /\ ~ExprTask(ast, Head(todo))
  BY <1>2 DEF Quiet, Restores, ExprTask
<1>5. CASE Continue(<<>>)
  BY <1>1, <1>2, <1>3, <1>4, <1>5, WalkReturns
<1>6. ASSUME Current \notin Vars,
             Continue([i \in DOMAIN DataKids(Current) |->
                         Task("data", DataKids(Current)[i], 0)])
      PROVE  WalkInv'
  <2>1. DataKids(Current) \in Seq(Ref(ast))
    BY <1>2, <1>6, DataNodes DEF Ref
  <2> QED
    BY <1>1, <1>2, <1>4, <1>6, <2>1, WalkInTurn
<1> QED
  BY <1>1, <1>5, <1>6

\* The visits of a call: the cursor is saved before the arguments move it.
LEMMA ArgumentWalks ==
  ASSUME TypeInv, GrammarInv, WalkInv, Argument
  PROVE  WalkInv'
<1> DEFINE first == Visit(Current)
           new == <<first>>
<1>1. /\ Doing("argument") /\ Stays /\ register' = register /\ Continue(new)
      /\ currentRegisterCt' = currentRegisterCt - ArgumentSpan(SizeOf(Current))
  BY DEF Argument, MoveTo
<1>2. /\ phase = "generating" /\ todo # <<>> /\ Head(todo).step = "argument"
      /\ Suits(ast, Head(todo)) /\ Current = Head(todo).node
      /\ Current \in Ref(ast) /\ currentRegisterCt \in Int
  BY <1>1, CutVisit
<1>3. IsExpr(ast, Current)
  BY <1>2 DEF Suits
<1>4. /\ first \in Tasks(ast) /\ Suits(ast, first) /\ first.step \notin Awaiting
      /\ ExprTask(ast, first)
  BY <1>2, <1>3, VisitTask
<1> HIDE DEF first
<1>5. new \in Seq(Tasks(ast)) /\ DOMAIN new = 1..1 /\ Len(new) = 1 /\ new[1] = first
  BY <1>4
<1> HIDE DEF new
<1>6. /\ \A i \in DOMAIN new : Suits(ast, new[i])
      /\ \A i \in DOMAIN new : new[i].step \notin Awaiting /\ ExprTask(ast, new[i])
  BY <1>4, <1>5
<1>7. Orderly(ast, new, currentRegisterCt')
  BY <1>6 DEF Orderly
<1>8. ~Quiet(Head(todo)) /\ ~Restores(Head(todo))
  BY <1>2 DEF Quiet, Restores
<1>9. Relays(ast, Head(todo), currentRegisterCt, new, currentRegisterCt')
  BY <1>5, <1>6, <1>8 DEF Relays
<1>10. SizeOf(Current) \in -1..4
  BY <1>2, Sizes
<1>11. currentRegisterCt' \in Int
  BY <1>1, <1>2, <1>10 DEF ArgumentSpan
<1>12. RegistersExist
  BY <1>1, SameRegisters
<1> QED
  BY <1>1, <1>2, <1>5, <1>6, <1>7, <1>9, <1>11, <1>12, WalkStep

LEMMA CallWalks ==
  ASSUME TypeInv, GrammarInv, WalkInv, VisitCall
  PROVE  WalkInv'
<1> DEFINE nodes == ast[Current].kids
           args == [i \in DOMAIN nodes |-> Task("argument", nodes[i], 0)]
           then == Task("call", Current, currentRegisterCt)
           last == <<then>>
           new == args \o last
<1>1. /\ DoingKind("code", {"CALL"}) /\ Stays /\ register' = register
      /\ currentRegisterCt' = AfterArguments /\ Continue(new)
  BY DEF VisitCall, MoveTo, Kid
<1>2. /\ Current \in DOMAIN ast /\ ast[Current].kind = "CALL"
      /\ phase = "generating" /\ todo # <<>>
      /\ Quiet(Head(todo)) /\ ~Restores(Head(todo)) /\ currentRegisterCt \in Int
  BY <1>1, VisitedNode
<1>3. /\ nodes \in Seq(Ref(ast)) /\ \A i \in 1..Len(nodes) : IsExpr(ast, nodes[i])
  <2>1. "CALL" \in ExprKinds
    BY DEF ExprKinds
  <2> QED
    BY <1>2, <2>1, Operands, Children
<1>4. "argument" \in Steps /\ "call" \in Steps /\ Current \in Ref(ast)
  BY <1>2 DEF Steps, Ref
<1> HIDE DEF nodes
<1>5. /\ args \in Seq(Tasks(ast)) /\ Len(args) = Len(nodes)
      /\ \A i \in 1..Len(args) : args[i].step = "argument" /\ args[i].node = nodes[i]
  BY <1>3, <1>4, TasksInTurn
<1>6. /\ then \in Tasks(ast) /\ then.step = "call" /\ then.node = Current
      /\ then.saved = currentRegisterCt
  BY <1>2, <1>4, ThenTask
<1> HIDE DEF args, then
<1>7. last \in Seq(Tasks(ast)) /\ Len(last) = 1 /\ last[1] = then
  BY <1>6
<1> HIDE DEF last
<1>8. /\ new \in Seq(Tasks(ast)) /\ Len(new) = Len(args) + Len(last)
      /\ \A i \in 1..(Len(args) + Len(last)) :
           new[i] = IF i <= Len(args) THEN args[i] ELSE last[i - Len(args)]
  BY <1>5, <1>7, ConcatProperties
<1> HIDE DEF new
<1>9. Len(args) \in Nat /\ Len(new) = Len(args) + 1 /\ DOMAIN new = 1..(Len(args) + 1)
  BY <1>5, <1>7, <1>8, LenProperties
<1>10. ASSUME NEW i \in 1..(Len(args) + 1)
       PROVE  \/ i \in 1..Len(args) /\ new[i] = args[i]
              \/ i = Len(args) + 1 /\ new[i] = then
  <2>1. CASE i <= Len(args)
    BY <1>7, <1>8, <1>9, <2>1
  <2>2. CASE ~(i <= Len(args))
    <3>1. i = Len(args) + 1 /\ i - Len(args) = 1
      BY <1>9, <2>2
    <3> QED
      BY <1>7, <1>8, <2>2, <3>1
  <2> QED
    BY <2>1, <2>2
<1>11. ASSUME NEW i \in 1..(Len(args) + 1)
       PROVE  /\ Suits(ast, new[i]) /\ ExprTask(ast, new[i])
              /\ new[i].step \notin Awaiting
  <2>1. CASE i \in 1..Len(args) /\ new[i] = args[i]
    <3>1. new[i].step = "argument" /\ IsExpr(ast, new[i].node)
      BY <1>3, <1>5, <2>1
    <3> QED
      BY <3>1 DEF Suits, ExprTask, Awaiting
  <2>2. CASE new[i] = then
    BY <1>2, <1>6, <2>2 DEF Suits, ExprTask, Restores, Awaiting
  <2> QED
    BY <1>10, <2>1, <2>2
<1>12. Orderly(ast, new, currentRegisterCt')
  BY <1>9, <1>11 DEF Orderly
<1>13. Returns(new, currentRegisterCt', Len(new) + 1, {currentRegisterCt, FirstRegister})
  <2> DEFINE r == Len(args) + 1
  <2>1. r \in 1..((Len(new) + 1) - 1) /\ r \in 1..(Len(args) + 1) /\ r \notin 1..Len(args)
    BY <1>9
  <2>2. new[r] = then
    BY <1>10, <2>1
  <2>3. \A q \in (r + 1)..((Len(new) + 1) - 1) : FALSE
    BY <1>9
  <2>4. Restores(new[r]) /\ new[r].saved \in {currentRegisterCt, FirstRegister}
    BY <1>6, <2>2 DEF Restores
  <2> HIDE DEF r
  <2> QED
    BY <2>1, <2>3, <2>4 DEF Returns
<1>14. Relays(ast, Head(todo), currentRegisterCt, new, currentRegisterCt')
  BY <1>2, <1>9, <1>11, <1>13 DEF Relays
<1>15. RegistersExist /\ currentRegisterCt' \in Int
  BY <1>1, SameRegisters DEF AfterArguments
<1> QED
  BY <1>1, <1>2, <1>8, <1>9, <1>11, <1>12, <1>14, <1>15, WalkStep

-------------------------------------------------------------------------------
(***************************************************************************)
(* Steps after which no visit is under way, and the loop of the program    *)
(* production.                                                             *)
(***************************************************************************)
LEMMA NoVisits ==
  ASSUME todo' = <<>>, currentRegisterCt' \in Int, DOMAIN register' = Vars,
         \A e \in Vars : register'[e] \in Int
  PROVE  WalkInv'
<1>1. GenTypeOK'
  <2>1. todo' \in Seq([step : Steps, node : Ref(ast'), saved : Int])
    BY EmptySeq
  <2>2. DOMAIN register' \subseteq Ref(ast')
    BY DEF Ref
  <2> QED
    BY <2>1, <2>2 DEF GenTypeOK
<1>2. DOMAIN todo' = {}
  OBVIOUS
<1> QED
  BY <1>1, <1>2 DEF WalkInv, Orderly

LEMMA ThrowWalks ==
  ASSUME Throw
  PROVE  WalkInv'
<1>1. FirstRegister \in Int /\ 0 \in Int
  BY DEF FirstRegister
<1> QED
  BY <1>1, NoVisits DEF Throw

\* A parse that has not ended does nothing of the generators.
LEMMA FrontEndPhases ==
  ASSUME Next
  PROVE  phase \in {"definitions", "body", "main"}
<1>1. CASE Define
  BY <1>1 DEF Define, VarDefinition, BeginBlock, EndBlock, Begin, End, SyntaxError, Parsing
<1>2. CASE ParseExpr
  BY <1>2 DEF ParseExpr, ConstantExpression, LeftPart, UnknownVariable, IndexedLeftPart,
     AliasBinary, Comparison, Unary, UserCall, Aggregate, Read, DigitalRead, AnalogRead, Parsing
<1>3. CASE ParseStm
  BY <1>3 DEF ParseStm, Increment, Assignment, OneArgProcedure, TwoArgProcedure, CastOfNull,
     UnregisteredProcedure, UserCallStm, Switch, CaseStm, Governed, IfElse, DoWhile, Loop,
     Break, Return, Block, FirstOfList, NextOfList, Parsing
<1>4. CASE Check
  BY <1>4 DEF Check, CheckAFF, CheckCondition, CheckConditionFails, CheckInside, CheckNothing,
     Visiting
<1> QED
  BY <1>1, <1>2, <1>3, <1>4 DEF Next

LEMMA FrontEndWalks ==
  ASSUME WalkInv, Next, UNCHANGED genVars
  PROVE  WalkInv'
<1>1. phase \in {"definitions", "body", "main"}
  BY FrontEndPhases
<1>2. /\ todo = <<>> /\ DOMAIN register = Vars /\ currentRegisterCt \in Int
      /\ \A e \in DOMAIN register : register[e] \in Int
  BY <1>1 DEF WalkInv, GenTypeOK
<1> QED
  BY <1>2, NoVisits DEF genVars

LEMMA StatementStarts ==
  ASSUME TypeInv, WalkInv, NextStatement
  PROVE  WalkInv'
<1> DEFINE e == Head(program)
           t1 == Task("data", e, 0)
           t2 == Visit(e)
<1>1. /\ phase = "generating" /\ program # <<>> /\ todo' = <<t1, t2>> /\ phase' = phase
      /\ ast' = ast /\ register' = register /\ currentRegisterCt' = currentRegisterCt
  BY DEF NextStatement
<1>2. e \in Ref(ast)
  <2>1. program \in Seq(DOMAIN ast)
    BY DEF TypeInv, TypeOK
  <2> QED
    BY <1>1, <2>1, HeadTailProperties DEF Ref
<1> HIDE DEF e
<1>3. t1 \in Tasks(ast) /\ t1.step = "data"
  <2>1. "data" \in Steps /\ 0 \in Int
    BY DEF Steps
  <2> QED
    BY <1>2, <2>1, ThenTask
<1>4. t2 \in Tasks(ast) /\ Suits(ast, t2) /\ t2.step \notin Awaiting
  BY <1>2, VisitTask
<1> HIDE DEF t1, t2
<1>5. /\ todo' \in Seq(Tasks(ast)) /\ DOMAIN todo' = 1..2 /\ todo'[1] = t1 /\ todo'[2] = t2
  BY <1>1, <1>3, <1>4
<1>6. \A p \in DOMAIN todo' : Suits(ast, todo'[p]) /\ todo'[p].step \notin Awaiting
  <2>1. Suits(ast, t1) /\ t1.step \notin Awaiting
    BY <1>3 DEF Suits, Awaiting
  <2> QED
    BY <1>4, <1>5, <2>1
<1>7. GenTypeOK'
  BY <1>1, <1>5 DEF WalkInv, GenTypeOK, Tasks
<1> QED
  BY <1>1, <1>6, <1>7 DEF WalkInv, Orderly

LEMMA OutputWalks ==
  ASSUME WalkInv, Output
  PROVE  WalkInv'
<1>1. /\ phase = "generating" /\ phase' = "done" /\ ast' = ast /\ todo = <<>> /\ todo' = todo
      /\ register' = register /\ currentRegisterCt' = currentRegisterCt
  BY DEF Output, genVars
<1>2. DOMAIN todo' = {}
  BY <1>1
<1>3. GenTypeOK'
  BY <1>1 DEF WalkInv, GenTypeOK
<1> QED
  BY <1>1, <1>2, <1>3 DEF WalkInv, Orderly

\* Every action of the generator keeps its invariant.
LEMMA GenerateWalks ==
  ASSUME TypeInv, GrammarInv, WalkInv, Generate
  PROVE  WalkInv'
<1>1. CASE Throw
  BY <1>1, ThrowWalks
<1>2. CASE NextStatement \/ Output
  BY <1>2, StatementStarts, OutputWalks
<1>3. CASE GenerateExpr /\ ~Throw
  <2>1. \/ VisitVAR \/ VisitCONSTANT \/ Pass \/ Increment1 \/ VisitLIST \/ VisitOther
        \/ BinaryCombine \/ Call \/ VisitBinary \/ BinaryRight \/ VisitUnary
        \/ VisitCall \/ Argument
    BY <1>3 DEF GenerateExpr, VisitLeafThrows, BinaryRightThrows, CallThrows,
       VisitUnaryThrows, IncrementThrows, VisitLISTThrows
  <2> QED
    BY <2>1, VisitsReturn, OperationCalls, CallWalks, ArgumentWalks
<1>4. CASE GenerateStm /\ ~Throw
  <2>1. \/ Store \/ EndIf \/ EndWhile \/ EndForeach \/ EndLoop \/ VisitInside
        \/ VisitAFF \/ VisitControl \/ Control \/ Else \/ VisitLOOP
    BY <1>4 DEF GenerateStm, StoreThrows
  <2> QED
    BY <2>1, VisitsReturn, StatementCalls, InsideWalks
<1>5. CASE DataVisit \/ DataVisitThrows
  BY <1>1, <1>5, DataWalks DEF DataVisitThrows
<1> QED
  BY <1>1, <1>2, <1>3, <1>4, <1>5 DEF Generate

-------------------------------------------------------------------------------
(***************************************************************************)
(* The compiler.                                                           *)
(***************************************************************************)
\* The generator leaves what the parse built as it is, but for the statements
\* that are still to be generated, unless it gives up.
LEMMA GenerateReads ==
  ASSUME Generate
  PROVE  \/ Stays
         \/ Abort
         \/ /\ phase = "generating" /\ phase' \in {"generating", "done"}
            /\ program' = program \/ (program # <<>> /\ program' = Tail(program))
            /\ UNCHANGED <<cells, Environment, ast, stack, Checker>>
<1>1. CASE NextStatement \/ Output
  BY <1>1 DEF NextStatement, Output
<1>2. CASE DataVisit \/ DataVisitThrows
  BY <1>2 DEF DataVisit, DataVisitThrows, Throw
<1>3. CASE GenerateExpr
  BY <1>3 DEF GenerateExpr, VisitVAR, VisitCONSTANT, VisitLeafThrows, VisitBinary, BinaryRight,
     BinaryRightThrows, BinaryCombine, VisitCall, Argument, Call, CallThrows, VisitUnary,
     VisitUnaryThrows, Pass, Increment1, IncrementThrows, VisitLIST, VisitLISTThrows,
     VisitOther, Throw
<1>4. CASE GenerateStm
  BY <1>4 DEF GenerateStm, VisitInside, VisitAFF, Store, StoreThrows, VisitControl, Control,
     Else, EndIf, EndWhile, EndForeach, VisitLOOP, EndLoop, Throw
<1> QED
  BY <1>1, <1>2, <1>3, <1>4 DEF Generate

\* What the generator relies on, and what it keeps.
CompilerInv == TypeInv /\ DeclInv /\ GrammarInv /\ WalkInv

LEMMA GenerateKeeps ==
  ASSUME TypeInv, DeclInv, GrammarInv, Generate
  PROVE  TypeInv' /\ DeclInv' /\ GrammarInv'
<1>1. CASE Stays
  BY <1>1, NextTypeInv, SameGrammar DEF Stays, vars, TypeInv, TypeOK, Shape, DeclInv,
     DeclaredType, LeftSide
<1>2. CASE Abort
  BY <1>2, AbortTypeInv, AbortDeclInv, AbortGrammar
<1>3. CASE /\ phase = "generating" /\ phase' \in {"generating", "done"}
           /\ program' = program \/ (program # <<>> /\ program' = Tail(program))
           /\ UNCHANGED <<cells, Environment, ast, stack, Checker>>
  <2>1. program' \in Seq(DOMAIN ast')
    <3>1. program \in Seq(DOMAIN ast) /\ ast' = ast
      BY <1>3 DEF TypeInv, TypeOK
    <3>2. program # <<>> => Tail(program) \in Seq(DOMAIN ast)
      BY <3>1, HeadTailProperties
    <3> QED
      BY <1>3, <3>1, <3>2
  <2>2. TypeOK'
    BY <1>3, <2>1 DEF TypeInv, TypeOK, Environment, Checker, Phases
  <2>3. Shape'
    BY <1>3 DEF TypeInv, Shape
  <2>4. DeclInv'
    BY <1>3 DEF DeclInv, DeclaredType, LeftSide, Environment
  <2>5. GrammarInv'
    BY <1>3, SameGrammar
  <2> QED
    BY <2>2, <2>3, <2>4, <2>5 DEF TypeInv
<1> QED
  BY <1>1, <1>2, <1>3, GenerateReads

\* The inductive invariant of the whole compiler.
LEMMA InitCompilerInv == GenInit => CompilerInv
<1> SUFFICES ASSUME GenInit PROVE CompilerInv
  OBVIOUS
<1>1. TypeInv
  BY InitTypeInv DEF GenInit
<1>2. DeclInv
  BY DEF GenInit, Init, DeclInv, DeclaredType, NullType
<1>3. GrammarInv
  BY DEF GenInit, Init, GrammarInv
<1>4. WalkInv
  <2>1. todo = <<>> /\ currentRegisterCt = FirstRegister /\ register = [v \in Vars |-> 0]
    BY DEF GenInit
  <2>2. DOMAIN todo = {} /\ todo \in Seq([step : Steps, node : Ref(ast), saved : Int])
    BY <2>1, EmptySeq
  <2>3. GenTypeOK
    BY <2>1, <2>2 DEF GenTypeOK, FirstRegister, Ref
  <2> QED
    BY <2>1, <2>2, <2>3 DEF WalkInv, Orderly
<1> QED
  BY <1>1, <1>2, <1>3, <1>4 DEF CompilerInv

LEMMA NextCompilerInv == CompilerInv /\ [CompilerNext]_allVars => CompilerInv'
<1> SUFFICES ASSUME TypeInv, DeclInv, GrammarInv, WalkInv, [CompilerNext]_allVars
             PROVE  TypeInv' /\ DeclInv' /\ GrammarInv' /\ WalkInv'
  BY DEF CompilerInv
<1>1. CASE UNCHANGED allVars
  <2>1. UNCHANGED vars /\ UNCHANGED genVars
    BY <1>1 DEF allVars
  <2>2. TypeInv' /\ DeclInv'
    BY <2>1, NextTypeInv, NextDeclInv
  <2>3. GrammarInv'
    BY <2>1, SameGrammar DEF vars
  <2>4. WalkInv'
    BY <2>1 DEF vars, genVars, WalkInv, GenTypeOK, Orderly
  <2> QED
    BY <2>2, <2>3, <2>4
<1>2. CASE Next /\ UNCHANGED genVars
  <2>1. TypeInv'
    BY <1>2, NextTypeInv
  <2>2. DeclInv'
    BY <1>2, <2>1, NextDeclInv
  <2> QED
    BY <1>2, <2>1, <2>2, NextGrammar, FrontEndWalks
<1>3. CASE Generate
  BY <1>3, GenerateKeeps, GenerateWalks
<1> QED
  BY <1>1, <1>2, <1>3 DEF CompilerNext

LEMMA CompilerInvHolds == CompilerSpec => []CompilerInv
BY InitCompilerInv, NextCompilerInv, PTL DEF CompilerSpec

\* The type invariant of the generator: whatever visits are under way, each is
\* one of an object that exists, every register that was recorded is that of
\* such an object, and nothing is left of a walk that threw.
THEOREM GeneratorTypeCorrect == CompilerSpec => []GenTypeOK
<1>1. CompilerInv => GenTypeOK
  BY DEF CompilerInv, WalkInv
<1> QED
  BY <1>1, CompilerInvHolds, PTL

\* However deep the expression of an assignment or of a condition, and whatever
\* calls, lists and operations it holds, the store and the test find the cursor
\* of CodeGeneratorVisitor on the register where the statement put it.
THEOREM StatementsKeepTheCursor == CompilerSpec => []StatementCursor
<1>1. CompilerInv => StatementCursor
  BY FirstIsOrderly DEF CompilerInv
<1> QED
  BY <1>1, CompilerInvHolds, PTL

\* The cursor with which a right operand is visited is where its left operand
\* leaves room for itself, and no more.
THEOREM OperandsStackUp == CompilerSpec => []OperandsStack
<1>1. CompilerInv => OperandsStack
  BY OrderlyStacks DEF CompilerInv
<1> QED
  BY <1>1, CompilerInvHolds, PTL

-------------------------------------------------------------------------------
(***************************************************************************)
(* What the generators may rely on: the invariants of the checks go on     *)
(* holding while the code of the program is generated.                     *)
(***************************************************************************)
\* CheckTypeVisitor has returned before the generators start.
VisitorsInTurn == phase \in {"generating", "done"} => pending = <<>>

CheckedInv == OwnedInv /\ CondInv /\ ListInv /\ VisitorsInTurn

LEMMA InitCheckedInv == Init => CheckedInv
<1> SUFFICES ASSUME Init PROVE CheckedInv
  OBVIOUS
<1>1. stack = <<>> /\ ast = <<>> /\ program = <<>> /\ passed = {}
  BY DEF Init
<1>2. InLists = {}
  BY <1>1 DEF InLists, Range
<1>3. Through({})
  BY <1>2 DEF Through
<1> QED
  BY <1>1, <1>3, InitOwned DEF CheckedInv, CondInv, ConditionsKnown, ConditionsOwned,
     ConditionsStayBoolean, ListInv, VisitorsInTurn, Init

\* Only the end of the program starts them.
LEMMA NextInTurn ==
  ASSUME TypeInv, DeclInv, DeclInv', Next
  PROVE  VisitorsInTurn'
<1>1. phase \notin {"generating", "done"}
  BY FrontEndPhases
<1>2. CASE phase' = phase
  BY <1>1, <1>2 DEF VisitorsInTurn
<1>3. CASE Abort
  BY <1>3 DEF Abort, VisitorsInTurn
<1>4. CASE Define
  <2>1. phase' \in {"generating", "done"} => End \/ Abort
    BY <1>1, <1>4 DEF Define, VarDefinition, BeginBlock, EndBlock, Begin, SyntaxError
  <2>2. End => pending' = <<>>
    BY DEF End, Checker
  <2> QED
    BY <1>3, <2>1, <2>2 DEF VisitorsInTurn
<1>5. CASE Check
  BY <1>2, <1>3, <1>5 DEF Check, CheckAFF, CheckCondition, CheckConditionFails, CheckInside,
     CheckNothing
<1> QED
  BY <1>2, <1>3, <1>4, <1>5, StepKinds DEF Reduced, Enters

\* The generators take statements off the program and end the compilation; they
\* change no type, no object and nothing that was checked.
LEMMA GenerateKeepsChecks ==
  ASSUME TypeInv, CheckedInv, phase = "generating", phase' # "aborted",
         program' = program \/ (program # <<>> /\ program' = Tail(program)),
         UNCHANGED <<cells, Environment, ast, stack, Checker>>
  PROVE  CheckedInv'
<1>1. /\ cells' = cells /\ varType' = varType /\ ast' = ast /\ stack' = stack
      /\ pending' = pending /\ passed' = passed
  BY DEF Environment, Checker
<1>2. OwnedInv'
  BY <1>1 DEF CheckedInv, OwnedInv, Predefined, OwnedTypes, Exposed, TypeOf, Value, Fresh
<1>3. CondInv'
  BY <1>1 DEF CheckedInv, CondInv, ConditionsKnown, ConditionsOwned, ConditionsStayBoolean,
     Cond, Exposed, TypeOf, Value, Fresh
<1>4. Range(program') \subseteq Range(program)
  <2>1. CASE program' = program
    BY <2>1
  <2>2. CASE program # <<>> /\ program' = Tail(program)
    <3>1. program \in Seq(DOMAIN ast)
      BY DEF TypeInv, TypeOK
    <3>2. /\ Len(program) \in Nat /\ DOMAIN program = 1..Len(program)
          /\ Tail(program) \in Seq(DOMAIN ast) /\ Len(Tail(program)) = Len(program) - 1
          /\ \A i \in 1..Len(Tail(program)) : Tail(program)[i] = program[i + 1]
      BY <2>2, <3>1, HeadTailProperties, LenProperties
    <3>3. DOMAIN Tail(program) = 1..Len(Tail(program))
      BY <3>2, LenProperties
    <3>4. ASSUME NEW i \in DOMAIN Tail(program)
          PROVE  Tail(program)[i] \in Range(program)
      <4>1. i + 1 \in DOMAIN program /\ Tail(program)[i] = program[i + 1]
        BY <3>2, <3>3
      <4> QED
        BY <4>1 DEF Range
    <3> QED
      BY <2>2, <3>4 DEF Range
  <2> QED
    BY <2>1, <2>2
<1>5. InLists' \subseteq InLists
  BY <1>1, <1>4 DEF InLists
<1>6. ASSUME NEW S, Through(S) PROVE Through(S)'
  BY <1>1, <1>5, <1>6 DEF Through
<1>7. ListInv'
  BY <1>1, <1>6 DEF CheckedInv, ListInv
<1> QED
  BY <1>1, <1>2, <1>3, <1>7 DEF CheckedInv, VisitorsInTurn

LEMMA NextCheckedInv ==
  ASSUME CompilerInv, CompilerInv', CheckedInv, [CompilerNext]_allVars
  PROVE  CheckedInv'
<1>0. TypeInv /\ TypeInv' /\ DeclInv /\ DeclInv'
  BY DEF CompilerInv
<1>1. CASE [Next]_vars
  <2>1. OwnedInv'
    BY <1>0, <1>1, NextOwned DEF CheckedInv
  <2>2. CondInv'
    BY <1>0, <1>1, <2>1, NextConditions DEF CheckedInv
  <2>3. ListInv'
    BY <1>0, <1>1, NextLists DEF CheckedInv
  <2>4. VisitorsInTurn'
    BY <1>0, <1>1, NextInTurn DEF CheckedInv, VisitorsInTurn, vars
  <2> QED
    BY <2>1, <2>2, <2>3, <2>4 DEF CheckedInv
<1>2. CASE Abort
  <2>1. VisitorsInTurn'
    BY <1>2 DEF Abort, VisitorsInTurn
  <2> QED
    BY <1>2, <2>1, AbortOwned, AbortConditions, AbortLists DEF CheckedInv
<1>3. CASE /\ phase = "generating" /\ phase' \in {"generating", "done"}
           /\ program' = program \/ (program # <<>> /\ program' = Tail(program))
           /\ UNCHANGED <<cells, Environment, ast, stack, Checker>>
  BY <1>0, <1>3, GenerateKeepsChecks
<1> QED
  BY <1>1, <1>2, <1>3, GenerateReads DEF CompilerNext, allVars, Stays

\* When the generators run, CheckTypeVisitor has returned; every conditional that
\* is left in the program, or that stands in a block or a loop, has passed it; and
\* its condition is still boolean unless it is (typed by) a variable.
THEOREM GeneratedWasChecked ==
  CompilerSpec => [](VisitorsInTurn /\ ListsChecked /\ ConditionsStayBoolean)
<1>1. GenInit => CheckedInv
  BY InitCheckedInv DEF GenInit
<1>2. CompilerInv /\ CompilerInv' /\ CheckedInv /\ [CompilerNext]_allVars => CheckedInv'
  BY NextCheckedInv
<1>3. CheckedInv => VisitorsInTurn /\ ListsChecked /\ ConditionsStayBoolean
  BY ListInvSuffices DEF CheckedInv, CondInv
<1> QED
  BY <1>1, <1>2, <1>3, CompilerInvHolds, PTL DEF CompilerSpec
===============================================================================
