------------------------- MODULE FrontEndChecks_proofs -------------------------
(***************************************************************************)
(* Proofs about what CheckTypeVisitor may rely on: OwnedTypes,             *)
(* ConditionsStayBoolean and ListsChecked hold for every set of variables, *)
(* every language and every bound.                                         *)
(*                                                                         *)
(* All three speak of the stack of semantic values, of the objects created *)
(* and of the casts, so what a reduction does to these is described once,  *)
(* by Reduced, and the invariants are proved from that description.        *)
(***************************************************************************)
EXTENDS FrontEnd_proofs

-------------------------------------------------------------------------------
(***************************************************************************)
(* What a reduction does.                                                  *)
(***************************************************************************)
\* One of the k values of the right-hand side is an expression of this type.
Consumed(k, c) == \E j \in 1..k : stack[j].sort = "expr" /\ c = TypeOf(Value(j))

\* The casts of a reduction reach the types of its right-hand side only.
CellsMove(k) ==
  /\ OriginsKept
  /\ \A c \in 1..Len(cells) : cells'[c] = cells[c] \/ Consumed(k, c)

\* The type of a new expression: none, a new type object, that of a predefined
\* function or that of an operand.
NewType(k, c) ==
  \/ c = NullType
  \/ c = Len(cells) + 1
  \/ c \in 1..ProcedureCell
  \/ Consumed(k, c)

\* A new conditional takes its condition, and a new block its list, from the
\* right-hand side.
NewNode(k, node) ==
  /\ node.kind \in Conditionals =>
       \E j \in 1..k : stack[j].sort = "expr" /\ node.kids[1] = Value(j)
  /\ node.kind = "SEQ" => \E j \in 1..k : stack[j].sort = "list" /\ node.kids = stack[j].nodes
  /\ node.kind = "LOOP" => node.kids # <<>>

\* Only statements are conditionals.
Structured == Conditionals \cup {"SEQ", "LOOP"}

AstGrows ==
  /\ Len(ast') \in Nat /\ Len(ast) <= Len(ast') /\ DOMAIN ast' = 1..Len(ast')
  /\ \A n \in 1..Len(ast) : ast'[n] = ast[n]

StackPops(k) ==
  /\ Len(stack') \in Nat /\ DOMAIN stack' = 1..Len(stack')
  /\ \A i \in 2..Len(stack') :
       k + i - 1 \in (k + 1)..Len(stack) /\ stack'[i] = stack[k + i - 1]

Reduced(k) ==
  /\ UNCHANGED <<phase, varType, pending, passed, program>>
  /\ CellsMove(k) /\ AstGrows /\ StackPops(k)
  /\ \A n \in (Len(ast) + 1)..Len(ast') :
       NewNode(k, ast'[n]) /\ (ast'[n].kind \in Structured => stack'[1].sort # "expr")
  /\ stack'[1].sort # "list"
  /\ stack'[1].sort = "expr" =>
       LET e == stack'[1].nodes[1]
       IN \/ e \in Vars
          \/ e \in (Len(ast) + 1)..Len(ast') /\ NewType(k, ast'[e].type)

\* The objects a production creates come after those there are.
LEMMA Creation ==
  ASSUME TypeInv, NEW S, NEW nodes \in Seq(S), Create(nodes)
  PROVE  /\ AstGrows /\ Len(nodes) \in Nat /\ Len(ast') = Len(ast) + Len(nodes)
         /\ \A n \in (Len(ast) + 1)..Len(ast') :
              n - Len(ast) \in 1..Len(nodes) /\ ast'[n] = nodes[n - Len(ast)]
<1>1. /\ Len(ast) \in Nat /\ Len(nodes) \in Nat
      /\ ast \in Seq(NodeSet(Len(cells), Len(ast)))
  BY TypeOKDef DEF TypeInv
<1> DEFINE T == NodeSet(Len(cells), Len(ast)) \cup S
<1>2. NodeSet(Len(cells), Len(ast)) \subseteq T /\ S \subseteq T
  OBVIOUS
<1> HIDE DEF T
<1>3. ast \in Seq(T) /\ nodes \in Seq(T)
  BY <1>1, <1>2, SeqMonotonic
<1>4. ast' = ast \o nodes
  BY DEF Create
<1>5. /\ ast' \in Seq(T) /\ Len(ast') = Len(ast) + Len(nodes)
      /\ \A n \in 1..(Len(ast) + Len(nodes)) :
           ast'[n] = IF n <= Len(ast) THEN ast[n] ELSE nodes[n - Len(ast)]
  BY <1>3, <1>4, ConcatProperties
<1>6. DOMAIN ast' = 1..Len(ast')
  BY <1>5, LenProperties
<1> QED
  BY <1>1, <1>5, <1>6 DEF AstGrows

\* The values below the right-hand side stay.
LEMMA Popping ==
  ASSUME TypeInv, NEW k \in 0..Len(stack), NEW item, Reduce(k, item)
  PROVE  StackPops(k) /\ Len(stack') = (Len(stack) - k) + 1 /\ stack'[1] = item
<1> DEFINE S == ItemSet(Len(ast)) \cup {item}
<1>1. Len(stack) \in Nat /\ stack \in Seq(ItemSet(Len(ast))) /\ ItemSet(Len(ast)) \subseteq S
  BY TypeOKDef DEF TypeInv
<1>2. item \in S
  OBVIOUS
<1> HIDE DEF S
<1>3. stack \in Seq(S)
  BY <1>1, SeqMonotonic
<1>4. /\ Len(stack') = (Len(stack) - k) + 1
      /\ DOMAIN stack' = 1..Len(stack')
      /\ stack'[1] = item
      /\ \A i \in 2..Len(stack') : k + i - 1 \in 1..Len(stack) /\ stack'[i] = stack[k + i - 1]
  BY <1>2, <1>3, ReducedStack
<1>5. Len(stack') \in Nat /\ \A i \in 2..Len(stack') : k + i - 1 \in (k + 1)..Len(stack)
  BY <1>1, <1>4
<1> QED
  BY <1>4, <1>5 DEF StackPops

\* A production of an expression that creates these objects.
LEMMA ExprReduces ==
  ASSUME TypeInv, NEW k \in 0..Len(stack), NEW S, NEW nodes \in Seq(S), NEW e,
         ToExpr(k, nodes, e), CellsMove(k),
         \A x \in S : x.kind \notin Structured,
         \/ e \in Vars
         \/ e = Len(ast) + Len(nodes) /\ Len(nodes) # 0 /\ NewType(k, nodes[Len(nodes)].type)
  PROVE  Reduced(k)
<1>1. Create(nodes) /\ Reduce(k, Item("expr", <<e>>))
  BY DEF ToExpr
<1>2. UNCHANGED <<phase, varType, pending, passed, program>>
  BY DEF ToExpr, Environment, Checker
<1>3. /\ AstGrows /\ Len(nodes) \in Nat /\ Len(ast') = Len(ast) + Len(nodes)
      /\ \A n \in (Len(ast) + 1)..Len(ast') :
           n - Len(ast) \in 1..Len(nodes) /\ ast'[n] = nodes[n - Len(ast)]
  BY <1>1, Creation
<1>4. StackPops(k) /\ stack'[1] = Item("expr", <<e>>)
  BY <1>1, Popping
<1>5. stack'[1].sort = "expr" /\ stack'[1].nodes[1] = e
  BY <1>4 DEF Item
<1>6. ASSUME NEW n \in (Len(ast) + 1)..Len(ast')
      PROVE  NewNode(k, ast'[n]) /\ ast'[n].kind \notin Structured
  <2>1. ast'[n] \in S
    BY <1>3, ElementOfSeq
  <2> QED
    BY <2>1 DEF NewNode, Structured
<1>7. \/ e \in Vars
      \/ e \in (Len(ast) + 1)..Len(ast') /\ NewType(k, ast'[e].type)
  <2>1. CASE e \in Vars
    BY <2>1
  <2>2. CASE e \notin Vars
    <3>1. Len(ast) \in Nat
      BY TypeOKDef DEF TypeInv
    <3>2. e \in (Len(ast) + 1)..Len(ast') /\ e - Len(ast) = Len(nodes)
      BY <1>3, <2>2, <3>1
    <3> QED
      BY <1>3, <2>2, <3>2
  <2> QED
    BY <2>1, <2>2
<1> QED
  BY <1>2, <1>3, <1>4, <1>5, <1>6, <1>7 DEF Reduced

\* A production of a statement or of a case.
LEMMA StmReduces ==
  ASSUME TypeInv, NEW k \in 0..Len(stack), NEW S, NEW nodes \in Seq(S), NEW item,
         item.sort \in {"stm", "case"}, Create(nodes), Reduce(k, item),
         UNCHANGED <<phase, Environment, Checker, program>>, CellsMove(k),
         \A x \in S : NewNode(k, x)
  PROVE  Reduced(k)
<1>1. UNCHANGED <<phase, varType, pending, passed, program>>
  BY DEF Environment, Checker
<1>2. /\ AstGrows
      /\ \A n \in (Len(ast) + 1)..Len(ast') :
           n - Len(ast) \in 1..Len(nodes) /\ ast'[n] = nodes[n - Len(ast)]
  BY Creation
<1>3. StackPops(k) /\ stack'[1] = item
  BY Popping
<1>4. ASSUME NEW n \in (Len(ast) + 1)..Len(ast') PROVE NewNode(k, ast'[n])
  <2>1. ast'[n] \in S
    BY <1>2, ElementOfSeq
  <2> QED
    BY <2>1
<1> QED
  BY <1>1, <1>2, <1>3, <1>4 DEF Reduced

-------------------------------------------------------------------------------
(***************************************************************************)
(* The type objects each kind of reduction writes.                         *)
(***************************************************************************)
\* Most reductions write none.
LEMMA SameCells ==
  ASSUME TypeInv, NEW k, cells' = cells
  PROVE  CellsMove(k)
<1>1. Len(cells) \in Nat
  BY TypeOKDef DEF TypeInv
<1> QED
  BY <1>1 DEF CellsMove, OriginsKept

\* new TypeTree(tag) comes after the type objects there are.
LEMMA AllocatedCells ==
  ASSUME TypeInv, NEW k, NEW tag, NEW origin, Allocate(tag, origin)
  PROVE  CellsMove(k)
<1>1. cells \in Seq(Cell) /\ Len(cells) \in Nat
  BY TypeOKDef DEF TypeInv, TypeOK
<1> DEFINE new == NewCell(tag, origin)
           S == Cell \cup {new}
<1>2. Cell \subseteq S /\ new \in S
  OBVIOUS
<1>3. cells' = Append(cells, new)
  BY DEF Allocate
<1> HIDE DEF S, new
<1>4. cells \in Seq(S)
  BY <1>1, <1>2, SeqMonotonic
<1>5. \A c \in 1..Len(cells) : cells'[c] = cells[c]
  BY <1>2, <1>3, <1>4, AppendProperties
<1> QED
  BY <1>5, AllocateOrigins DEF CellsMove

\* TypeTree.cast() writes one type object.
LEMMA CastElsewhere ==
  ASSUME NEW cs \in Seq(Cell), NEW c, NEW tag, NEW d \in 1..Len(cs), d # c
  PROVE  Cast(cs, c, tag)[d] = cs[d]
<1>1. d \in DOMAIN cs
  BY LenProperties
<1> QED
  BY <1>1 DEF Cast

\* A cast of one argument.
LEMMA CastCells ==
  ASSUME TypeInv, NEW k \in Nat, NEW j \in 1..k, stack[j].sort = "expr", NEW tag,
         cells' = Cast(cells, TypeOf(Value(j)), tag)
  PROVE  CellsMove(k)
<1>1. cells \in Seq(Cell)
  BY DEF TypeInv, TypeOK
<1>2. ASSUME NEW c \in 1..Len(cells), cells'[c] # cells[c] PROVE Consumed(k, c)
  BY <1>1, <1>2, CastElsewhere DEF Consumed
<1> QED
  BY <1>2, OneCast DEF CellsMove

\* The casts of both arguments.
LEMMA TwoCastsCells ==
  ASSUME TypeInv, Holds(1, "expr"), Holds(2, "expr"),
         TypeOf(Value(2)) # NullType,
         NEW t1 \in Tag, NEW t2,
         cells' = Cast(Cast(cells, TypeOf(Value(2)), t1), TypeOf(Value(1)), t2)
  PROVE  CellsMove(2)
<1> DEFINE cs == Cast(cells, TypeOf(Value(2)), t1)
<1>1. cells \in Seq(Cell) /\ DOMAIN cells = 1..Len(cells) /\ Len(cells) \in Nat
  BY TypeOKDef DEF TypeInv, TypeOK
<1>2. cs \in Seq(Cell) /\ Len(cs) = Len(cells)
  <2>1. TypeOf(Value(2)) \in NullType..Len(cells)
    BY HeldValue
  <2> QED
    BY <1>1, <2>1, CastTypes
<1>3. /\ DOMAIN cs = DOMAIN cells
      /\ \A d \in DOMAIN cells : cs[d].origin = cells[d].origin
      /\ \A d \in 1..Len(cells) : d # TypeOf(Value(2)) => cs[d] = cells[d]
  BY <1>1, CastOrigins, CastElsewhere
<1>4. cells' = Cast(cs, TypeOf(Value(1)), t2)
  OBVIOUS
<1> HIDE DEF cs
<1>5. /\ DOMAIN cells' = DOMAIN cs
      /\ \A d \in DOMAIN cs : cells'[d].origin = cs[d].origin
      /\ \A d \in 1..Len(cs) : d # TypeOf(Value(1)) => cells'[d] = cs[d]
  BY <1>2, <1>4, CastOrigins, CastElsewhere
<1>6. Len(cells') = Len(cells)
  BY <1>1, <1>3, <1>5
<1>7. OriginsKept
  BY <1>1, <1>3, <1>5, <1>6 DEF OriginsKept
<1>8. ASSUME NEW c \in 1..Len(cells), cells'[c] # cells[c] PROVE Consumed(2, c)
  <2>1. c = TypeOf(Value(1)) \/ c = TypeOf(Value(2))
    BY <1>2, <1>3, <1>5, <1>8
  <2> QED
    BY <2>1 DEF Consumed, Holds
<1> QED
  BY <1>7, <1>8 DEF CellsMove

-------------------------------------------------------------------------------
\* A production of an expression that creates one object.
LEMMA OneExprReduces ==
  ASSUME TypeInv, NEW k \in 0..Len(stack), NEW node, ToExpr(k, <<node>>, Top),
         CellsMove(k), node.kind \notin Structured, NewType(k, node.type)
  PROVE  Reduced(k)
<1> DEFINE S == {node}
           nodes == <<node>>
<1>1. nodes \in Seq(S) /\ Len(nodes) = 1 /\ nodes[1] = node
  OBVIOUS
<1>2. \A x \in S : x.kind \notin Structured
  OBVIOUS
<1>3. Top = Len(ast) + Len(nodes)
  BY <1>1 DEF Top
<1> HIDE DEF S, nodes
<1>4. ToExpr(k, nodes, Top)
  BY DEF nodes
<1>5. Len(nodes) # 0 /\ NewType(k, nodes[Len(nodes)].type)
  BY <1>1
<1> DEFINE e == Top
<1>6. ToExpr(k, nodes, e) /\ e = Len(ast) + Len(nodes) /\ nodes \in Seq(S)
  BY <1>1, <1>3, <1>4
<1> HIDE DEF e
<1> QED
  BY <1>2, <1>5, <1>6, ExprReduces

\* Every production of left_part, expression and ATmega328p_expression.
LEMMA ParseExprReduces ==
  ASSUME TypeInv, ParseExpr, phase' # "aborted"
  PROVE  \E k \in 0..Len(stack) : Reduced(k)
<1>0. Len(cells) \in Nat /\ Len(ast) \in Nat /\ Len(stack) \in Nat
  BY TypeOKDef DEF TypeInv
<1>a. 0 \in 0..Len(stack)
  BY <1>0
<1>b. Holds(1, "expr") => 1 \in 0..Len(stack) /\ Consumed(1, TypeOf(Value(1)))
  BY <1>0 DEF Holds, Consumed
<1>c. Holds(1, "expr") /\ Holds(2, "expr") =>
        2 \in 0..Len(stack) /\ Consumed(2, TypeOf(Value(2)))
  BY <1>0 DEF Holds, Consumed
<1>d. \A k : NewType(k, Len(cells) + 1) /\ NewType(k, NullType)
  BY DEF NewType
<1>1. ASSUME NEW l \in Literals, ConstantExpression(l) PROVE Reduced(0)
  <2> DEFINE node == Node("CONSTANT", l, Len(cells) + 1, <<>>)
  <2>1. Allocate(literalTag[l], "fresh") /\ ToExpr(0, <<node>>, Top)
    BY <1>1 DEF ConstantExpression
  <2>2. node.kind \notin Structured /\ node.type = Len(cells) + 1
    BY DEF Node, Structured, Conditionals
  <2> HIDE DEF node
  <2> QED
    BY <1>a, <1>d, <2>1, <2>2, AllocatedCells, OneExprReduces
<1>2. ASSUME NEW v \in Vars, LeftPart(v) PROVE Reduced(0)
  <2>1. ToExpr(0, <<>>, v) /\ cells' = cells
    BY <1>2 DEF LeftPart
  <2> DEFINE S == {}
  <2>2. <<>> \in Seq(S) /\ \A x \in S : x.kind \notin Structured
    OBVIOUS
  <2> HIDE DEF S
  <2> QED
    BY <1>a, <2>1, <2>2, SameCells, ExprReduces
<1>3. ASSUME NEW v \in Vars PROVE ~UnknownVariable(v)
  BY DEF UnknownVariable, Abort
<1>4. ASSUME NEW v \in Vars, IndexedLeftPart(v) PROVE Holds(1, "expr") /\ Reduced(1)
  <2> DEFINE node == Node("GET", "GET", NullType, <<Value(1), v>>)
  <2>1. Holds(1, "expr") /\ ToExpr(1, <<node>>, Top) /\ cells' = cells
    BY <1>4 DEF IndexedLeftPart
  <2>2. node.kind \notin Structured /\ node.type = NullType
    BY DEF Node, Structured, Conditionals
  <2> HIDE DEF node
  <2> QED
    BY <1>b, <1>d, <2>1, <2>2, SameCells, OneExprReduces
<1>5. ASSUME NEW op, AliasBinary(op)
      PROVE  Holds(1, "expr") /\ Holds(2, "expr") /\ Reduced(2)
  <2> DEFINE node == Node("BINARY", op, TypeOf(Value(2)), <<Value(2), Value(1)>>)
  <2>1. Holds(1, "expr") /\ Holds(2, "expr") /\ ToExpr(2, <<node>>, Top) /\ cells' = cells
    BY <1>5 DEF AliasBinary
  <2>2. node.kind \notin Structured /\ node.type = TypeOf(Value(2))
    BY DEF Node, Structured, Conditionals
  <2> HIDE DEF node
  <2>3. NewType(2, node.type)
    BY <1>c, <2>1, <2>2 DEF NewType
  <2> QED
    BY <1>c, <2>1, <2>2, <2>3, SameCells, OneExprReduces
<1>6. ASSUME NEW op, Comparison(op)
      PROVE  Holds(1, "expr") /\ Holds(2, "expr") /\ Reduced(2)
  <2> DEFINE node == Node("BINARY", op, Len(cells) + 1, <<Value(2), Value(1)>>)
  <2>1. /\ Holds(1, "expr") /\ Holds(2, "expr") /\ ToExpr(2, <<node>>, Top)
        /\ Allocate("BOOLEAN", "fresh")
    BY <1>6 DEF Comparison
  <2>2. node.kind \notin Structured /\ node.type = Len(cells) + 1
    BY DEF Node, Structured, Conditionals
  <2> HIDE DEF node
  <2> QED
    BY <1>c, <1>d, <2>1, <2>2, AllocatedCells, OneExprReduces
<1>7. ASSUME NEW op, Unary(op) PROVE Holds(1, "expr") /\ Reduced(1)
  <2> DEFINE node == Node("UNARY", op, TypeOf(Value(1)), <<Value(1)>>)
  <2>1. Holds(1, "expr") /\ ToExpr(1, <<node>>, Top) /\ cells' = cells
    BY <1>7 DEF Unary
  <2>2. node.kind \notin Structured /\ node.type = TypeOf(Value(1))
    BY DEF Node, Structured, Conditionals
  <2> HIDE DEF node
  <2>3. NewType(1, node.type)
    BY <1>b, <2>1, <2>2 DEF NewType
  <2> QED
    BY <1>b, <2>1, <2>2, <2>3, SameCells, OneExprReduces
<1>8. ASSUME NEW n \in 1..MaxArgs, UserCall(n) PROVE n \in 0..Len(stack) /\ Reduced(n)
  <2> DEFINE node == Node("CALL", "user", NullType, Listed(n))
  <2>1. HoldsList(n) /\ ToExpr(n, <<node>>, Top) /\ cells' = cells
    BY <1>8 DEF UserCall
  <2>2. node.kind \notin Structured /\ node.type = NullType
    BY DEF Node, Structured, Conditionals
  <2> HIDE DEF node
  <2>3. n \in 0..Len(stack)
    BY <2>1, ListedValues
  <2> QED
    BY <1>d, <2>1, <2>2, <2>3, SameCells, OneExprReduces
<1>9. ASSUME NEW kind \in {"EXPRLIST", "EXPRSET", "EXPRRANGE"}, NEW n \in 0..Len(stack),
             Aggregate(kind, n)
      PROVE  Reduced(n)
  <2> DEFINE node == Node(kind, kind, Len(cells) + 1, Listed(n))
             tag == IF kind = "EXPRSET" THEN "SET" ELSE "FREE"
  <2>1. ToExpr(n, <<node>>, Top) /\ Allocate(tag, "fresh")
    BY <1>9 DEF Aggregate
  <2>2. node.kind \notin Structured /\ node.type = Len(cells) + 1
    BY DEF Node, Structured, Conditionals
  <2> HIDE DEF node, tag
  <2> QED
    BY <1>d, <2>1, <2>2, AllocatedCells, OneExprReduces
<1>10. ASSUME NEW kind, NEW n, Aggregate(kind, n) PROVE HoldsList(n)
  BY <1>10 DEF Aggregate
<1>11. HoldsList(2) => 2 \in 0..Len(stack)
  BY <1>c DEF HoldsList
<1>12. ASSUME NEW f \in Readers, Read(f) PROVE Reduced(0)
  <2> DEFINE node == Node("CALL", f, functionCell[f], <<>>)
  <2>1. ToExpr(0, <<node>>, Top) /\ cells' = cells
    BY <1>12 DEF Read
  <2>2. node.kind \notin Structured /\ node.type \in 1..ProcedureCell
    BY DEF Node, Structured, Conditionals, functionCell, Readers, ProcedureCell
  <2> HIDE DEF node
  <2>3. NewType(0, node.type)
    BY <2>2 DEF NewType
  <2> QED
    BY <1>a, <2>1, <2>2, <2>3, SameCells, OneExprReduces
<1>13. ASSUME DigitalRead PROVE Holds(1, "expr") /\ Reduced(1)
  <2> DEFINE n1 == Node("CONSTANT", "EXPR", Len(cells) + 1, <<Value(1)>>)
             n2 == Node("UNARY", "ARG", Len(cells) + 1, <<Top>>)
             n3 == Node("CALL", "digitalRead", functionCell.digitalRead, <<Top + 1>>)
  <2>1. /\ Holds(1, "expr") /\ Allocate("UINT8_T", "fresh")
        /\ ToExpr(1, <<n1, n2, n3>>, Top + 2)
    BY <1>13 DEF DigitalRead
  <2>2. /\ n1.kind \notin Structured /\ n2.kind \notin Structured
        /\ n3.kind \notin Structured /\ n3.type \in 1..ProcedureCell
    BY DEF Node, Structured, Conditionals, functionCell, ProcedureCell
  <2> HIDE DEF n1, n2, n3
  <2> DEFINE S == {n1, n2, n3}
             nodes == <<n1, n2, n3>>
  <2>3. nodes \in Seq(S) /\ Len(nodes) = 3 /\ nodes[3] = n3
    OBVIOUS
  <2>4. \A x \in S : x.kind \notin Structured
    BY <2>2
  <2>5. ToExpr(1, nodes, Top + 2)
    BY <2>1
  <2> HIDE DEF S, nodes
  <2>6. /\ Top + 2 = Len(ast) + Len(nodes) /\ Len(nodes) # 0
        /\ NewType(1, nodes[Len(nodes)].type)
    BY <1>0, <2>2, <2>3 DEF Top, NewType
  <2>7. 1 \in 0..Len(stack) /\ CellsMove(1)
    BY <1>b, <2>1, AllocatedCells
  <2> DEFINE e == Top + 2
  <2> HIDE DEF e
  <2>8. ToExpr(1, nodes, e) /\ e = Len(ast) + Len(nodes)
    BY <2>5, <2>6 DEF e
  <2> QED
    BY <2>1, <2>3, <2>4, <2>6, <2>7, <2>8, ExprReduces
<1>14. ASSUME AnalogRead PROVE Holds(1, "expr") /\ Reduced(1)
  <2> DEFINE n1 == Node("UNARY", "ARG", TypeOf(Value(1)), <<Value(1)>>)
             n2 == Node("CALL", "analogRead", functionCell.analogRead, <<Top>>)
  <2>1. /\ Holds(1, "expr") /\ cells' = Cast(cells, TypeOf(Value(1)), "PIN")
        /\ ToExpr(1, <<n1, n2>>, Top + 1)
    BY <1>14 DEF AnalogRead
  <2>2. /\ n1.kind \notin Structured /\ n2.kind \notin Structured
        /\ n2.type \in 1..ProcedureCell
    BY DEF Node, Structured, Conditionals, functionCell, ProcedureCell
  <2> HIDE DEF n1, n2
  <2> DEFINE S == {n1, n2}
             nodes == <<n1, n2>>
  <2>3. nodes \in Seq(S) /\ Len(nodes) = 2 /\ nodes[2] = n2
    OBVIOUS
  <2>4. \A x \in S : x.kind \notin Structured
    BY <2>2
  <2>5. ToExpr(1, nodes, Top + 1)
    BY <2>1
  <2> HIDE DEF S, nodes
  <2>6. /\ Top + 1 = Len(ast) + Len(nodes) /\ Len(nodes) # 0
        /\ NewType(1, nodes[Len(nodes)].type)
    BY <1>0, <2>2, <2>3 DEF Top, NewType
  <2>7. 1 \in 0..Len(stack) /\ CellsMove(1)
    BY <1>b, <2>1, CastCells DEF Holds
  <2> DEFINE e == Top + 1
  <2> HIDE DEF e
  <2>8. ToExpr(1, nodes, e) /\ e = Len(ast) + Len(nodes)
    BY <2>5, <2>6 DEF e
  <2> QED
    BY <2>1, <2>3, <2>4, <2>6, <2>7, <2>8, ExprReduces
<1> QED
  BY <1>a, <1>b, <1>c, <1>1, <1>2, <1>3, <1>4, <1>5, <1>6, <1>7, <1>8, <1>9, <1>10, <1>11,
     <1>12, <1>13, <1>14, ListedValues DEF ParseExpr

\* A production of a statement that creates these objects.
LEMMA StmsReduce ==
  ASSUME TypeInv, NEW k \in 0..Len(stack), NEW S, NEW nodes \in Seq(S), ToStm(k, nodes),
         CellsMove(k), \A x \in S : NewNode(k, x)
  PROVE  Reduced(k)
<1> DEFINE item == Item("stm", <<Len(ast) + Len(nodes)>>)
<1>1. /\ Create(nodes) /\ Reduce(k, item) /\ item.sort \in {"stm", "case"}
      /\ UNCHANGED <<phase, Environment, Checker, program>>
  BY DEF ToStm, Item
<1> HIDE DEF item
<1> QED
  BY <1>1, StmReduces

\* The same for one object.
LEMMA OneStmReduces ==
  ASSUME TypeInv, NEW k \in 0..Len(stack), NEW node, ToStm(k, <<node>>),
         cells' = cells, NewNode(k, node)
  PROVE  Reduced(k)
<1> DEFINE S == {node}
           nodes == <<node>>
<1>1. nodes \in Seq(S) /\ ToStm(k, nodes) /\ \A x \in S : NewNode(k, x)
  OBVIOUS
<1> HIDE DEF S, nodes
<1> QED
  BY <1>1, SameCells, StmsReduce

\* Every production of stm and case.
LEMMA ParseStmReduces ==
  ASSUME TypeInv, ParseStm, ~FirstOfList, ~NextOfList, phase' # "aborted"
  PROVE  \E k \in 0..Len(stack) : Reduced(k)
<1>0. Len(cells) \in Nat /\ Len(ast) \in Nat /\ Len(stack) \in Nat
  BY TypeOKDef DEF TypeInv
<1>a. ASSUME NEW k \in Nat \ {0}, NEW sort, Holds(k, sort) PROVE k \in 0..Len(stack)
  BY <1>0, <1>a DEF Holds
<1>b. ASSUME NEW kind \in {"AFF", "EXPR", "UNARY", "CALL", "FOREACH", "BREAK", "RETURN",
                           "CASE", "SWITCH"},
             NEW op, NEW type, NEW kids, NEW k
      PROVE  NewNode(k, Node(kind, op, type, kids))
  BY DEF NewNode, Node, Conditionals
<1>1. ASSUME NEW op, Increment(op) PROVE 1 \in 0..Len(stack) /\ Reduced(1)
  <2> DEFINE n1 == Node("UNARY", op, TypeOf(Value(1)), <<Value(1)>>)
             n2 == Node("EXPR", "EXPR", NullType, <<Top>>)
  <2>1. Holds(1, "expr") /\ ToStm(1, <<n1, n2>>) /\ cells' = cells
    BY <1>1 DEF Increment
  <2>2. NewNode(1, n1) /\ NewNode(1, n2)
    BY <1>b
  <2> HIDE DEF n1, n2
  <2> DEFINE S == {n1, n2}
             nodes == <<n1, n2>>
  <2>3. nodes \in Seq(S) /\ ToStm(1, nodes) /\ \A x \in S : NewNode(1, x)
    BY <2>1, <2>2
  <2> HIDE DEF S, nodes
  <2> QED
    BY <1>a, <2>1, <2>3, SameCells, StmsReduce
<1>2. ASSUME NEW p, OneArgProcedure(p) PROVE 1 \in 0..Len(stack) /\ Reduced(1)
  <2> DEFINE n1 == Node("UNARY", "ARG", TypeOf(Value(1)), <<Value(1)>>)
             n2 == Node("CALL", p, ProcedureCell, <<Top>>)
             n3 == Node("EXPR", "EXPR", NullType, <<Top + 1>>)
  <2>1. /\ Holds(1, "expr") /\ ToStm(1, <<n1, n2, n3>>)
        /\ cells' = Cast(cells, TypeOf(Value(1)), argCasts[p][1])
    BY <1>2 DEF OneArgProcedure
  <2>2. NewNode(1, n1) /\ NewNode(1, n2) /\ NewNode(1, n3)
    BY <1>b
  <2> HIDE DEF n1, n2, n3
  <2> DEFINE S == {n1, n2, n3}
             nodes == <<n1, n2, n3>>
  <2>3. nodes \in Seq(S) /\ ToStm(1, nodes) /\ \A x \in S : NewNode(1, x)
    BY <2>1, <2>2
  <2> HIDE DEF S, nodes
  <2>4. CellsMove(1)
    BY <2>1, CastCells DEF Holds
  <2> QED
    BY <1>a, <2>1, <2>3, <2>4, StmsReduce
<1>3. ASSUME NEW p \in TwoArgProcs, TwoArgProcedure(p) PROVE 2 \in 0..Len(stack) /\ Reduced(2)
  <2> DEFINE n1 == Node("UNARY", "ARG", TypeOf(Value(2)), <<Value(2)>>)
             n2 == Node("UNARY", "ARG", TypeOf(Value(1)), <<Value(1)>>)
             n3 == Node("CALL", p, ProcedureCell, <<Top, Top + 1>>)
             n4 == Node("EXPR", "EXPR", NullType, <<Top + 2>>)
  <2>1. /\ Holds(1, "expr") /\ Holds(2, "expr") /\ ToStm(2, <<n1, n2, n3, n4>>)
        /\ TypeOf(Value(2)) # NullType
        /\ cells' = Cast(Cast(cells, TypeOf(Value(2)), argCasts[p][1]),
                         TypeOf(Value(1)), argCasts[p][2])
    BY <1>3 DEF TwoArgProcedure
  <2>2. NewNode(2, n1) /\ NewNode(2, n2) /\ NewNode(2, n3) /\ NewNode(2, n4)
    BY <1>b
  <2> HIDE DEF n1, n2, n3, n4
  <2> DEFINE S == {n1, n2, n3, n4}
             nodes == <<n1, n2, n3, n4>>
  <2>3. nodes \in Seq(S) /\ ToStm(2, nodes) /\ \A x \in S : NewNode(2, x)
    BY <2>1, <2>2
  <2> HIDE DEF S, nodes
  <2>4. argCasts[p][1] \in Tag
    BY DEF TwoArgProcs, argCasts, Tag, sizeMap
  <2>5. CellsMove(2)
    BY <2>1, <2>4, TwoCastsCells
  <2> QED
    BY <1>a, <2>1, <2>3, <2>5, StmsReduce
<1>4. ASSUME NEW p PROVE ~CastOfNull(p) /\ ~UnregisteredProcedure
  BY DEF CastOfNull, UnregisteredProcedure, Abort
<1>5. ASSUME NEW n \in 1..MaxArgs, UserCallStm(n) PROVE n \in 0..Len(stack) /\ Reduced(n)
  <2> DEFINE n1 == Node("CALL", "user", NullType, Listed(n))
             n2 == Node("EXPR", "EXPR", NullType, <<Top>>)
  <2>1. HoldsList(n) /\ ToStm(n, <<n1, n2>>) /\ cells' = cells
    BY <1>5 DEF UserCallStm
  <2>2. NewNode(n, n1) /\ NewNode(n, n2)
    BY <1>b
  <2> HIDE DEF n1, n2
  <2> DEFINE S == {n1, n2}
             nodes == <<n1, n2>>
  <2>3. nodes \in Seq(S) /\ ToStm(n, nodes) /\ \A x \in S : NewNode(n, x)
    BY <2>1, <2>2
  <2> HIDE DEF S, nodes
  <2>4. n \in 0..Len(stack)
    BY <2>1, ListedValues
  <2> QED
    BY <2>1, <2>3, <2>4, SameCells, StmsReduce
<1>6. ASSUME NEW n \in 1..MaxArgs, Switch(n) PROVE n + 1 \in 0..Len(stack) /\ Reduced(n + 1)
  <2> DEFINE node == Node("SWITCH", "SWITCH", NullType, <<Value(n + 1)>> \o Listed(n))
  <2>1. Holds(n + 1, "expr") /\ ToStm(n + 1, <<node>>) /\ cells' = cells
    BY <1>6 DEF Switch
  <2>2. NewNode(n + 1, node)
    BY <1>b
  <2> HIDE DEF node
  <2>3. n + 1 \in Nat \ {0}
    BY BoundAssumption
  <2>4. n + 1 \in 0..Len(stack)
    BY <1>a, <2>1, <2>3
  <2> QED
    BY <2>1, <2>2, <2>4, OneStmReduces
<1>7. ASSUME CaseStm PROVE 2 \in 0..Len(stack) /\ Reduced(2)
  <2> DEFINE node == Node("CASE", "CASE", NullType, <<Value(2), Value(1)>>)
             item == Item("case", <<Top>>)
  <2>1. /\ Holds(2, "expr") /\ Create(<<node>>) /\ Reduce(2, item)
        /\ UNCHANGED <<phase, Environment, Checker, program>> /\ cells' = cells
    BY <1>7 DEF CaseStm
  <2>2. NewNode(2, node) /\ item.sort \in {"stm", "case"}
    BY <1>b DEF Item
  <2> HIDE DEF node, item
  <2> DEFINE S == {node}
             nodes == <<node>>
  <2>3. nodes \in Seq(S) /\ Create(nodes) /\ \A x \in S : NewNode(2, x)
    BY <2>1, <2>2
  <2> HIDE DEF S, nodes
  <2>4. 2 \in 0..Len(stack)
    BY <1>a, <2>1
  <2> QED
    BY <2>1, <2>2, <2>3, <2>4, SameCells, StmReduces
<1>8. ASSUME NEW kind \in {"IF", "WHILE", "FOREACH"}, Governed(kind)
      PROVE  2 \in 0..Len(stack) /\ Reduced(2)
  <2> DEFINE node == Node(kind, kind, NullType, <<Value(2), Value(1)>>)
  <2>1. Holds(2, "expr") /\ ToStm(2, <<node>>) /\ cells' = cells
    BY <1>8 DEF Governed
  <2>2. NewNode(2, node)
    BY <2>1 DEF NewNode, Node, Holds
  <2> HIDE DEF node
  <2> QED
    BY <1>a, <2>1, <2>2, OneStmReduces
<1>9. ASSUME IfElse PROVE 3 \in 0..Len(stack) /\ Reduced(3)
  <2> DEFINE node == Node("IF", "ELSE", NullType, <<Value(3), Value(2), Value(1)>>)
  <2>1. Holds(3, "expr") /\ ToStm(3, <<node>>) /\ cells' = cells
    BY <1>9 DEF IfElse
  <2>2. NewNode(3, node)
    BY <2>1 DEF NewNode, Node, Holds
  <2> HIDE DEF node
  <2> QED
    BY <1>a, <2>1, <2>2, OneStmReduces
<1>10. ASSUME DoWhile PROVE 2 \in 0..Len(stack) /\ Reduced(2)
  <2> DEFINE node == Node("DO", "DO", NullType, <<Value(1), Value(2)>>)
  <2>1. Holds(1, "expr") /\ Holds(2, "stm") /\ ToStm(2, <<node>>) /\ cells' = cells
    BY <1>10 DEF DoWhile
  <2>2. NewNode(2, node)
    BY <2>1 DEF NewNode, Node, Holds
  <2> HIDE DEF node
  <2> QED
    BY <1>a, <2>1, <2>2, OneStmReduces
<1>11. ASSUME Loop PROVE 1 \in 0..Len(stack) /\ Reduced(1)
  <2> DEFINE node == Node("LOOP", "LOOP", NullType, <<Value(1)>>)
  <2>1. Holds(1, "stm") /\ ToStm(1, <<node>>) /\ cells' = cells
    BY <1>11 DEF Loop
  <2>2. NewNode(1, node)
    BY DEF NewNode, Node, Conditionals
  <2> HIDE DEF node
  <2> QED
    BY <1>a, <2>1, <2>2, OneStmReduces
<1>12. ASSUME Block PROVE 1 \in 0..Len(stack) /\ Reduced(1)
  <2> DEFINE node == Node("SEQ", "SEQ", NullType, stack[1].nodes)
  <2>1. Holds(1, "list") /\ ToStm(1, <<node>>) /\ cells' = cells
    BY <1>12 DEF Block
  <2>2. NewNode(1, node)
    BY <2>1 DEF NewNode, Node, Conditionals, Holds
  <2> HIDE DEF node
  <2> QED
    BY <1>a, <2>1, <2>2, OneStmReduces
<1>13. ASSUME Break PROVE 0 \in 0..Len(stack) /\ Reduced(0)
  <2> DEFINE node == Node("BREAK", "BREAK", NullType, <<>>)
  <2>1. ToStm(0, <<node>>) /\ cells' = cells /\ 0 \in 0..Len(stack)
    BY <1>0, <1>13 DEF Break
  <2>2. NewNode(0, node)
    BY <1>b
  <2> HIDE DEF node
  <2> QED
    BY <2>1, <2>2, OneStmReduces
<1>14. ASSUME Return PROVE 1 \in 0..Len(stack) /\ Reduced(1)
  <2> DEFINE node == Node("RETURN", "RETURN", NullType, <<Value(1)>>)
  <2>1. Holds(1, "expr") /\ ToStm(1, <<node>>) /\ cells' = cells
    BY <1>14 DEF Return
  <2>2. NewNode(1, node)
    BY <1>b
  <2> HIDE DEF node
  <2> QED
    BY <1>a, <2>1, <2>2, OneStmReduces
<1>15. ASSUME NEW op, Assignment(op) PROVE 2 \in 0..Len(stack) /\ Reduced(2)
  <2> DEFINE node == Node("AFF", op, NullType, <<Value(2), Value(1)>>)
  <2>1. Holds(2, "expr") /\ ToStm(2, <<node>>) /\ cells' = cells
    BY <1>15 DEF Assignment
  <2>2. NewNode(2, node)
    BY <1>b
  <2> HIDE DEF node
  <2> QED
    BY <1>a, <2>1, <2>2, OneStmReduces
<1> QED
  BY <1>1, <1>2, <1>3, <1>4, <1>5, <1>6, <1>7, <1>8, <1>9, <1>10, <1>11, <1>12, <1>13,
     <1>14, <1>15 DEF ParseStm

-------------------------------------------------------------------------------
(***************************************************************************)
(* Every step is a reduction, the entry of a statement into a list, a step *)
(* that builds nothing (a declaration, a block's bounds, a visit), or the  *)
(* end of the parse.                                                       *)
(***************************************************************************)
\* A step that builds no object and moves no value: it only gives expressions
\* the types of left sides.
Retyped ==
  /\ Len(cells) <= Len(cells') /\ \A c \in 1..Len(cells) : cells'[c] = cells[c]
  /\ DOMAIN ast' = DOMAIN ast
  /\ \A n \in DOMAIN ast : /\ ast'[n].kind = ast[n].kind /\ ast'[n].op = ast[n].op
                           /\ ast'[n].kids = ast[n].kids
  /\ \A e \in Vars \cup DOMAIN ast : TypeOf(e)' = TypeOf(e) \/ ~Fresh(TypeOf(e))'
  /\ stack' = stack \/ stack' = <<>>

\* The statement on top enters a list, and CheckTypeVisitor is started on it.
Enters(k) ==
  /\ pending = <<>> /\ pending' = <<Value(1)>>
  /\ UNCHANGED <<phase, cells, varType, ast, passed, program>>
  /\ StackPops(k) /\ stack'[1].sort = "list"
  /\ Range(stack'[1].nodes) \subseteq InLists \cup {Value(1)}

\* A type that comes from a declaration is not fresh.
LEMMA DeclaredNotFresh == \A c : DeclaredType(c) => ~Fresh(c)
BY DEF DeclaredType, Fresh

\* Steps that change neither the type of an expression nor the AST.
LEMMA SameTypes ==
  ASSUME TypeInv, cells' = cells, varType' = varType, ast' = ast,
         stack' = stack \/ stack' = <<>>
  PROVE  Retyped
<1>1. Len(cells) \in Nat
  BY TypeOKDef DEF TypeInv
<1>2. \A e : TypeOf(e)' = TypeOf(e)
  BY DEF TypeOf
<1> QED
  BY <1>1, <1>2 DEF Retyped

\* Declarations and the bounds of blocks and of the program.
LEMMA DefineRetypes ==
  ASSUME TypeInv, DeclInv', Define, phase' # "aborted"
  PROVE  Retyped
<1>0. Len(cells) \in Nat /\ DOMAIN cells = 1..Len(cells) /\ cells \in Seq(Cell)
  BY TypeOKDef DEF TypeInv, TypeOK
<1>1. ASSUME NEW ids, NEW tag, VarDefinition(ids, tag) PROVE Retyped
  <2>1. Allocate(tag, "declared") /\ ast' = ast /\ stack' = stack
    BY <1>1 DEF VarDefinition
  <2>2. /\ Len(cells) <= Len(cells')
        /\ \A c \in 1..Len(cells) : cells'[c] = cells[c]
    <3> DEFINE new == NewCell(tag, "declared")
               S == Cell \cup {new}
    <3>1. Cell \subseteq S /\ new \in S
      OBVIOUS
    <3>2. cells' = Append(cells, new)
      BY <2>1 DEF Allocate
    <3> HIDE DEF S, new
    <3>3. cells \in Seq(S)
      BY <1>0, <3>1, SeqMonotonic
    <3> QED
      BY <1>0, <3>1, <3>2, <3>3, AppendProperties
  <2>3. ASSUME NEW e \in Vars PROVE ~Fresh(TypeOf(e))'
    <3>1. TypeOf(e)' = varType'[e]
      BY DEF TypeOf
    <3>2. varType'[e] # NullType => cells'[varType'[e]].origin = "declared"
      BY DEF DeclInv, DeclaredType
    <3> QED
      BY <3>1, <3>2 DEF Fresh
  <2>4. ASSUME NEW e \in DOMAIN ast, e \notin Vars PROVE TypeOf(e)' = TypeOf(e)
    BY <2>1, <2>4 DEF TypeOf
  <2> QED
    BY <2>1, <2>2, <2>3, <2>4 DEF Retyped
<1>2. ASSUME BeginBlock \/ Begin \/ EndBlock \/ End PROVE Retyped
  <2>1. /\ cells' = cells /\ varType' = varType /\ ast' = ast
        /\ stack' = stack \/ stack' = <<>>
    BY <1>2 DEF BeginBlock, Begin, EndBlock, End, Environment
  <2> QED
    BY <2>1, SameTypes
<1>3. ~SyntaxError
  BY DEF SyntaxError, Abort
<1> QED
  BY <1>1, <1>2, <1>3 DEF Define

\* The visits of CheckTypeVisitor.
LEMMA CheckRetypes ==
  ASSUME TypeInv, DeclInv, Check, phase' # "aborted"
  PROVE  Retyped
<1>0. /\ Len(cells) \in Nat /\ Len(ast) \in Nat /\ DOMAIN ast = 1..Len(ast)
      /\ varType \in [Vars -> NullType..Len(cells)]
      /\ ast \in Seq(NodeSet(Len(cells), Len(ast)))
  BY TypeOKDef DEF TypeInv, TypeOK
<1>1. ASSUME CheckAFF PROVE Retyped
  <2> DEFINE left  == ast[Head(pending)].kids[1]
             right == ast[Head(pending)].kids[2]
             type  == TypeOf(left)
  <2>1. /\ Visiting({"AFF"}) /\ cells' = cells /\ stack' = stack
        /\ IF right \in Vars
           THEN varType' = [varType EXCEPT ![right] = type] /\ UNCHANGED ast
           ELSE ast' = [ast EXCEPT ![right].type = type] /\ UNCHANGED varType
    BY <1>1 DEF CheckAFF
  <2>2. DeclaredType(type)
    <3>1. LeftSide(left)
      <4>1. Head(pending) \in 1..Len(ast) /\ ast[Head(pending)].kind = "AFF"
        BY <2>1, Visited
      <4> QED
        BY <1>0, <4>1 DEF DeclInv
    <3> QED
      BY <3>1 DEF DeclInv, TypeOf, LeftSide
  <2> HIDE DEF left, right, type
  <2>3. \A c : Fresh(c)' <=> Fresh(c)
    BY <2>1 DEF Fresh
  <2>4. ~Fresh(type)
    BY <2>2, DeclaredNotFresh
  <2>5. CASE right \in Vars
    <3>1. ast' = ast /\ varType' = [varType EXCEPT ![right] = type]
      BY <2>1, <2>5
    <3>2. \A e \in Vars \cup DOMAIN ast : TypeOf(e)' = TypeOf(e) \/ TypeOf(e)' = type
      BY <1>0, <3>1 DEF TypeOf
    <3> QED
      BY <1>0, <2>1, <2>3, <2>4, <3>1, <3>2 DEF Retyped, Fresh
  <2>6. CASE right \notin Vars
    <3>1. /\ varType' = varType /\ DOMAIN ast' = DOMAIN ast
          /\ ast' = [ast EXCEPT ![right] = [ast[right] EXCEPT !.type = type]]
      BY <2>1, <2>6
    <3>2. ASSUME NEW n \in DOMAIN ast
          PROVE  /\ ast'[n].kind = ast[n].kind /\ ast'[n].op = ast[n].op
                 /\ ast'[n].kids = ast[n].kids
                 /\ ast'[n].type = ast[n].type \/ ast'[n].type = type
      <4>1. ast[n] \in NodeSet(Len(cells), Len(ast))
        BY <1>0, ElementOfSeq
      <4>2. CASE n = right
        BY <3>1, <4>1, <4>2 DEF NodeSet
      <4>3. CASE n # right
        BY <3>1, <4>3
      <4> QED
        BY <4>2, <4>3
    <3>3. \A e \in Vars \cup DOMAIN ast : TypeOf(e)' = TypeOf(e) \/ TypeOf(e)' = type
      BY <3>1, <3>2 DEF TypeOf
    <3> QED
      BY <1>0, <2>1, <2>3, <2>4, <3>1, <3>2, <3>3 DEF Retyped, Fresh
  <2> QED
    BY <2>5, <2>6
<1>2. ASSUME CheckCondition \/ CheckInside \/ CheckNothing PROVE Retyped
  <2>1. cells' = cells /\ varType' = varType /\ ast' = ast /\ stack' = stack
    BY <1>2 DEF CheckCondition, CheckInside, CheckNothing, Environment
  <2> QED
    BY <2>1, SameTypes
<1>3. ~CheckConditionFails
  BY DEF CheckConditionFails, Abort
<1> QED
  BY <1>1, <1>2, <1>3 DEF Check

\* list_of_stms.
LEMMA ListEnters ==
  ASSUME TypeInv, FirstOfList \/ NextOfList
  PROVE  \E k \in 1..Len(stack) : Enters(k)
<1>0. Len(ast) \in Nat /\ Len(stack) \in Nat /\ DOMAIN stack = 1..Len(stack)
  BY TypeOKDef DEF TypeInv
<1>1. ASSUME FirstOfList PROVE 1 \in 1..Len(stack) /\ Enters(1)
  <2> DEFINE item == Item("list", <<Value(1)>>)
  <2>1. /\ pending = <<>> /\ pending' = <<Value(1)>> /\ Holds(1, "stm") /\ Reduce(1, item)
        /\ UNCHANGED <<phase, cells, varType, ast, passed, program>>
    BY <1>1 DEF FirstOfList, Parsing, Environment
  <2>2. 1 \in 1..Len(stack) /\ 1 \in 0..Len(stack)
    BY <1>0, <2>1 DEF Holds
  <2>3. item.sort = "list" /\ Range(item.nodes) = {Value(1)}
    BY DEF Item, Range
  <2> HIDE DEF item
  <2>4. StackPops(1) /\ stack'[1] = item
    BY <2>1, <2>2, Popping
  <2> QED
    BY <2>1, <2>2, <2>3, <2>4 DEF Enters
<1>2. ASSUME NextOfList PROVE 2 \in 1..Len(stack) /\ Enters(2)
  <2> DEFINE s == Value(1)
             nodes == stack[2].nodes
             item == Item("list", Append(nodes, s))
  <2>1. /\ pending = <<>> /\ pending' = <<Value(1)>> /\ Holds(2, "list") /\ Reduce(2, item)
        /\ Holds(1, "stm") /\ UNCHANGED <<phase, cells, varType, ast, passed, program>>
    BY <1>2 DEF NextOfList, Parsing, Environment
  <2>2. 2 \in 1..Len(stack) /\ 2 \in 0..Len(stack) /\ stack[2].sort = "list"
    BY <1>0, <2>1 DEF Holds
  <2>3. item.sort = "list" /\ item.nodes = Append(nodes, s)
    BY DEF Item
  <2>4. nodes \in Seq(DOMAIN ast) /\ s \in DOMAIN ast
    <3>1. s \in 1..Len(ast)
      BY <2>1, HeldValue
    <3> QED
      BY <1>0, <2>2, <3>1, TypeOKDef DEF TypeInv, Shape
  <2>5. Range(nodes) \subseteq InLists
    BY <1>0, <2>2 DEF InLists
  <2> HIDE DEF nodes, item
  <2>6. Range(item.nodes) \subseteq Range(nodes) \cup {s}
    BY <2>3, <2>4, AppendProperties, LenProperties DEF Range
  <2>7. StackPops(2) /\ stack'[1] = item
    BY <2>1, <2>2, Popping
  <2> QED
    BY <2>1, <2>2, <2>3, <2>5, <2>6, <2>7 DEF Enters
<1> QED
  BY <1>1, <1>2

\* The kinds of step there are.
LEMMA StepKinds ==
  ASSUME TypeInv, DeclInv, DeclInv', Next
  PROVE  \/ \E k \in 0..Len(stack) : Parsing /\ Reduced(k)
         \/ \E k \in 1..Len(stack) : Parsing /\ Enters(k)
         \/ Define /\ Retyped
         \/ Check /\ Retyped
         \/ Abort
<1>1. CASE Define
  <2>1. phase' = "aborted" => Abort
    BY <1>1 DEF Define, VarDefinition, BeginBlock, EndBlock, Begin, End, SyntaxError
  <2> QED
    BY <1>1, <2>1, DefineRetypes
<1>2. CASE ParseExpr
  <2>1. Parsing /\ (phase' = "aborted" => Abort)
    BY <1>2 DEF ParseExpr, Parsing, ConstantExpression, LeftPart, UnknownVariable,
         IndexedLeftPart, AliasBinary, Comparison, Unary, UserCall, Aggregate, Read,
         DigitalRead, AnalogRead, ToExpr
  <2> QED
    BY <1>2, <2>1, ParseExprReduces
<1>3. CASE ParseStm
  <2>1. Parsing /\ (phase' = "aborted" => Abort)
    BY <1>3 DEF ParseStm, Parsing, Increment, Assignment, OneArgProcedure, TwoArgProcedure,
         CastOfNull, UnregisteredProcedure, UserCallStm, Switch, CaseStm, Governed, IfElse,
         DoWhile, Loop, Break, Return, Block, FirstOfList, NextOfList, ToStm
  <2>2. CASE FirstOfList \/ NextOfList
    BY <2>1, <2>2, ListEnters
  <2> QED
    BY <1>3, <2>1, <2>2, ParseStmReduces
<1>4. CASE Check
  <2>1. phase' = "aborted" => Abort
    BY <1>4 DEF Check, Visiting, CheckAFF, CheckCondition, CheckConditionFails, CheckInside,
         CheckNothing
  <2> QED
    BY <1>4, <2>1, CheckRetypes
<1> QED
  BY <1>1, <1>2, <1>3, <1>4 DEF Next

-------------------------------------------------------------------------------
(***************************************************************************)
(* The types of pending values: OwnedTypes.                                *)
(***************************************************************************)
\* The type objects of the predefined functions stay theirs.
Predefined ==
  phase # "aborted" => \A c \in 1..ProcedureCell : cells[c].origin = "predefined"

\* The inductive invariant for OwnedTypes.
OwnedInv == Predefined /\ OwnedTypes

\* The type of an expression that is pending exists.
LEMMA ExposedType ==
  ASSUME TypeInv, NEW i \in DOMAIN stack
  PROVE  Exposed(i) \in NullType..Len(cells)
<1>1. /\ Len(cells) \in Nat /\ Len(stack) \in Nat /\ DOMAIN stack = 1..Len(stack)
  BY TypeOKDef DEF TypeInv
<1>2. CASE stack[i].sort = "expr"
  <2>1. i \in Nat \ {0} /\ Holds(i, "expr")
    BY <1>1, <1>2 DEF Holds
  <2> QED
    BY <1>2, <2>1, HeldValue DEF Exposed
<1>3. CASE stack[i].sort # "expr"
  BY <1>1, <1>3 DEF Exposed, NullType
<1> QED
  BY <1>2, <1>3

\* The type of an expression exists.
LEMMA ExistingType ==
  ASSUME TypeInv, NEW e \in Vars \cup DOMAIN ast
  PROVE  TypeOf(e) \in NullType..Len(cells)
<1>1. /\ DOMAIN ast = 1..Len(ast) /\ ast \in Seq(NodeSet(Len(cells), Len(ast)))
      /\ varType \in [Vars -> NullType..Len(cells)]
  BY TypeOKDef DEF TypeInv, TypeOK
<1>2. CASE e \in Vars
  BY <1>1, <1>2 DEF TypeOf
<1>3. CASE e \notin Vars
  <2>1. ast[e] \in NodeSet(Len(cells), Len(ast))
    BY <1>1, <1>3, ElementOfSeq
  <2> QED
    BY <1>3, <2>1 DEF TypeOf, NodeSet
<1> QED
  BY <1>2, <1>3

\* A reduction leaves the expressions there are with their types, and keeps
\* which types are fresh.
LEMMA TypesStay ==
  ASSUME TypeInv, NEW k, Reduced(k)
  PROVE  /\ \A e \in Vars \cup DOMAIN ast : TypeOf(e)' = TypeOf(e)
         /\ \A c \in NullType..Len(cells) : Fresh(c)' <=> Fresh(c)
<1>1. /\ DOMAIN ast = 1..Len(ast) /\ Len(cells) \in Nat
  BY TypeOKDef DEF TypeInv
<1>2. /\ varType' = varType /\ \A n \in 1..Len(ast) : ast'[n] = ast[n]
      /\ \A c \in 1..Len(cells) : cells'[c].origin = cells[c].origin
  BY DEF Reduced, AstGrows, CellsMove, OriginsKept
<1> QED
  BY <1>1, <1>2 DEF TypeOf, Fresh, NullType

\* The values a reduction leaves keep their types.
LEMMA ExposedStays ==
  ASSUME TypeInv, NEW k \in 0..Len(stack), Reduced(k), NEW i \in DOMAIN stack', i # 1
  PROVE  /\ k + i - 1 \in DOMAIN stack /\ k + i - 1 \notin 1..k
         /\ Exposed(i)' = Exposed(k + i - 1)
<1>1. /\ Len(stack) \in Nat /\ DOMAIN stack = 1..Len(stack) /\ k \in Nat
  BY TypeOKDef DEF TypeInv
<1>2. /\ i \in 2..Len(stack') /\ k + i - 1 \in (k + 1)..Len(stack)
      /\ stack'[i] = stack[k + i - 1]
  BY DEF Reduced, StackPops
<1>3. k + i - 1 \in DOMAIN stack /\ k + i - 1 \notin 1..k
  BY <1>1, <1>2
<1>4. CASE stack[k + i - 1].sort = "expr"
  <2>1. k + i - 1 \in Nat \ {0} /\ Holds(k + i - 1, "expr")
    BY <1>1, <1>3, <1>4 DEF Holds
  <2>2. Value(k + i - 1) \in Vars \cup 1..Len(ast)
    BY <2>1, HeldValue
  <2>3. Value(k + i - 1) \in Vars \cup DOMAIN ast
    BY <2>2, TypeOKDef DEF TypeInv
  <2> DEFINE e == stack[k + i - 1].nodes[1]
  <2>4. e \in Vars \cup DOMAIN ast
    BY <2>3 DEF Value
  <2>5. varType' = varType /\ \A n \in 1..Len(ast) : ast'[n] = ast[n]
    BY DEF Reduced, AstGrows
  <2>6. Exposed(i)' = IF e \in Vars THEN varType'[e] ELSE ast'[e].type
    BY <1>2, <1>4 DEF Exposed, TypeOf, Value
  <2>7. Exposed(k + i - 1) = IF e \in Vars THEN varType[e] ELSE ast[e].type
    BY <1>4 DEF Exposed, TypeOf, Value
  <2>8. e \notin Vars => ast'[e] = ast[e]
    BY <2>4, <2>5, TypeOKDef DEF TypeInv
  <2> QED
    BY <1>3, <2>5, <2>6, <2>7, <2>8
<1>5. CASE stack[k + i - 1].sort # "expr"
  BY <1>2, <1>3, <1>5 DEF Exposed
<1> QED
  BY <1>4, <1>5

\* The only fresh type a reduction may leave on top is a new one, or that of
\* one of the values it took.
LEMMA TopType ==
  ASSUME TypeInv, DeclInv, DeclInv', Predefined', Parsing, NEW k \in 0..Len(stack), Reduced(k),
         Fresh(Exposed(1))'
  PROVE  \/ Exposed(1)' = Len(cells) + 1
         \/ \E j \in 1..k : j \in DOMAIN stack /\ Exposed(1)' = Exposed(j)
<1> DEFINE e == stack'[1].nodes[1]
<1>1. /\ Len(stack) \in Nat /\ DOMAIN stack = 1..Len(stack) /\ k \in Nat
      /\ Len(ast) \in Nat
  BY TypeOKDef DEF TypeInv
<1>2. stack'[1].sort = "expr"
  BY DEF Exposed, Fresh
<1>3. \/ e \in Vars
      \/ e \in (Len(ast) + 1)..Len(ast') /\ NewType(k, ast'[e].type)
  BY <1>2 DEF Reduced
<1>4. Exposed(1)' = IF e \in Vars THEN varType'[e] ELSE ast'[e].type
  BY <1>2 DEF Exposed, TypeOf, Value
<1>5. Exposed(1)' # NullType /\ cells'[Exposed(1)'].origin = "fresh"
  BY DEF Fresh
<1> HIDE DEF e
<1>6. e \notin Vars
  <2> SUFFICES ASSUME e \in Vars PROVE FALSE
    OBVIOUS
  <2>1. varType'[e] # NullType => cells'[varType'[e]].origin = "declared"
    BY DEF DeclInv, DeclaredType
  <2> QED
    BY <1>4, <1>5, <2>1
<1>7. NewType(k, Exposed(1)')
  BY <1>3, <1>4, <1>6
<1>8. Exposed(1)' \notin 1..ProcedureCell
  <2>1. phase' # "aborted"
    BY DEF Reduced, Parsing
  <2> QED
    BY <1>5, <2>1 DEF Predefined
<1>9. ASSUME Consumed(k, Exposed(1)')
      PROVE  \E j \in 1..k : j \in DOMAIN stack /\ Exposed(1)' = Exposed(j)
  <2>1. PICK j \in 1..k : stack[j].sort = "expr" /\ Exposed(1)' = TypeOf(Value(j))
    BY <1>9 DEF Consumed
  <2>2. j \in DOMAIN stack /\ Exposed(j) = TypeOf(Value(j))
    BY <1>1, <2>1 DEF Exposed
  <2> QED
    BY <2>1, <2>2
<1> QED
  BY <1>5, <1>7, <1>8, <1>9 DEF NewType

\* The predefined functions keep their types.
LEMMA PredefinedStays ==
  ASSUME TypeInv, Predefined, phase # "aborted", OriginsKept
  PROVE  Predefined'
<1>1. Len(cells) \in Nat /\ Len(cells) >= ProcedureCell
  BY TypeOKDef DEF TypeInv, Shape
<1>2. \A c \in 1..ProcedureCell : cells'[c].origin = cells[c].origin
  BY <1>1 DEF OriginsKept, ProcedureCell
<1> QED
  BY <1>2 DEF Predefined

\* A reduction keeps the fresh types apart.
LEMMA ReducedOwned ==
  ASSUME TypeInv, TypeInv', DeclInv, DeclInv', OwnedInv, Parsing,
         NEW k \in 0..Len(stack), Reduced(k)
  PROVE  OwnedInv'
<1>0. Len(cells) \in Nat
  BY TypeOKDef DEF TypeInv
<1>1. Predefined'
  BY PredefinedStays DEF OwnedInv, Parsing, Reduced, CellsMove
<1>2. ASSUME NEW i \in DOMAIN stack', i # 1, Fresh(Exposed(1))'
      PROVE  Exposed(i)' # Exposed(1)'
  <2>1. /\ k + i - 1 \in DOMAIN stack /\ k + i - 1 \notin 1..k
        /\ Exposed(i)' = Exposed(k + i - 1)
    BY <1>2, ExposedStays
  <2>2. Exposed(k + i - 1) \in NullType..Len(cells)
    BY <2>1, ExposedType
  <2>3. CASE Exposed(1)' = Len(cells) + 1
    BY <1>0, <2>1, <2>2, <2>3 DEF NullType
  <2>4. ASSUME NEW j \in 1..k, j \in DOMAIN stack, Exposed(1)' = Exposed(j),
               Exposed(i)' = Exposed(1)'
        PROVE  FALSE
    <3>1. Exposed(j) = Exposed(k + i - 1) /\ j # k + i - 1
      BY <2>1, <2>4
    <3>2. ~Fresh(Exposed(j))
      BY <2>1, <2>4, <3>1 DEF OwnedInv, OwnedTypes
    <3>3. \A c \in NullType..Len(cells) : c # NullType /\ cells'[c].origin = "fresh" => Fresh(c)
      BY TypesStay DEF Fresh
    <3>4. Exposed(1)' # NullType /\ cells'[Exposed(1)'].origin = "fresh"
      BY <1>2 DEF Fresh
    <3> QED
      BY <2>1, <2>2, <2>4, <3>2, <3>3, <3>4
  <2> QED
    BY <1>1, <1>2, <2>3, <2>4, TopType
<1>3. ASSUME NEW i \in DOMAIN stack', NEW j \in DOMAIN stack', i # 1, j # 1, i # j,
             Exposed(i)' = Exposed(j)'
      PROVE  ~Fresh(Exposed(i))'
  <2>1. /\ k + i - 1 \in DOMAIN stack /\ Exposed(i)' = Exposed(k + i - 1)
        /\ k + j - 1 \in DOMAIN stack /\ Exposed(j)' = Exposed(k + j - 1)
    BY <1>3, ExposedStays
  <2>2. k + i - 1 # k + j - 1
    <3>1. i \in Int /\ j \in Int /\ k \in Int
      BY LenProperties DEF Reduced, StackPops
    <3> QED
      BY <1>3, <3>1
  <2>3. ~Fresh(Exposed(k + i - 1))
    BY <1>3, <2>1, <2>2 DEF OwnedInv, OwnedTypes
  <2>4. Exposed(k + i - 1) \in NullType..Len(cells)
    BY <2>1, ExposedType
  <2>5. \A c \in NullType..Len(cells) : c # NullType /\ cells'[c].origin = "fresh" => Fresh(c)
    BY TypesStay DEF Fresh
  <2> QED
    BY <2>1, <2>3, <2>4, <2>5 DEF Fresh
<1>4. OwnedTypes'
  <2> SUFFICES ASSUME NEW i \in DOMAIN stack', NEW j \in DOMAIN stack', i # j,
                      Exposed(i)' = Exposed(j)'
               PROVE  ~Fresh(Exposed(i))'
    BY DEF OwnedTypes
  <2>1. CASE i = 1
    BY <1>2, <2>1
  <2>2. CASE j = 1
    <3>1. Fresh(Exposed(i))' => Fresh(Exposed(1))'
      BY <2>2 DEF Fresh
    <3> QED
      BY <1>2, <2>2, <3>1
  <2> QED
    BY <1>3, <2>1, <2>2
<1> QED
  BY <1>1, <1>4 DEF OwnedInv

\* So does the entry of a statement in a list.
LEMMA EntersExposed ==
  ASSUME TypeInv, NEW k \in 0..Len(stack), Enters(k), NEW i \in DOMAIN stack'
  PROVE  \/ Exposed(i)' = NullType
         \/ /\ i # 1 /\ k + i - 1 \in DOMAIN stack /\ Exposed(i)' = Exposed(k + i - 1)
<1>1. CASE i = 1
  BY <1>1 DEF Enters, Exposed
<1>2. CASE i # 1
  <2>1. /\ DOMAIN stack = 1..Len(stack) /\ k \in Nat /\ Len(stack) \in Nat
    BY TypeOKDef DEF TypeInv
  <2>2. /\ k + i - 1 \in (k + 1)..Len(stack) /\ stack'[i] = stack[k + i - 1]
        /\ varType' = varType /\ ast' = ast
    BY <1>2 DEF Enters, StackPops
  <2>3. k + i - 1 \in DOMAIN stack
    BY <2>1, <2>2
  <2> QED
    BY <1>2, <2>2, <2>3 DEF Exposed, Value, TypeOf
<1> QED
  BY <1>1, <1>2

\* The same for the whole invariant.
LEMMA EntersOwned ==
  ASSUME TypeInv, OwnedInv, NEW k \in 0..Len(stack), Enters(k)
  PROVE  OwnedInv'
<1>1. cells' = cells /\ phase' = phase
  BY DEF Enters
<1>2. ASSUME NEW i \in DOMAIN stack', NEW j \in DOMAIN stack', i # j,
             Exposed(i)' = Exposed(j)'
      PROVE  ~Fresh(Exposed(i))'
  <2>1. CASE Exposed(i)' = NullType
    BY <2>1 DEF Fresh
  <2>2. CASE Exposed(i)' # NullType
    <3>1. /\ k + i - 1 \in DOMAIN stack /\ Exposed(i)' = Exposed(k + i - 1)
          /\ k + j - 1 \in DOMAIN stack /\ Exposed(j)' = Exposed(k + j - 1)
      BY <1>2, <2>2, EntersExposed
    <3>2. i \in Int /\ j \in Int /\ k \in Int
      BY DEF Enters, StackPops
    <3>3. k + i - 1 # k + j - 1
      BY <1>2, <3>2
    <3>4. ~Fresh(Exposed(k + i - 1))
      BY <1>2, <3>1, <3>3 DEF OwnedInv, OwnedTypes
    <3> QED
      BY <1>1, <3>1, <3>4 DEF Fresh
  <2> QED
    BY <2>1, <2>2
<1> QED
  BY <1>1, <1>2 DEF OwnedInv, OwnedTypes, Predefined

\* A step that builds nothing leaves a pending value with its type, or with one
\* that is not fresh.
LEMMA RetypedExposed ==
  ASSUME TypeInv, Retyped, NEW i \in DOMAIN stack'
  PROVE  /\ i \in DOMAIN stack
         /\ Exposed(i)' = Exposed(i) \/ ~Fresh(Exposed(i))'
<1>1. stack' = stack /\ i \in DOMAIN stack
  BY DEF Retyped
<1>2. CASE stack[i].sort = "expr"
  <2> DEFINE e == stack[i].nodes[1]
  <2>1. e \in Vars \cup DOMAIN ast
    <3>1. i \in Nat \ {0} /\ Holds(i, "expr")
      BY <1>1, <1>2, TypeOKDef DEF Holds, TypeInv
    <3> QED
      BY <3>1, HeldValue, TypeOKDef DEF Value, TypeInv
  <2>2. TypeOf(e)' = TypeOf(e) \/ ~Fresh(TypeOf(e))'
    BY <2>1 DEF Retyped
  <2>3. /\ Exposed(i) = TypeOf(e) /\ Exposed(i)' = TypeOf(e)'
        /\ Fresh(Exposed(i))' = Fresh(TypeOf(e))'
    BY <1>1, <1>2 DEF Exposed, Value, TypeOf, Fresh
  <2> QED
    BY <1>1, <2>2, <2>3
<1>3. CASE stack[i].sort # "expr"
  BY <1>1, <1>3 DEF Exposed
<1> QED
  BY <1>2, <1>3

\* Which of the types there are are fresh stays.
LEMMA RetypedFresh ==
  ASSUME TypeInv, Retyped
  PROVE  \A c \in NullType..Len(cells) : (Fresh(c)' <=> Fresh(c)) /\ OriginsKept
<1>1. Len(cells) \in Nat
  BY TypeOKDef DEF TypeInv
<1> QED
  BY <1>1 DEF Retyped, Fresh, NullType, OriginsKept

\* So it keeps the fresh types apart.
LEMMA RetypedOwned ==
  ASSUME TypeInv, OwnedInv, Retyped, phase # "aborted"
  PROVE  OwnedInv'
<1>0. 0 \in NullType..Len(cells)
  BY TypeOKDef DEF TypeInv, NullType
<1>1. Predefined'
  BY <1>0, PredefinedStays, RetypedFresh DEF OwnedInv
<1>2. ASSUME NEW i \in DOMAIN stack', NEW j \in DOMAIN stack', i # j,
             Exposed(i)' = Exposed(j)'
      PROVE  ~Fresh(Exposed(i))'
  <2> SUFFICES ASSUME Fresh(Exposed(i))' PROVE FALSE
    OBVIOUS
  <2>1. Fresh(Exposed(j))'
    BY <1>2 DEF Fresh
  <2>2. /\ i \in DOMAIN stack /\ Exposed(i)' = Exposed(i)
        /\ j \in DOMAIN stack /\ Exposed(j)' = Exposed(j)
    BY <2>1, RetypedExposed
  <2>3. ~Fresh(Exposed(i))
    BY <1>2, <2>2 DEF OwnedInv, OwnedTypes
  <2>4. \A c \in NullType..Len(cells) : c # NullType /\ cells'[c].origin = "fresh" => Fresh(c)
    BY RetypedFresh DEF Fresh
  <2>5. Exposed(i)' # NullType /\ cells'[Exposed(i)'].origin = "fresh"
    BY DEF Fresh
  <2> QED
    BY <2>2, <2>3, <2>4, <2>5, ExposedType
<1> QED
  BY <1>1, <1>2 DEF OwnedInv, OwnedTypes

\* A parse that is abandoned keeps nothing.
LEMMA AbortOwned == Abort => OwnedInv'
BY DEF Abort, OwnedInv, Predefined, OwnedTypes

\* Every step keeps the fresh types apart.
LEMMA NextOwned ==
  ASSUME TypeInv, TypeInv', DeclInv, DeclInv', OwnedInv, [Next]_vars
  PROVE  OwnedInv'
<1>1. CASE UNCHANGED vars
  BY <1>1 DEF vars, OwnedInv, Predefined, OwnedTypes, Exposed, TypeOf, Value, Fresh
<1>2. CASE Next
  <2>1. ASSUME NEW k \in 0..Len(stack), Parsing, Reduced(k) PROVE OwnedInv'
    BY <2>1, ReducedOwned
  <2>2. ASSUME NEW k \in 1..Len(stack), Enters(k) PROVE OwnedInv'
    BY <2>2, EntersOwned
  <2>3. CASE Define /\ Retyped
    <3>1. phase # "aborted" \/ Abort
      BY <2>3 DEF Define, VarDefinition, BeginBlock, EndBlock, Begin, End, SyntaxError
    <3> QED
      BY <2>3, <3>1, RetypedOwned, AbortOwned
  <2>4. CASE Check /\ Retyped
    <3>1. phase # "aborted"
      BY <2>4 DEF Check, Visiting, CheckAFF, CheckCondition, CheckConditionFails, CheckInside,
         CheckNothing
    <3> QED
      BY <2>4, <3>1, RetypedOwned
  <2> QED
    BY <1>2, <2>1, <2>2, <2>3, <2>4, StepKinds, AbortOwned
<1> QED
  BY <1>1, <1>2

\* The types of the initial state are those of the predefined functions.
LEMMA InitOwned == Init => OwnedInv
BY DEF Init, OwnedInv, Predefined, OwnedTypes, NewCell, ProcedureCell

\* Whatever a source declares, casts, checks and assigns, no two values that
\* wait on the parser's stack share a type object which an expression created:
\* a cast of one argument never changes the type of another.
THEOREM FreshTypesOwned == Spec => []OwnedTypes
<1>1. TypeInv /\ TypeInv' /\ DeclInv /\ DeclInv' /\ OwnedInv /\ [Next]_vars => OwnedInv'
  BY NextOwned
<1>2. Init => DeclInv
  BY DEF Init, DeclInv, DeclaredType, NullType
<1>3. OwnedInv => OwnedTypes
  BY DEF OwnedInv
<1> QED
  BY <1>1, <1>2, <1>3, InitOwned, InitTypeInv, NextTypeInv, NextDeclInv, PTL DEF Spec

-------------------------------------------------------------------------------
(***************************************************************************)
(* The types of conditions: ConditionsStayBoolean.                         *)
(*                                                                         *)
(* A condition left the stack when its statement was built, so by          *)
(* OwnedTypes no value a later production may cast has its type.           *)
(***************************************************************************)
ConditionsKnown ==
  \A n \in DOMAIN ast : ast[n].kind \in Conditionals => Cond(n) \in Vars \cup DOMAIN ast

ConditionsOwned ==
  \A n \in DOMAIN ast : ast[n].kind \in Conditionals =>
    \A i \in DOMAIN stack : Exposed(i) = TypeOf(Cond(n)) => ~Fresh(Exposed(i))

\* The inductive invariant for ConditionsStayBoolean.
CondInv ==
  /\ \A s \in passed : ast[s].kind \in Conditionals
  /\ ConditionsKnown /\ ConditionsOwned
  /\ ConditionsStayBoolean

\* A reduction keeps the conditions there are, and their types.
LEMMA OldCondition ==
  ASSUME TypeInv, CondInv, NEW k \in 0..Len(stack), Reduced(k),
         NEW n \in DOMAIN ast, ast[n].kind \in Conditionals
  PROVE  /\ n \in DOMAIN ast' /\ ast'[n] = ast[n] /\ Cond(n)' = Cond(n)
         /\ Cond(n) \in Vars \cup DOMAIN ast
         /\ TypeOf(Cond(n)) \in NullType..Len(cells)
         /\ TypeOf(Cond(n))' = TypeOf(Cond(n))
<1>1. DOMAIN ast = 1..Len(ast) /\ Len(ast) \in Nat
  BY TypeOKDef DEF TypeInv
<1>2. n \in DOMAIN ast' /\ ast'[n] = ast[n]
  BY <1>1 DEF Reduced, AstGrows
<1> DEFINE c == ast[n].kids[1]
<1>3. Cond(n) = c /\ Cond(n)' = c /\ c \in Vars \cup DOMAIN ast
  BY <1>2 DEF Cond, CondInv, ConditionsKnown
<1>4. TypeOf(c) \in NullType..Len(cells)
  BY <1>3, ExistingType
<1>5. IF c \in Vars THEN varType'[c] = TypeOf(c) ELSE ast'[c].type = TypeOf(c)
  BY <1>1, <1>3 DEF TypeOf, Reduced, AstGrows
<1> HIDE DEF c
<1>6. TypeOf(Cond(n))' = TypeOf(c)
  BY <1>3, <1>5 DEF TypeOf
<1> QED
  BY <1>2, <1>3, <1>4, <1>6

\* The condition of a new statement was one of the values the reduction took.
LEMMA NewCondition ==
  ASSUME TypeInv, NEW k \in 0..Len(stack), Reduced(k),
         NEW n \in DOMAIN ast', n \notin DOMAIN ast, ast'[n].kind \in Conditionals
  PROVE  /\ Cond(n)' \in Vars \cup DOMAIN ast'
         /\ stack'[1].sort # "expr"
         /\ \E j \in 1..k : j \in DOMAIN stack /\ TypeOf(Cond(n))' = Exposed(j)
<1>1. /\ DOMAIN ast = 1..Len(ast) /\ Len(ast) \in Nat /\ k \in Nat
      /\ DOMAIN stack = 1..Len(stack) /\ Len(stack) \in Nat
  BY TypeOKDef DEF TypeInv
<1>2. n \in (Len(ast) + 1)..Len(ast') /\ DOMAIN ast \subseteq DOMAIN ast'
  BY <1>1 DEF Reduced, AstGrows
<1>3. /\ stack'[1].sort # "expr"
      /\ \E j \in 1..k : stack[j].sort = "expr" /\ ast'[n].kids[1] = Value(j)
  BY <1>2 DEF Reduced, NewNode, Structured
<1>4. PICK j \in 1..k : stack[j].sort = "expr" /\ ast'[n].kids[1] = Value(j)
  BY <1>3
<1> DEFINE e == Value(j)
<1>5. j \in DOMAIN stack /\ e \in Vars \cup DOMAIN ast /\ Exposed(j) = TypeOf(e)
  <2>1. j \in DOMAIN stack /\ j \in Nat \ {0} /\ Holds(j, "expr")
    BY <1>1, <1>4 DEF Holds
  <2> QED
    BY <1>1, <1>4, <2>1, HeldValue DEF Exposed
<1>6. Cond(n)' = e
  BY <1>4 DEF Cond
<1>7. IF e \in Vars THEN varType'[e] = TypeOf(e) ELSE ast'[e].type = TypeOf(e)
  BY <1>1, <1>5 DEF TypeOf, Reduced, AstGrows
<1> HIDE DEF e
<1>8. TypeOf(Cond(n))' = TypeOf(e)
  BY <1>6, <1>7 DEF TypeOf
<1> QED
  BY <1>2, <1>3, <1>5, <1>6, <1>8

\* A reduction keeps the conditions to their own types.
LEMMA ReducedConditions ==
  ASSUME TypeInv, TypeInv', DeclInv, DeclInv', OwnedInv, OwnedInv', CondInv, Parsing,
         NEW k \in 0..Len(stack), Reduced(k)
  PROVE  CondInv'
<1>0. /\ Len(cells) \in Nat /\ DOMAIN ast = 1..Len(ast) /\ Len(ast) \in Nat
  BY TypeOKDef DEF TypeInv
<1>a. DOMAIN ast \subseteq DOMAIN ast'
  BY <1>0 DEF Reduced, AstGrows
<1>1. ConditionsKnown'
  <2> SUFFICES ASSUME NEW n \in DOMAIN ast', ast'[n].kind \in Conditionals
               PROVE  Cond(n)' \in Vars \cup DOMAIN ast'
    BY DEF ConditionsKnown
  <2>1. CASE n \in DOMAIN ast
    BY <1>0, <1>a, <2>1, OldCondition DEF Reduced, AstGrows
  <2>2. CASE n \notin DOMAIN ast
    BY <2>2, NewCondition
  <2> QED
    BY <2>1, <2>2
<1>2. ASSUME NEW c \in NullType..Len(cells), c # NullType, cells'[c].origin = "fresh"
      PROVE  Fresh(c)
  BY <1>2, TypesStay DEF Fresh
<1>3. ConditionsOwned'
  <2> SUFFICES ASSUME NEW n \in DOMAIN ast', ast'[n].kind \in Conditionals,
                      NEW i \in DOMAIN stack', Exposed(i)' = TypeOf(Cond(n))'
               PROVE  ~Fresh(Exposed(i))'
    BY DEF ConditionsOwned
  <2> DEFINE c == Exposed(i)'
  <2> SUFFICES ASSUME Fresh(Exposed(i))' PROVE FALSE
    OBVIOUS
  <2>1. c # NullType /\ cells'[c].origin = "fresh"
    BY DEF Fresh
  <2>2. ASSUME NEW j \in DOMAIN stack, c = Exposed(j) PROVE Fresh(Exposed(j))
    BY <1>2, <2>1, <2>2, ExposedType
  <2>3. i # 1 => /\ k + i - 1 \in DOMAIN stack /\ k + i - 1 \notin 1..k
                 /\ c = Exposed(k + i - 1)
    BY ExposedStays
  <2>4. CASE n \in DOMAIN ast
    <3>1. /\ ast[n].kind \in Conditionals
          /\ TypeOf(Cond(n)) \in NullType..Len(cells)
          /\ c = TypeOf(Cond(n))
      <4>1. ast'[n] = ast[n]
        BY <1>0, <2>4 DEF Reduced, AstGrows
      <4> QED
        BY <2>4, <4>1, OldCondition
    <3>2. ASSUME NEW j \in DOMAIN stack, c = Exposed(j) PROVE FALSE
      BY <2>2, <2>4, <3>1, <3>2 DEF CondInv, ConditionsOwned
    <3>3. CASE i = 1
      <4>1. Fresh(Exposed(1))' /\ c = Exposed(1)'
        BY <3>3 DEF Fresh
      <4>2. c # Len(cells) + 1
        BY <1>0, <3>1 DEF NullType
      <4>3. \E j \in 1..k : j \in DOMAIN stack /\ c = Exposed(j)
        BY <4>1, <4>2, TopType DEF OwnedInv
      <4> QED
        BY <3>2, <4>3
    <3> QED
      BY <2>3, <3>2, <3>3
  <2>5. CASE n \notin DOMAIN ast
    <3>1. /\ stack'[1].sort # "expr"
          /\ \E j \in 1..k : j \in DOMAIN stack /\ c = Exposed(j)
      BY <2>5, NewCondition
    <3>2. PICK j \in 1..k : j \in DOMAIN stack /\ c = Exposed(j)
      BY <3>1
    <3>3. i # 1
      BY <2>1, <3>1 DEF Exposed
    <3> QED
      BY <2>2, <2>3, <3>2, <3>3 DEF OwnedInv, OwnedTypes
  <2> QED
    BY <2>4, <2>5
<1>4. ASSUME NEW s \in passed
      PROVE  /\ s \in DOMAIN ast /\ ast[s].kind \in Conditionals
             /\ TypeOf(Cond(s)) \in NullType..Len(cells)
             /\ ast'[s] = ast[s] /\ TypeOf(Cond(s))' = TypeOf(Cond(s))
  <2>1. s \in DOMAIN ast /\ ast[s].kind \in Conditionals
    BY DEF TypeInv, TypeOK, CondInv
  <2> QED
    BY <2>1, OldCondition
<1>5. passed' = passed
  BY DEF Reduced
<1>6. ConditionsStayBoolean'
  <2> SUFFICES ASSUME NEW s \in passed, Fresh(TypeOf(Cond(s)))'
               PROVE  cells'[TypeOf(Cond(s))'].tag = "BOOLEAN"
    BY <1>5 DEF ConditionsStayBoolean
  <2> DEFINE c == TypeOf(Cond(s))
  <2>1. /\ c \in NullType..Len(cells) /\ TypeOf(Cond(s))' = c
        /\ s \in DOMAIN ast /\ ast[s].kind \in Conditionals
    BY <1>4
  <2>2. c # NullType /\ cells'[c].origin = "fresh"
    BY <2>1 DEF Fresh
  <2>3. Fresh(c) /\ c \in 1..Len(cells)
    BY <1>0, <1>2, <2>1, <2>2 DEF NullType
  <2>4. cells[c].tag = "BOOLEAN"
    BY <2>3 DEF CondInv, ConditionsStayBoolean
  <2>5. ~Consumed(k, c)
    <3> SUFFICES ASSUME Consumed(k, c) PROVE FALSE
      OBVIOUS
    <3>1. PICK j \in 1..k : stack[j].sort = "expr" /\ c = TypeOf(Value(j))
      BY DEF Consumed
    <3>2. j \in DOMAIN stack /\ Exposed(j) = c
      BY <3>1, TypeOKDef DEF Exposed, TypeInv
    <3> QED
      BY <2>1, <2>3, <3>2 DEF CondInv, ConditionsOwned
  <2>6. cells'[c] = cells[c]
    BY <2>3, <2>5 DEF Reduced, CellsMove
  <2> QED
    BY <2>1, <2>4, <2>6
<1> QED
  BY <1>1, <1>3, <1>4, <1>5, <1>6 DEF CondInv

\* A step that builds nothing keeps a condition, and its type if that is fresh.
LEMMA RetypedCondition ==
  ASSUME TypeInv, CondInv, Retyped, NEW n \in DOMAIN ast, ast[n].kind \in Conditionals
  PROVE  /\ Cond(n)' = Cond(n) /\ Cond(n) \in Vars \cup DOMAIN ast
         /\ TypeOf(Cond(n)) \in NullType..Len(cells)
         /\ TypeOf(Cond(n))' = TypeOf(Cond(n)) \/ ~Fresh(TypeOf(Cond(n)))'
<1> DEFINE c == ast[n].kids[1]
<1>1. Cond(n) = c /\ Cond(n)' = c /\ c \in Vars \cup DOMAIN ast
  BY DEF Cond, CondInv, ConditionsKnown, Retyped
<1>2. TypeOf(c) \in NullType..Len(cells)
  BY <1>1, ExistingType
<1>3. LET t == IF c \in Vars THEN varType'[c] ELSE ast'[c].type
      IN t = TypeOf(c) \/ ~(t # NullType /\ cells'[t].origin = "fresh")
  <2>1. \A e \in Vars \cup DOMAIN ast :
          LET t == IF e \in Vars THEN varType'[e] ELSE ast'[e].type
          IN t = TypeOf(e) \/ ~(t # NullType /\ cells'[t].origin = "fresh")
    BY DEF Retyped, TypeOf, Fresh
  <2> QED
    BY <1>1, <2>1
<1> HIDE DEF c
<1> QED
  BY <1>1, <1>2, <1>3 DEF TypeOf, Fresh

\* A step that builds nothing keeps the conditions to their own types, provided
\* that the conditions it passes are boolean.
LEMMA RetypedConditions ==
  ASSUME TypeInv, CondInv, Retyped,
         \A s \in passed' : \/ s \in passed
                            \/ /\ s \in DOMAIN ast /\ ast[s].kind \in Conditionals
                               /\ IsBoolean(TypeOf(Cond(s)))
  PROVE  CondInv'
<1>0. /\ DOMAIN ast' = DOMAIN ast /\ Len(cells) \in Nat
      /\ \A n \in DOMAIN ast : ast'[n].kind = ast[n].kind
      /\ \A c \in 1..Len(cells) : cells'[c] = cells[c]
  BY TypeOKDef DEF Retyped, TypeInv
<1>1. ConditionsKnown'
  BY <1>0, RetypedCondition DEF ConditionsKnown
<1>2. ASSUME NEW c \in NullType..Len(cells), c # NullType, cells'[c].origin = "fresh"
      PROVE  Fresh(c)
  BY <1>2, RetypedFresh DEF Fresh
<1>3. ConditionsOwned'
  <2> SUFFICES ASSUME NEW n \in DOMAIN ast, ast[n].kind \in Conditionals,
                      NEW i \in DOMAIN stack', Exposed(i)' = TypeOf(Cond(n))',
                      Fresh(Exposed(i))'
               PROVE  FALSE
    BY <1>0 DEF ConditionsOwned
  <2>1. Exposed(i)' # NullType /\ cells'[Exposed(i)'].origin = "fresh"
    BY DEF Fresh
  <2>2. i \in DOMAIN stack /\ Exposed(i)' = Exposed(i)
    BY RetypedExposed
  <2>3. Fresh(TypeOf(Cond(n)))'
    BY <2>1 DEF Fresh
  <2>4. Exposed(i) = TypeOf(Cond(n))
    BY <2>2, <2>3, RetypedCondition
  <2>5. Fresh(Exposed(i))
    BY <1>2, <2>1, <2>2, ExposedType
  <2> QED
    BY <2>2, <2>4, <2>5 DEF CondInv, ConditionsOwned
<1>4. ASSUME NEW s \in passed'
      PROVE  /\ s \in DOMAIN ast /\ ast[s].kind \in Conditionals
             /\ Fresh(TypeOf(Cond(s))) => cells[TypeOf(Cond(s))].tag = "BOOLEAN"
  BY DEF TypeInv, TypeOK, CondInv, ConditionsStayBoolean, IsBoolean
<1>5. ConditionsStayBoolean'
  <2> SUFFICES ASSUME NEW s \in passed', Fresh(TypeOf(Cond(s)))'
               PROVE  cells'[TypeOf(Cond(s))'].tag = "BOOLEAN"
    BY DEF ConditionsStayBoolean
  <2> DEFINE c == TypeOf(Cond(s))
  <2>1. /\ c \in NullType..Len(cells) /\ TypeOf(Cond(s))' = c
        /\ Fresh(c) => cells[c].tag = "BOOLEAN"
    BY <1>4, RetypedCondition
  <2>2. c # NullType /\ cells'[c].origin = "fresh"
    BY <2>1 DEF Fresh
  <2>3. Fresh(c) /\ c \in 1..Len(cells)
    BY <1>0, <1>2, <2>1, <2>2 DEF NullType
  <2> QED
    BY <1>0, <2>1, <2>3
<1> QED
  BY <1>0, <1>1, <1>3, <1>4, <1>5 DEF CondInv

\* So does the entry of a statement in a list.
LEMMA EntersConditions ==
  ASSUME TypeInv, CondInv, NEW k \in 0..Len(stack), Enters(k)
  PROVE  CondInv'
<1>1. UNCHANGED <<cells, varType, ast, passed>>
  BY DEF Enters
<1>2. /\ (\A s \in passed : ast[s].kind \in Conditionals)'
      /\ ConditionsKnown' /\ ConditionsStayBoolean'
  BY <1>1 DEF CondInv, ConditionsKnown, ConditionsStayBoolean, Cond, TypeOf, Fresh
<1>3. ConditionsOwned'
  <2> SUFFICES ASSUME NEW n \in DOMAIN ast, ast[n].kind \in Conditionals,
                      NEW i \in DOMAIN stack', Exposed(i)' = TypeOf(Cond(n))',
                      Exposed(i)' # NullType, cells[Exposed(i)'].origin = "fresh"
               PROVE  FALSE
    BY <1>1 DEF ConditionsOwned, Fresh
  <2>1. TypeOf(Cond(n))' = TypeOf(Cond(n))
    BY <1>1 DEF Cond, TypeOf
  <2>2. k + i - 1 \in DOMAIN stack /\ Exposed(i)' = Exposed(k + i - 1)
    BY EntersExposed
  <2> QED
    BY <2>1, <2>2 DEF CondInv, ConditionsOwned, Fresh
<1> QED
  BY <1>2, <1>3 DEF CondInv

\* A parse that is abandoned keeps nothing.
LEMMA AbortConditions == Abort => CondInv'
BY DEF Abort, CondInv, ConditionsKnown, ConditionsOwned, ConditionsStayBoolean

\* Every step keeps the conditions to their own types.
LEMMA NextConditions ==
  ASSUME TypeInv, TypeInv', DeclInv, DeclInv', OwnedInv, OwnedInv', CondInv, [Next]_vars
  PROVE  CondInv'
<1>1. CASE UNCHANGED vars
  BY <1>1 DEF vars, CondInv, ConditionsKnown, ConditionsOwned, ConditionsStayBoolean, Cond,
     Exposed, TypeOf, Value, Fresh
<1>2. CASE Next
  <2>1. ASSUME NEW k \in 0..Len(stack), Parsing, Reduced(k) PROVE CondInv'
    BY <2>1, ReducedConditions
  <2>2. ASSUME NEW k \in 1..Len(stack), Enters(k) PROVE CondInv'
    BY <2>2, EntersConditions
  <2>3. CASE Define /\ Retyped
    <3>1. passed' = passed \/ Abort
      BY <2>3 DEF Define, VarDefinition, BeginBlock, EndBlock, Begin, End, SyntaxError, Checker
    <3> QED
      BY <2>3, <3>1, RetypedConditions, AbortConditions
  <2>4. CASE Check /\ Retyped
    <3>1. CASE CheckAFF \/ CheckInside \/ CheckNothing
      <4>1. passed' = passed
        BY <3>1 DEF CheckAFF, CheckInside, CheckNothing
      <4> QED
        BY <2>4, <4>1, RetypedConditions
    <3>2. CASE CheckCondition
      <4>1. /\ Visiting(Conditionals) /\ IsBoolean(TypeOf(Cond(Head(pending))))
            /\ passed' = passed \cup {Head(pending)}
        BY <3>2 DEF CheckCondition
      <4>2. Head(pending) \in DOMAIN ast /\ ast[Head(pending)].kind \in Conditionals
        BY <4>1, Visited, TypeOKDef DEF TypeInv
      <4> QED
        BY <2>4, <4>1, <4>2, RetypedConditions
    <3>3. CASE CheckConditionFails
      BY <3>3, AbortConditions DEF CheckConditionFails
    <3> QED
      BY <2>4, <3>1, <3>2, <3>3 DEF Check
  <2> QED
    BY <1>2, <2>1, <2>2, <2>3, <2>4, StepKinds, AbortConditions
<1> QED
  BY <1>1, <1>2

\* A condition that CheckTypeVisitor found boolean, and that is no (alias of a)
\* variable, is boolean for as long as the generators may look at it: the casts
\* of the rest of the source never reach its type.
THEOREM PassedConditionsStay == Spec => []ConditionsStayBoolean
<1>1. /\ TypeInv /\ TypeInv' /\ DeclInv /\ DeclInv' /\ OwnedInv /\ OwnedInv' /\ CondInv
      /\ [Next]_vars
      => CondInv'
  BY NextConditions
<1>2. TypeInv /\ TypeInv' /\ DeclInv /\ DeclInv' /\ OwnedInv /\ [Next]_vars => OwnedInv'
  BY NextOwned
<1>3. Init => DeclInv /\ CondInv
  BY DEF Init, DeclInv, DeclaredType, NullType, CondInv, ConditionsKnown, ConditionsOwned,
     ConditionsStayBoolean
<1>4. CondInv => ConditionsStayBoolean
  BY DEF CondInv
<1> QED
  BY <1>1, <1>2, <1>3, <1>4, InitOwned, InitTypeInv, NextTypeInv, NextDeclInv, PTL DEF Spec

-------------------------------------------------------------------------------
(***************************************************************************)
(* The statements CheckTypeVisitor is owed: ListsChecked.                  *)
(***************************************************************************)
\* The visitor has been through the statements S: no other stands in a list or is
\* the body of a loop in S, unless the visitor is yet to come to it.
Through(S) ==
  /\ S \subseteq DOMAIN ast
  /\ InLists \subseteq S \cup Range(pending)
  /\ \A s \in S : /\ ast[s].kind \in Conditionals => s \in passed
                  /\ ast[s].kind = "LOOP" => ast[s].kids[1] \in S \cup Range(pending)

\* The inductive invariant for ListsChecked.
ListInv ==
  /\ \E S : Through(S)
  /\ \A n \in DOMAIN ast : ast[n].kind = "LOOP" => ast[n].kids # <<>>

\* A reduction brings no statement into a list.
LEMMA ReducedLists ==
  ASSUME TypeInv, ListInv, NEW k \in 0..Len(stack), Reduced(k)
  PROVE  ListInv'
<1>0. /\ DOMAIN ast = 1..Len(ast) /\ Len(ast) \in Nat
      /\ DOMAIN stack = 1..Len(stack) /\ Len(stack) \in Nat /\ k \in Nat
  BY TypeOKDef DEF TypeInv
<1>1. /\ pending' = pending /\ passed' = passed /\ program' = program
      /\ DOMAIN ast' = 1..Len(ast') /\ Len(ast') \in Nat
      /\ \A n \in DOMAIN ast : ast'[n] = ast[n]
      /\ \A n \in DOMAIN ast' \ DOMAIN ast : NewNode(k, ast'[n])
  BY <1>0 DEF Reduced, AstGrows
<1>2. ASSUME NEW i \in DOMAIN stack', stack'[i].sort = "list"
      PROVE  Range(stack'[i].nodes) \subseteq InLists
  <2>1. i \in 2..Len(stack')
    BY <1>2 DEF Reduced, StackPops
  <2>2. k + i - 1 \in DOMAIN stack /\ stack'[i] = stack[k + i - 1]
    BY <1>0, <2>1 DEF Reduced, StackPops
  <2> QED
    BY <1>2, <2>2 DEF InLists
<1>3. ASSUME NEW n \in DOMAIN ast', ast'[n].kind = "SEQ"
      PROVE  Range(ast'[n].kids) \subseteq InLists
  <2>1. CASE n \in DOMAIN ast
    BY <1>1, <1>3, <2>1 DEF InLists
  <2>2. CASE n \notin DOMAIN ast
    <3>1. PICK j \in 1..k : stack[j].sort = "list" /\ ast'[n].kids = stack[j].nodes
      BY <1>1, <1>3, <2>2 DEF NewNode
    <3>2. j \in DOMAIN stack
      BY <1>0
    <3> QED
      BY <3>1, <3>2 DEF InLists
  <2> QED
    BY <2>1, <2>2
<1>4. InLists' \subseteq InLists
  BY <1>1, <1>2, <1>3 DEF InLists
<1>5. \E S : Through(S)'
  <2>1. PICK S : Through(S)
    BY DEF ListInv
  <2>2. DOMAIN ast \subseteq DOMAIN ast'
    BY <1>0 DEF Reduced, AstGrows
  <2>3. \A s \in S : s \in DOMAIN ast /\ ast'[s] = ast[s]
    BY <1>1, <2>1 DEF Through
  <2>4. Through(S)'
    BY <1>1, <1>4, <2>1, <2>2, <2>3 DEF Through
  <2> QED
    BY <2>4
<1>6. ASSUME NEW n \in DOMAIN ast', ast'[n].kind = "LOOP" PROVE ast'[n].kids # <<>>
  BY <1>1, <1>6 DEF NewNode, ListInv
<1> QED
  BY <1>5, <1>6 DEF ListInv

\* The statement that enters a list is pending.
LEMMA EntersLists ==
  ASSUME TypeInv, ListInv, NEW k \in 1..Len(stack), Enters(k)
  PROVE  ListInv'
<1>0. /\ DOMAIN stack = 1..Len(stack) /\ Len(stack) \in Nat /\ k \in Nat
  BY TypeOKDef DEF TypeInv
<1>1. /\ pending = <<>> /\ Range(pending) = {} /\ Range(pending') = {Value(1)}
      /\ passed' = passed /\ program' = program /\ ast' = ast
  BY DEF Enters, Range
<1>2. ASSUME NEW i \in DOMAIN stack', stack'[i].sort = "list"
      PROVE  Range(stack'[i].nodes) \subseteq InLists \cup {Value(1)}
  <2>1. CASE i = 1
    BY <2>1 DEF Enters
  <2>2. CASE i # 1
    <3>1. i \in 2..Len(stack')
      BY <2>2 DEF Enters, StackPops
    <3>2. k + i - 1 \in DOMAIN stack /\ stack'[i] = stack[k + i - 1]
      BY <1>0, <3>1 DEF Enters, StackPops
    <3> QED
      BY <1>2, <3>2 DEF InLists
  <2> QED
    BY <2>1, <2>2
<1>3. InLists' \subseteq InLists \cup {Value(1)}
  BY <1>1, <1>2 DEF InLists
<1>4. \E S : Through(S)'
  <2>1. PICK S : Through(S)
    BY DEF ListInv
  <2>2. Through(S)'
    BY <1>1, <1>3, <2>1 DEF Through
  <2> QED
    BY <2>2
<1> QED
  BY <1>1, <1>4 DEF ListInv

\* A step that builds nothing leaves the statements in their lists, or drops
\* lists, provided that the program is one of them.
LEMMA RetypedLists ==
  ASSUME Retyped, Range(program') \subseteq InLists
  PROVE  InLists' \subseteq InLists
<1>1. /\ DOMAIN ast' = DOMAIN ast
      /\ \A n \in DOMAIN ast : ast'[n].kind = ast[n].kind /\ ast'[n].kids = ast[n].kids
  BY DEF Retyped
<1>2. ASSUME NEW i \in DOMAIN stack', stack'[i].sort = "list"
      PROVE  Range(stack'[i].nodes) \subseteq InLists
  <2>1. stack' = stack
    BY DEF Retyped
  <2> QED
    BY <1>2, <2>1 DEF InLists
<1>3. ASSUME NEW n \in DOMAIN ast', ast'[n].kind = "SEQ"
      PROVE  Range(ast'[n].kids) \subseteq InLists
  BY <1>1, <1>3 DEF InLists
<1> QED
  BY <1>2, <1>3 DEF InLists

\* Then the visitor has also been through the statements that are no longer pending,
\* if it has done its part for them.
LEMMA RetypedThrough ==
  ASSUME TypeInv, ListInv, Retyped, Range(program') \subseteq InLists,
         passed \subseteq passed',
         \A s \in Range(pending) : s \in DOMAIN ast =>
           \/ s \in Range(pending')
           \/ /\ ast[s].kind \in Conditionals => s \in passed'
              /\ ast[s].kind = "LOOP" => ast[s].kids[1] \in Range(pending')
  PROVE  ListInv'
<1>1. /\ DOMAIN ast' = DOMAIN ast
      /\ \A n \in DOMAIN ast : ast'[n].kind = ast[n].kind /\ ast'[n].kids = ast[n].kids
  BY DEF Retyped
<1>2. Range(pending) \subseteq DOMAIN ast
  <2>1. pending \in Seq(DOMAIN ast)
    BY DEF TypeInv, TypeOK
  <2> QED
    BY <2>1, ElementOfSeq, LenProperties DEF Range
<1>3. InLists' \subseteq InLists
  BY RetypedLists
<1>4. PICK S : Through(S)
  BY DEF ListInv
<1>0. PICK T : T = S \cup (Range(pending) \ Range(pending'))
  OBVIOUS
<1>5. S \cup Range(pending) \subseteq T \cup Range(pending')
  BY <1>0
<1>6. T \subseteq DOMAIN ast' /\ InLists' \subseteq T \cup Range(pending')
  BY <1>0, <1>1, <1>2, <1>3, <1>4, <1>5 DEF Through
<1>7. ASSUME NEW s \in T
      PROVE  /\ ast[s].kind \in Conditionals => s \in passed'
             /\ ast[s].kind = "LOOP" => ast[s].kids[1] \in T \cup Range(pending')
  <2>1. CASE s \in S
    BY <1>4, <1>5, <2>1 DEF Through
  <2>2. CASE s \in Range(pending) \ Range(pending')
    BY <1>2, <2>2
  <2> QED
    BY <1>0, <1>7, <2>1, <2>2
<1>8. \A s \in T : ast'[s].kind = ast[s].kind /\ ast'[s].kids = ast[s].kids
  BY <1>1, <1>6
<1>9. Through(T)'
  BY <1>6, <1>7, <1>8 DEF Through
<1> QED
  BY <1>1, <1>9 DEF ListInv

\* A sequence of pending visits, and what is in it.
LEMMA PendingRange ==
  ASSUME NEW S, NEW q \in Seq(S), q # <<>>
  PROVE  Range(q) = {Head(q)} \cup Range(Tail(q))
<1>1. /\ Len(q) \in Nat /\ Len(q) >= 1 /\ Head(q) = q[1] /\ DOMAIN q = 1..Len(q)
      /\ Tail(q) \in Seq(S) /\ Len(Tail(q)) = Len(q) - 1
      /\ \A i \in 1..Len(Tail(q)) : Tail(q)[i] = q[i + 1]
  BY HeadTailProperties, LenProperties, EmptySeq
<1>2. DOMAIN Tail(q) = 1..Len(Tail(q))
  BY <1>1, LenProperties
<1>3. ASSUME NEW i \in 1..Len(q) PROVE q[i] \in {Head(q)} \cup Range(Tail(q))
  <2>1. CASE i = 1
    BY <1>1, <2>1
  <2>2. CASE i # 1
    <3>1. i - 1 \in 1..Len(Tail(q)) /\ q[i] = Tail(q)[i - 1]
      BY <1>1, <2>2
    <3> QED
      BY <1>2, <3>1 DEF Range
  <2> QED
    BY <2>1, <2>2
<1>4. ASSUME NEW i \in 1..Len(Tail(q)) PROVE Tail(q)[i] \in Range(q)
  <2>1. i + 1 \in DOMAIN q /\ Tail(q)[i] = q[i + 1]
    BY <1>1, <1>4
  <2> QED
    BY <2>1 DEF Range
<1>5. Head(q) \in Range(q)
  BY <1>1 DEF Range
<1> QED
  BY <1>1, <1>2, <1>3, <1>4, <1>5 DEF Range

\* The visits of CheckTypeVisitor.
LEMMA CheckLists ==
  ASSUME TypeInv, ListInv, Check, Retyped, ~Abort
  PROVE  ListInv'
<1> DEFINE h == Head(pending)
<1>0. /\ pending \in Seq(DOMAIN ast) /\ pending # <<>> /\ program' = program
  BY DEF TypeInv, TypeOK, Check, CheckAFF, CheckCondition, CheckConditionFails, CheckInside,
     CheckNothing, Visiting
<1>1. Range(pending) = {h} \cup Range(Tail(pending))
  BY <1>0, PendingRange
<1>2. Range(program') \subseteq InLists
  BY <1>0 DEF InLists
<1>3. CASE CheckAFF \/ CheckNothing
  <2>1. /\ pending' = Tail(pending) /\ passed' = passed
        /\ ast[h].kind \notin Conditionals /\ ast[h].kind # "LOOP"
    BY <1>3 DEF CheckAFF, CheckNothing, Visiting, Conditionals
  <2> QED
    BY <1>1, <1>2, <2>1, RetypedThrough
<1>4. CASE CheckCondition
  <2>1. /\ pending' = Tail(pending) /\ passed' = passed \cup {h}
        /\ ast[h].kind # "LOOP"
    BY <1>4 DEF CheckCondition, Visiting, Conditionals
  <2> QED
    BY <1>1, <1>2, <2>1, RetypedThrough
<1>5. CASE CheckInside
  <2>1. /\ pending' = ast[h].kids \o Tail(pending) /\ passed' = passed
        /\ ast[h].kind \in {"SEQ", "LOOP"} /\ h \in DOMAIN ast
        /\ Tail(pending) \in Seq(DOMAIN ast)
    <3>1. Visiting({"SEQ", "LOOP"})
      BY <1>5 DEF CheckInside
    <3>2. DOMAIN ast = 1..Len(ast)
      BY TypeOKDef DEF TypeInv
    <3> QED
      BY <1>5, <3>1, <3>2, Visited DEF CheckInside
  <2>2. ast[h].kids \in Seq(DOMAIN ast)
    BY <2>1 DEF TypeInv, Shape
  <2>3. Range(pending') = Range(ast[h].kids) \cup Range(Tail(pending))
    <3> DEFINE s1 == ast[h].kids
               s2 == Tail(pending)
               S  == DOMAIN ast
    <3>1. s1 \in Seq(S) /\ s2 \in Seq(S) /\ pending' = s1 \o s2
      BY <2>1, <2>2
    <3> HIDE DEF s1, s2, S
    <3>2. Range(s1 \o s2) = Range(s1) \cup Range(s2)
      BY <3>1, RangeConcatenation
    <3> QED
      BY <3>1, <3>2 DEF s1, s2
  <2>4. ast[h].kind = "LOOP" => ast[h].kids[1] \in Range(ast[h].kids)
    <3>1. HAVE ast[h].kind = "LOOP"
    <3>2. ast[h].kids # <<>>
      BY <2>1, <3>1 DEF ListInv
    <3>3. 1 \in DOMAIN ast[h].kids
      BY <2>2, <3>2, LenProperties, EmptySeq
    <3> QED
      BY <3>3 DEF Range
  <2>5. ast[h].kind \notin Conditionals
    BY <2>1 DEF Conditionals
  <2> QED
    BY <1>1, <1>2, <2>1, <2>3, <2>4, <2>5, RetypedThrough
<1> QED
  BY <1>3, <1>4, <1>5 DEF Check, CheckConditionFails

\* Declarations and the bounds of blocks and of the program.
LEMMA DefineLists ==
  ASSUME TypeInv, ListInv, Define, Retyped, ~Abort
  PROVE  ListInv'
<1>1. pending' = pending /\ passed' = passed
  BY DEF Define, VarDefinition, BeginBlock, EndBlock, Begin, End, SyntaxError, Checker
<1>2. CASE End
  <2>1. program' = stack[1].nodes /\ 1 \in DOMAIN stack /\ stack[1].sort = "list"
    BY <1>2, TypeOKDef DEF End, Holds, TypeInv
  <2>2. Range(program') \subseteq InLists
    BY <2>1 DEF InLists
  <2> QED
    BY <1>1, <2>2, RetypedThrough
<1>3. CASE ~End
  <2>1. program' = program
    BY <1>3 DEF Define, VarDefinition, BeginBlock, EndBlock, Begin, SyntaxError
  <2>2. Range(program') \subseteq InLists
    BY <2>1 DEF InLists
  <2> QED
    BY <1>1, <2>2, RetypedThrough
<1> QED
  BY <1>2, <1>3

\* Nothing stands in a list when nothing was read.
LEMMA AbortLists == Abort => ListInv'
<1> SUFFICES ASSUME Abort PROVE ListInv'
  OBVIOUS
<1>1. stack' = <<>> /\ ast' = <<>> /\ program' = <<>>
  BY DEF Abort
<1>2. InLists' = {}
  BY <1>1 DEF InLists, Range
<1>3. Through({})'
  BY <1>2 DEF Through
<1> QED
  BY <1>1, <1>3 DEF ListInv

\* Every step keeps what the visitor owes to the lists.
LEMMA NextLists ==
  ASSUME TypeInv, DeclInv, DeclInv', ListInv, [Next]_vars
  PROVE  ListInv'
<1>1. CASE UNCHANGED vars
  BY <1>1 DEF vars, ListInv, InLists, Through
<1>2. CASE Next
  <2>1. ASSUME NEW k \in 0..Len(stack), Reduced(k) PROVE ListInv'
    BY <2>1, ReducedLists
  <2>2. ASSUME NEW k \in 1..Len(stack), Enters(k) PROVE ListInv'
    BY <2>2, EntersLists
  <2> QED
    BY <1>2, <2>1, <2>2, StepKinds, DefineLists, CheckLists, AbortLists
<1> QED
  BY <1>1, <1>2

\* With no visit under way, nothing is left to check.
LEMMA ListInvSuffices == ListInv => ListsChecked
<1> SUFFICES ASSUME ListInv, pending = <<>> PROVE ListsChecked
  BY DEF ListsChecked
<1>1. Range(pending) = {}
  BY DEF Range
<1>2. PICK S : Through(S)
  BY DEF ListInv
<1> DEFINE bodies == S \cap LoopBodies
           owed   == InLists \cup bodies
<1>3. owed \subseteq S /\ S \subseteq DOMAIN ast
  BY <1>1, <1>2 DEF Through
<1>4. ASSUME NEW s \in owed
      PROVE  /\ ast[s].kind \in Conditionals => s \in passed
             /\ ast[s].kind = "LOOP" => ast[s].kids[1] \in owed
  <2>1. s \in S /\ s \in DOMAIN ast
    BY <1>3
  <2>2. ast[s].kind = "LOOP" => ast[s].kids[1] \in LoopBodies
    BY <2>1 DEF LoopBodies
  <2> QED
    BY <1>1, <1>2, <2>1, <2>2 DEF Through
<1>5. bodies \in SUBSET LoopBodies
  OBVIOUS
<1> QED
  BY <1>4, <1>5 DEF ListsChecked

\* No condition that stands in a list, or is the body of a loop that stands in
\* one or is the body of such a loop, at any depth, reaches the generators without
\* having passed attestBoolean(): every statement that enters a list is visited
\* before the parse goes on.
THEOREM NothingUnchecked == Spec => []ListsChecked
<1>1. TypeInv /\ DeclInv /\ DeclInv' /\ ListInv /\ [Next]_vars => ListInv'
  BY NextLists
<1>2. Init => DeclInv /\ ListInv
  <2> SUFFICES ASSUME Init PROVE DeclInv /\ ListInv
    OBVIOUS
  <2>1. stack = <<>> /\ ast = <<>> /\ program = <<>>
    BY DEF Init
  <2>2. InLists = {}
    BY <2>1 DEF InLists, Range
  <2>3. Through({})
    BY <2>2 DEF Through
  <2> QED
    BY <2>1, <2>3 DEF Init, DeclInv, DeclaredType, NullType, ListInv
<1> QED
  BY <1>1, <1>2, ListInvSuffices, InitTypeInv, NextTypeInv, NextDeclInv, PTL DEF Spec
===============================================================================
