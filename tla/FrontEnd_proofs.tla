---------------------------- MODULE FrontEnd_proofs ----------------------------
(***************************************************************************)
(* Proofs about FrontEnd, for every set of variables, every language and   *)
(* every bound.                                                            *)
(***************************************************************************)
EXTENDS FrontEnd, SequenceTheorems, TLAPS

-------------------------------------------------------------------------------
(***************************************************************************)
(* The inductive invariant for TypeOK.                                     *)
(***************************************************************************)
\* Every semantic value refers to something, and only an expression may be a
\* variable; a list of statements inside a node holds statements.
Shape ==
  /\ \A i \in DOMAIN stack :
       /\ stack[i].nodes # <<>>
       /\ stack[i].sort # "expr" => stack[i].nodes \in Seq(DOMAIN ast)
  /\ \A n \in DOMAIN ast :
       /\ ast[n].kind \in {"SEQ", "LOOP"} => ast[n].kids \in Seq(DOMAIN ast)
       /\ ast[n].kind = "AFF" => Len(ast[n].kids) = 2
  /\ phase # "aborted" => Len(cells) >= ProcedureCell

TypeInv == TypeOK /\ Shape

\* The AST objects there can be with nc types and na objects.
NodeSet(nc, na) ==
  [kind : ExprKinds \cup StmKinds, op : Ops, type : NullType..nc, kids : Seq(Vars \cup 1..na)]

ItemSet(na) == [sort : Sorts, nodes : Seq(Vars \cup 1..na)]

\* The stack after a reduction: the k values on top are replaced by one.
LEMMA ReducedStack ==
  ASSUME NEW S, stack \in Seq(S), NEW k \in 0..Len(stack), NEW item \in S, Reduce(k, item)
  PROVE  /\ stack' \in Seq(S)
         /\ Len(stack') = (Len(stack) - k) + 1
         /\ DOMAIN stack' = 1..Len(stack')
         /\ stack'[1] = item
         /\ \A i \in 2..Len(stack') : k + i - 1 \in 1..Len(stack) /\ stack'[i] = stack[k + i - 1]
<1> DEFINE rest == SubSeq(stack, k + 1, Len(stack))
<1>1. Len(stack) \in Nat /\ k \in Nat
  OBVIOUS
<1>2. \A i \in (k + 1)..Len(stack) : stack[i] \in S
  BY <1>1
<1>3. rest \in Seq(S)
  BY <1>1, <1>2, SubSeqProperties
<1>4. Len(rest) = Len(stack) - k
  BY <1>1, <1>2, SubSeqProperties
<1>5. \A i \in 1..(Len(stack) - k) : rest[i] = stack[k + i]
  <2>1. ASSUME NEW i \in 1..(Len(stack) - k) PROVE rest[i] = stack[k + i]
    <3>1. i \in 1..(Len(stack) - (k + 1) + 1) /\ k + i = (k + 1) + i - 1
      BY <1>1
    <3>2. rest[i] = stack[(k + 1) + i - 1]
      BY <1>1, <1>2, <3>1, SubSeqProperties
    <3>3. QED
      BY <3>1, <3>2
  <2>2. QED
    BY <2>1
<1> HIDE DEF rest
<1>6. <<item>> \in Seq(S) /\ Len(<<item>>) = 1 /\ <<item>>[1] = item
  OBVIOUS
<1>7. stack' = <<item>> \o rest
  BY DEF rest, Reduce
<1>8. stack' \in Seq(S) /\ Len(stack') = (Len(stack) - k) + 1
  <2>1. <<item>> \o rest \in Seq(S)
    BY <1>3, <1>6, ConcatProperties
  <2>2. Len(<<item>> \o rest) = Len(<<item>>) + Len(rest)
    BY <1>3, <1>6, ConcatProperties
  <2>3. QED
    BY <1>1, <1>4, <1>6, <1>7, <2>1, <2>2
<1>9. stack'[1] = item
  BY <1>1, <1>3, <1>4, <1>6, <1>7, ConcatProperties
<1>10. ASSUME NEW i \in 2..Len(stack')
       PROVE  k + i - 1 \in 1..Len(stack) /\ stack'[i] = stack[k + i - 1]
  <2>0. i \in Int /\ 2 <= i /\ i <= Len(stack) - k + 1
    BY <1>1, <1>8
  <2>1. i - 1 \in 1..(Len(stack) - k)
    BY <1>1, <1>8, <2>0
  <2>2. stack'[i] = rest[i - 1]
    <3>1. i \in 1..(Len(<<item>>) + Len(rest))
      BY <1>1, <1>4, <1>6, <2>0
    <3>2. stack'[i] = IF i <= Len(<<item>>) THEN <<item>>[i] ELSE rest[i - Len(<<item>>)]
      BY <1>3, <1>6, <1>7, <3>1, ConcatProperties
    <3>3. QED
      BY <1>6, <2>0, <3>2
  <2>3. k + (i - 1) = k + i - 1
    BY <1>1
  <2>4. QED
    BY <1>1, <1>5, <2>1, <2>2, <2>3
<1>11. DOMAIN stack' = 1..Len(stack')
  BY <1>8, LenProperties
<1>12. QED
  BY <1>8, <1>9, <1>10, <1>11

\* More types and more objects only make the set larger.
LEMMA NodeSetMonotonic ==
  ASSUME NEW nc \in Nat, NEW na \in Nat, NEW nc2 \in Nat, NEW na2 \in Nat,
         nc <= nc2, na <= na2
  PROVE  NodeSet(nc, na) \subseteq NodeSet(nc2, na2)
<1>1. Seq(Vars \cup 1..na) \subseteq Seq(Vars \cup 1..na2)
  <2>1. Vars \cup 1..na \subseteq Vars \cup 1..na2
    OBVIOUS
  <2>2. QED
    BY <2>1, SeqMonotonic
<1>2. NullType..nc \subseteq NullType..nc2
  BY DEF NullType
<1>3. QED
  BY <1>1, <1>2 DEF NodeSet

\* The same for the semantic values.
LEMMA ItemSetMonotonic ==
  ASSUME NEW na \in Nat, NEW na2 \in Nat, na <= na2
  PROVE  ItemSet(na) \subseteq ItemSet(na2)
<1>1. Vars \cup 1..na \subseteq Vars \cup 1..na2
  OBVIOUS
<1>2. Seq(Vars \cup 1..na) \subseteq Seq(Vars \cup 1..na2)
  BY <1>1, SeqMonotonic
<1>3. QED
  BY <1>2 DEF ItemSet

\* TypeOK in terms of those sets.
LEMMA TypeOKDef ==
  ASSUME TypeOK
  PROVE  /\ Len(ast) \in Nat /\ DOMAIN ast = 1..Len(ast)
         /\ Len(cells) \in Nat /\ DOMAIN cells = 1..Len(cells)
         /\ Len(stack) \in Nat /\ DOMAIN stack = 1..Len(stack)
         /\ Ref(ast) = Vars \cup 1..Len(ast)
         /\ ast \in Seq(NodeSet(Len(cells), Len(ast)))
         /\ stack \in Seq(ItemSet(Len(ast)))
         /\ pending \in Seq(1..Len(ast))
         /\ program \in Seq(1..Len(ast))
<1>1. /\ Len(ast) \in Nat /\ DOMAIN ast = 1..Len(ast)
      /\ Len(cells) \in Nat /\ DOMAIN cells = 1..Len(cells)
      /\ Len(stack) \in Nat /\ DOMAIN stack = 1..Len(stack)
  BY LenProperties DEF TypeOK
<1>2. Ref(ast) = Vars \cup 1..Len(ast)
  BY <1>1 DEF Ref
<1>3. QED
  BY <1>1, <1>2 DEF TypeOK, NodeSet, ItemSet

\* The initial state.
LEMMA InitTypeInv == Init => TypeInv
<1> SUFFICES ASSUME Init PROVE TypeInv
  OBVIOUS
<1>1. cells \in Seq(Cell) /\ Len(cells) = ProcedureCell
  <2>1. NewCell("FUNCTION", "predefined") \in Cell
    BY DEF NewCell, Cell, Tag, sizeMap, Origins
  <2>2. cells \in [1..ProcedureCell -> Cell]
    BY <2>1 DEF Init
  <2>3. cells \in Seq(Cell)
    BY <2>2, SeqDef DEF ProcedureCell
  <2>4. QED
    BY <2>2, <2>3, LenProperties DEF ProcedureCell
<1>2. TypeOK
  BY <1>1 DEF Init, TypeOK, Phases, NullType, ProcedureCell
<1>3. Shape
  BY <1>1 DEF Init, Shape, ProcedureCell
<1>4. QED
  BY <1>2, <1>3 DEF TypeInv

\* A parse that is abandoned leaves nothing.
LEMMA AbortTypeInv == Abort => TypeInv'
<1> SUFFICES ASSUME Abort PROVE TypeInv'
  OBVIOUS
<1>1. TypeOK'
  BY DEF Abort, TypeOK, Phases, NullType
<1>2. Shape'
  BY DEF Abort, Shape
<1>3. QED
  BY <1>1, <1>2 DEF TypeInv

\* A reduction keeps TypeInv when the objects and the value it builds are well
\* formed, and when it loses no type.
LEMMA BuildTypeInv ==
  ASSUME TypeInv, phase # "aborted",
         NEW k \in Nat, k <= Len(stack),
         NEW nodes, NEW na, na = Len(ast) + Len(nodes),
         Len(nodes) \in Nat,
         nodes \in Seq(NodeSet(Len(cells'), na)),
         \A n \in 1..Len(nodes) :
            /\ nodes[n].kind \in {"SEQ", "LOOP"} => nodes[n].kids \in Seq(1..na)
            /\ nodes[n].kind = "AFF" => Len(nodes[n].kids) = 2,
         NEW item \in ItemSet(na), item.nodes # <<>>,
         item.sort # "expr" => item.nodes \in Seq(1..na),
         cells' \in Seq(Cell), Len(cells') \in Nat, Len(cells) <= Len(cells'),
         Create(nodes), Reduce(k, item),
         UNCHANGED <<phase, Environment, Checker, program>>
  PROVE  TypeInv'
<1> DEFINE nc == Len(cells')
<1>a. TypeOK /\ Shape
  BY DEF TypeInv
<1> /\ Len(ast) \in Nat /\ DOMAIN ast = 1..Len(ast)
    /\ Len(cells) \in Nat /\ DOMAIN cells = 1..Len(cells)
    /\ Len(stack) \in Nat /\ DOMAIN stack = 1..Len(stack)
    /\ ast \in Seq(NodeSet(Len(cells), Len(ast)))
    /\ stack \in Seq(ItemSet(Len(ast)))
    /\ pending \in Seq(1..Len(ast))
    /\ program \in Seq(1..Len(ast))
  BY <1>a, TypeOKDef
<1>1. /\ na \in Nat /\ Len(ast) <= na
      /\ ast \in Seq(NodeSet(nc, na))
      /\ stack \in Seq(ItemSet(na))
      /\ 1..Len(ast) \subseteq 1..na
  <2>1. na \in Nat /\ Len(ast) <= na
    OBVIOUS
  <2>2. NodeSet(Len(cells), Len(ast)) \subseteq NodeSet(nc, na)
    BY <2>1, NodeSetMonotonic
  <2>3. ItemSet(Len(ast)) \subseteq ItemSet(na)
    BY <2>1, ItemSetMonotonic
  <2>4. QED
    BY <2>1, <2>2, <2>3, SeqMonotonic
<1>2. /\ ast' \in Seq(NodeSet(nc, na)) /\ Len(ast') = na /\ DOMAIN ast' = 1..na
      /\ \A n \in 1..na : ast'[n] = IF n <= Len(ast) THEN ast[n] ELSE nodes[n - Len(ast)]
  <2>1. ast' = ast \o nodes
    BY DEF Create
  <2>2. ast' \in Seq(NodeSet(nc, na)) /\ Len(ast') = na
    BY <1>1, <2>1, ConcatProperties
  <2>3. \A n \in 1..na : ast'[n] = IF n <= Len(ast) THEN ast[n] ELSE nodes[n - Len(ast)]
    BY <1>1, <2>1, ConcatProperties
  <2>4. QED
    BY <2>2, <2>3, LenProperties
<1>3. /\ stack' \in Seq(ItemSet(na))
      /\ DOMAIN stack' = 1..Len(stack')
      /\ stack'[1] = item
      /\ \A i \in 2..Len(stack') : k + i - 1 \in 1..Len(stack) /\ stack'[i] = stack[k + i - 1]
  <2> DEFINE S == ItemSet(na)
  <2>1. k \in 0..Len(stack) /\ stack \in Seq(S) /\ item \in S
    BY <1>1
  <2> HIDE DEF S
  <2>2. /\ stack' \in Seq(S)
        /\ DOMAIN stack' = 1..Len(stack')
        /\ stack'[1] = item
        /\ \A i \in 2..Len(stack') : k + i - 1 \in 1..Len(stack) /\ stack'[i] = stack[k + i - 1]
    BY <2>1, ReducedStack
  <2>3. QED
    BY <2>2 DEF S
<1>4. TypeOK'
  <2>1. Ref(ast') = Vars \cup 1..na
    BY <1>2 DEF Ref
  <2>2. varType' \in [Vars -> NullType..nc]
    BY <1>a DEF TypeOK, Environment, NullType
  <2>3. pending' \in Seq(1..na) /\ program' \in Seq(1..na)
    BY <1>1, SeqMonotonic DEF Checker
  <2>4. passed' \subseteq 1..na
    BY <1>a, <1>1 DEF Checker, TypeOK
  <2>5. QED
    BY <1>a, <1>2, <1>3, <2>1, <2>2, <2>3, <2>4 DEF TypeOK, NodeSet, ItemSet, Environment
<1>5. Shape'
  <2>1. ASSUME NEW i \in DOMAIN stack'
        PROVE  /\ stack'[i].nodes # <<>>
               /\ stack'[i].sort # "expr" => stack'[i].nodes \in Seq(1..na)
    <3>1. CASE i = 1
      BY <1>3, <3>1
    <3>2. CASE i # 1
      <4>1. i \in 2..Len(stack')
        BY <1>3, <3>2, LenProperties
      <4>2. k + i - 1 \in DOMAIN stack /\ stack'[i] = stack[k + i - 1]
        BY <1>3, <4>1
      <4>3. /\ stack[k + i - 1].nodes # <<>>
            /\ stack[k + i - 1].sort # "expr" => stack[k + i - 1].nodes \in Seq(1..Len(ast))
        BY <1>a, <4>2 DEF Shape
      <4>4. QED
        BY <1>1, <4>2, <4>3, SeqMonotonic
    <3>3. QED
      BY <3>1, <3>2
  <2>2. ASSUME NEW n \in 1..na
        PROVE  /\ ast'[n].kind \in {"SEQ", "LOOP"} => ast'[n].kids \in Seq(1..na)
               /\ ast'[n].kind = "AFF" => Len(ast'[n].kids) = 2
    <3>1. CASE n <= Len(ast)
      <4>0. n \in DOMAIN ast
        BY <3>1
      <4>1. /\ ast[n].kind \in {"SEQ", "LOOP"} => ast[n].kids \in Seq(1..Len(ast))
            /\ ast[n].kind = "AFF" => Len(ast[n].kids) = 2
        BY <1>a, <4>0 DEF Shape
      <4>2. QED
        BY <1>1, <1>2, <3>1, <4>1, SeqMonotonic
    <3>2. CASE n > Len(ast)
      <4>1. n - Len(ast) \in 1..Len(nodes)
        BY <1>1, <3>2
      <4>2. ast'[n] = nodes[n - Len(ast)]
        BY <1>2, <3>2
      <4>3. QED
        BY <4>1, <4>2
    <3>3. QED
      BY <3>1, <3>2
  <2>3. Len(cells') >= ProcedureCell
    BY <1>a DEF Shape, ProcedureCell
  <2>4. QED
    BY <1>2, <2>1, <2>2, <2>3 DEF Shape
<1>6. QED
  BY <1>4, <1>5 DEF TypeInv

\* The k-th semantic value, and its type, exist.
LEMMA HeldValue ==
  ASSUME TypeInv, NEW k \in Nat \ {0}, NEW sort, Holds(k, sort)
  PROVE  /\ k <= Len(stack)
         /\ Value(k) \in Vars \cup 1..Len(ast)
         /\ sort # "expr" => Value(k) \in 1..Len(ast)
         /\ TypeOf(Value(k)) \in NullType..Len(cells)
<1>1. /\ TypeOK /\ Shape
      /\ Len(stack) \in Nat /\ DOMAIN stack = 1..Len(stack)
      /\ Len(ast) \in Nat /\ DOMAIN ast = 1..Len(ast)
      /\ stack \in Seq(ItemSet(Len(ast)))
      /\ ast \in Seq(NodeSet(Len(cells), Len(ast)))
  BY TypeOKDef DEF TypeInv
<1>2. k \in DOMAIN stack /\ stack[k].sort = sort
  BY <1>1 DEF Holds
<1>3. /\ stack[k].nodes \in Seq(Vars \cup 1..Len(ast))
      /\ stack[k].nodes # <<>>
      /\ sort # "expr" => stack[k].nodes \in Seq(1..Len(ast))
  <2>1. stack[k] \in ItemSet(Len(ast))
    BY <1>1, <1>2, ElementOfSeq
  <2>2. QED
    BY <1>1, <1>2, <2>1 DEF ItemSet, Shape
<1>4. Value(k) \in Vars \cup 1..Len(ast)
  BY <1>3, HeadTailProperties, LenProperties DEF Value
<1>5. sort # "expr" => Value(k) \in 1..Len(ast)
  BY <1>3, HeadTailProperties, LenProperties DEF Value
<1>6. TypeOf(Value(k)) \in NullType..Len(cells)
  <2>1. CASE Value(k) \in Vars
    BY <1>1, <2>1 DEF TypeOf, TypeOK
  <2>2. CASE Value(k) \notin Vars
    <3>1. Value(k) \in 1..Len(ast)
      BY <1>4, <2>2
    <3>2. ast[Value(k)] \in NodeSet(Len(cells), Len(ast))
      BY <1>1, <3>1, ElementOfSeq
    <3>3. QED
      BY <2>2, <3>2 DEF TypeOf, NodeSet
  <2>3. QED
    BY <2>1, <2>2
<1>7. QED
  BY <1>1, <1>2, <1>4, <1>5, <1>6

\* What a production does to the type objects.
LEMMA AllocateTypes ==
  ASSUME TypeOK, NEW tag \in Tag, NEW origin \in Origins, Allocate(tag, origin)
  PROVE  /\ cells' \in Seq(Cell) /\ Len(cells') = Len(cells) + 1
         /\ Len(cells') \in Nat /\ Len(cells) <= Len(cells')
<1>1. cells \in Seq(Cell) /\ NewCell(tag, origin) \in Cell
  BY DEF TypeOK, NewCell, Cell
<1>2. cells' = Append(cells, NewCell(tag, origin))
  BY DEF Allocate
<1>3. QED
  BY <1>1, <1>2

\* TypeTree.cast() keeps the heap of type objects a heap of type objects.
LEMMA CastTypes ==
  ASSUME NEW cs \in Seq(Cell), NEW tag \in Tag \cup {NoCast}, NEW c \in NullType..Len(cs),
         tag # NoCast => c # NullType
  PROVE  Cast(cs, c, tag) \in Seq(Cell) /\ Len(Cast(cs, c, tag)) = Len(cs)
<1>1. CASE tag = NoCast
  BY <1>1 DEF Cast
<1>2. CASE tag # NoCast
  <2>1. c \in 1..Len(cs) /\ tag \in Tag
    BY <1>2, LenProperties DEF NullType
  <2>2. cs[c] \in Cell
    BY <2>1, ElementOfSeq
  <2>3. [cs[c] EXCEPT !.tag = tag] \in Cell
    BY <2>1, <2>2 DEF Cell
  <2>4. Cast(cs, c, tag) = [cs EXCEPT ![c] = [cs[c] EXCEPT !.tag = tag]]
    BY <1>2 DEF Cast
  <2>5. QED
    BY <2>1, <2>3, <2>4, ExceptSeq
<1>3. QED
  BY <1>1, <1>2

\* No type object is lost, and the new objects only refer to what exists.
TypesKept == cells' \in Seq(Cell) /\ Len(cells') \in Nat /\ Len(cells) <= Len(cells')

WellFormed(nodes) ==
  /\ Len(nodes) \in Nat
  /\ nodes \in Seq(NodeSet(Len(cells'), Len(ast) + Len(nodes)))

ExprNodes(nodes) == WellFormed(nodes) /\ \A n \in 1..Len(nodes) : nodes[n].kind \in ExprKinds

StmNodes(nodes) ==
  /\ WellFormed(nodes)
  /\ Len(nodes) # 0
  /\ \A n \in 1..Len(nodes) :
       /\ nodes[n].kind \in {"SEQ", "LOOP"} =>
            nodes[n].kids \in Seq(1..(Len(ast) + Len(nodes)))
       /\ nodes[n].kind = "AFF" => Len(nodes[n].kids) = 2

\* A production may create no object at all.
LEMMA NoNodes == ExprNodes(<<>>)
BY DEF ExprNodes, WellFormed

\* A production that builds an expression.
LEMMA ExprTypeInv ==
  ASSUME TypeInv, Parsing, TypesKept,
         NEW k \in 0..Len(stack), NEW nodes, ExprNodes(nodes),
         NEW e \in Vars \cup 1..(Len(ast) + Len(nodes)),
         ToExpr(k, nodes, e)
  PROVE  TypeInv'
<1> DEFINE item == Item("expr", <<e>>)
           na == Len(ast) + Len(nodes)
<1>1. item \in ItemSet(na) /\ item.nodes # <<>> /\ item.sort = "expr"
  BY DEF Item, ItemSet, Sorts
<1>2. /\ Len(nodes) \in Nat /\ nodes \in Seq(NodeSet(Len(cells'), na))
      /\ \A n \in 1..Len(nodes) : nodes[n].kind \notin {"SEQ", "LOOP", "AFF"}
  BY DEF ExprNodes, WellFormed, ExprKinds
<1>3. phase # "aborted"
  BY DEF Parsing
<1>4. Create(nodes) /\ Reduce(k, item) /\ UNCHANGED <<phase, Environment, Checker, program>>
  BY DEF ToExpr
<1>5. k \in Nat /\ k <= Len(stack)
  BY TypeOKDef DEF TypeInv
<1> HIDE DEF item
<1>6. QED
  BY <1>1, <1>2, <1>3, <1>4, <1>5, BuildTypeInv DEF TypesKept

\* A production that builds one object and leaves it on the stack.
LEMMA OneExprTypeInv ==
  ASSUME TypeInv, Parsing, TypesKept,
         NEW k \in 0..Len(stack), NEW node, ExprNodes(<<node>>),
         ToExpr(k, <<node>>, Top)
  PROVE  TypeInv'
<1>1. Len(ast) \in Nat
  BY TypeOKDef DEF TypeInv
<1>2. Top \in Vars \cup 1..(Len(ast) + Len(<<node>>))
  BY <1>1 DEF Top
<1>3. QED
  BY <1>2, ExprTypeInv

\* A production that builds a statement, the last of the objects it creates.
LEMMA StmTypeInv ==
  ASSUME TypeInv, Parsing, TypesKept,
         NEW k \in 0..Len(stack), NEW nodes, StmNodes(nodes),
         ToStm(k, nodes)
  PROVE  TypeInv'
<1> DEFINE na == Len(ast) + Len(nodes)
           item == Item("stm", <<na>>)
<1>1. /\ Len(nodes) \in Nat /\ nodes \in Seq(NodeSet(Len(cells'), na))
      /\ \A n \in 1..Len(nodes) :
            /\ nodes[n].kind \in {"SEQ", "LOOP"} => nodes[n].kids \in Seq(1..na)
            /\ nodes[n].kind = "AFF" => Len(nodes[n].kids) = 2
  BY DEF StmNodes, WellFormed
<1>2. na \in 1..na
  BY <1>1, TypeOKDef DEF TypeInv, StmNodes
<1>3. item \in ItemSet(na) /\ item.nodes # <<>> /\ item.nodes \in Seq(1..na)
  BY <1>2 DEF Item, ItemSet, Sorts
<1>4. phase # "aborted"
  BY DEF Parsing
<1>5. Create(nodes) /\ Reduce(k, item) /\ UNCHANGED <<phase, Environment, Checker, program>>
  BY DEF ToStm
<1>6. k \in Nat /\ k <= Len(stack)
  BY TypeOKDef DEF TypeInv
<1> HIDE DEF item
<1>7. QED
  BY <1>1, <1>3, <1>4, <1>5, <1>6, BuildTypeInv DEF TypesKept

\* The elements of a list of expressions.
LEMMA ListedValues ==
  ASSUME TypeInv, NEW n \in 1..MaxArgs, HoldsList(n)
  PROVE  n \in 0..Len(stack) /\ Listed(n) \in Seq(Vars \cup 1..(Len(ast) + 1))
<1>0. Len(ast) \in Nat /\ Len(stack) \in Nat
  BY TypeOKDef DEF TypeInv
<1>1. n \in Nat \ {0}
  BY BoundAssumption
<1>2. n <= Len(stack)
  BY <1>1 DEF HoldsList, Holds
<1>3. \A i \in 1..n : Value(n + 1 - i) \in Vars \cup 1..Len(ast)
  <2>1. ASSUME NEW i \in 1..n PROVE Value(n + 1 - i) \in Vars \cup 1..Len(ast)
    <3>1. n + 1 - i \in Nat \ {0} /\ n + 1 - i \in 1..n
      BY <1>1
    <3>2. Holds(n + 1 - i, "expr")
      BY <3>1 DEF HoldsList
    <3>3. QED
      BY <3>1, <3>2, HeldValue
  <2>2. QED
    BY <2>1
<1>4. Listed(n) \in [1..n -> Vars \cup 1..(Len(ast) + 1)]
  BY <1>0, <1>3 DEF Listed
<1>5. QED
  BY <1>0, <1>1, <1>2, <1>4, SeqDef

\* Facts about a state in which a production can be reduced.
LEMMA ParsingFacts ==
  ASSUME TypeInv, Parsing
  PROVE  /\ Len(ast) \in Nat /\ Len(cells) \in Nat /\ Len(stack) \in Nat
         /\ cells \in Seq(Cell)
         /\ Len(cells) >= ProcedureCell
         /\ varEnvironment \subseteq Vars
  BY TypeOKDef DEF TypeInv, TypeOK, Shape, Parsing

\* The productions of left_part, expression and ATmega328p_expression.
LEMMA ParseExprTypeInv == TypeInv /\ ParseExpr => TypeInv'
<1> SUFFICES ASSUME TypeInv, ParseExpr PROVE TypeInv'
  OBVIOUS
<1>0. TypeOK /\ Len(ast) \in Nat /\ Len(cells) \in Nat /\ Len(stack) \in Nat
        /\ cells \in Seq(Cell)
  BY TypeOKDef DEF TypeInv, TypeOK
<1>1. ASSUME NEW l \in Literals, ConstantExpression(l) PROVE TypeInv'
  <2> DEFINE node == Node("CONSTANT", l, Len(cells) + 1, <<>>)
  <2>1. /\ Parsing /\ Allocate(literalTag[l], "fresh")
        /\ ToExpr(0, <<node>>, Top)
    BY <1>1 DEF ConstantExpression
  <2>2. literalTag[l] \in Tag /\ l \in Ops
    BY DEF Literals, literalTag, Tag, sizeMap, Ops
  <2>3. TypesKept /\ Len(cells') = Len(cells) + 1
    BY <1>0, <2>1, <2>2, AllocateTypes DEF Origins, TypesKept
  <2>4. ExprNodes(<<node>>)
    BY <1>0, <2>2, <2>3 DEF ExprNodes, WellFormed, Node, NodeSet, ExprKinds, NullType
  <2>5. 0 \in 0..Len(stack)
    BY <1>0
  <2> HIDE DEF node
  <2>6. QED
    BY <2>1, <2>3, <2>4, <2>5, OneExprTypeInv
<1>2. ASSUME NEW v \in Vars, LeftPart(v) PROVE TypeInv'
  <2>1. Parsing /\ ToExpr(0, <<>>, v) /\ cells' = cells
    BY <1>2 DEF LeftPart
  <2>2. TypesKept
    BY <1>0, <2>1 DEF TypesKept
  <2>3. 0 \in 0..Len(stack) /\ v \in Vars \cup 1..(Len(ast) + Len(<<>>))
    BY <1>0
  <2>4. QED
    BY <2>1, <2>2, <2>3, NoNodes, ExprTypeInv
<1>3. ASSUME NEW v \in Vars, UnknownVariable(v) PROVE TypeInv'
  BY <1>3, AbortTypeInv DEF UnknownVariable
<1>4. ASSUME NEW v \in Vars, IndexedLeftPart(v) PROVE TypeInv'
  <2> DEFINE node == Node("GET", "GET", NullType, <<Value(1), v>>)
  <2>1. /\ Parsing /\ Holds(1, "expr") /\ cells' = cells
        /\ ToExpr(1, <<node>>, Top)
    BY <1>4 DEF IndexedLeftPart
  <2>2. 1 <= Len(stack) /\ Value(1) \in Vars \cup 1..Len(ast)
    BY <2>1, HeldValue
  <2>3. TypesKept
    BY <1>0, <2>1 DEF TypesKept
  <2>4. <<Value(1), v>> \in Seq(Vars \cup 1..(Len(ast) + 1))
    BY <1>0, <2>2
  <2>5. ExprNodes(<<node>>)
    BY <1>0, <2>1, <2>4 DEF ExprNodes, WellFormed, Node, NodeSet, ExprKinds, Ops, NullType
  <2>6. 1 \in 0..Len(stack)
    BY <1>0, <2>2
  <2> HIDE DEF node
  <2>7. QED
    BY <2>1, <2>3, <2>5, <2>6, OneExprTypeInv
<1>5. ASSUME NEW op \in AliasOps, AliasBinary(op) PROVE TypeInv'
  <2> DEFINE node == Node("BINARY", op, TypeOf(Value(2)), <<Value(2), Value(1)>>)
  <2>1. /\ Parsing /\ Holds(1, "expr") /\ Holds(2, "expr") /\ cells' = cells
        /\ ToExpr(2, <<node>>, Top)
    BY <1>5 DEF AliasBinary
  <2>2. /\ 2 <= Len(stack)
        /\ Value(1) \in Vars \cup 1..Len(ast) /\ Value(2) \in Vars \cup 1..Len(ast)
        /\ TypeOf(Value(2)) \in NullType..Len(cells)
    BY <2>1, HeldValue
  <2>3. TypesKept
    BY <1>0, <2>1 DEF TypesKept
  <2>4. <<Value(2), Value(1)>> \in Seq(Vars \cup 1..(Len(ast) + 1))
    BY <1>0, <2>2
  <2>5. ExprNodes(<<node>>)
    BY <1>0, <2>1, <2>2, <2>4 DEF ExprNodes, WellFormed, Node, NodeSet, ExprKinds, Ops
  <2>6. 2 \in 0..Len(stack)
    BY <1>0, <2>2
  <2> HIDE DEF node
  <2>7. QED
    BY <2>1, <2>3, <2>5, <2>6, OneExprTypeInv
<1>6. ASSUME NEW op \in CompareOps, Comparison(op) PROVE TypeInv'
  <2> DEFINE node == Node("BINARY", op, Len(cells) + 1, <<Value(2), Value(1)>>)
  <2>1. /\ Parsing /\ Holds(1, "expr") /\ Holds(2, "expr")
        /\ Allocate("BOOLEAN", "fresh") /\ ToExpr(2, <<node>>, Top)
    BY <1>6 DEF Comparison
  <2>2. /\ 2 <= Len(stack)
        /\ Value(1) \in Vars \cup 1..Len(ast) /\ Value(2) \in Vars \cup 1..Len(ast)
    BY <2>1, HeldValue
  <2>3. TypesKept /\ Len(cells') = Len(cells) + 1
    BY <1>0, <2>1, AllocateTypes DEF TypesKept, Origins, Tag, sizeMap
  <2>4. <<Value(2), Value(1)>> \in Seq(Vars \cup 1..(Len(ast) + 1))
    BY <1>0, <2>2
  <2>5. ExprNodes(<<node>>)
    BY <1>0, <2>3, <2>4 DEF ExprNodes, WellFormed, Node, NodeSet, ExprKinds, Ops, NullType
  <2>6. 2 \in 0..Len(stack)
    BY <1>0, <2>2
  <2> HIDE DEF node
  <2>7. QED
    BY <2>1, <2>3, <2>5, <2>6, OneExprTypeInv
<1>7. ASSUME NEW op \in UnaryOps, Unary(op) PROVE TypeInv'
  <2> DEFINE node == Node("UNARY", op, TypeOf(Value(1)), <<Value(1)>>)
  <2>1. /\ Parsing /\ Holds(1, "expr") /\ cells' = cells
        /\ ToExpr(1, <<node>>, Top)
    BY <1>7 DEF Unary
  <2>2. /\ 1 <= Len(stack) /\ Value(1) \in Vars \cup 1..Len(ast)
        /\ TypeOf(Value(1)) \in NullType..Len(cells)
    BY <2>1, HeldValue
  <2>3. TypesKept
    BY <1>0, <2>1 DEF TypesKept
  <2>4. <<Value(1)>> \in Seq(Vars \cup 1..(Len(ast) + 1))
    BY <1>0, <2>2
  <2>5. ExprNodes(<<node>>)
    BY <1>0, <2>1, <2>2, <2>4 DEF ExprNodes, WellFormed, Node, NodeSet, ExprKinds, Ops
  <2>6. 1 \in 0..Len(stack)
    BY <1>0, <2>2
  <2> HIDE DEF node
  <2>7. QED
    BY <2>1, <2>3, <2>5, <2>6, OneExprTypeInv
<1>8. ASSUME NEW n \in 1..MaxArgs, UserCall(n) PROVE TypeInv'
  <2> DEFINE node == Node("CALL", "user", NullType, Listed(n))
  <2>1. Parsing /\ HoldsList(n) /\ cells' = cells /\ ToExpr(n, <<node>>, Top)
    BY <1>8 DEF UserCall
  <2>2. n \in 0..Len(stack) /\ Listed(n) \in Seq(Vars \cup 1..(Len(ast) + 1))
    BY <1>0, <2>1, ListedValues
  <2>3. TypesKept
    BY <1>0, <2>1 DEF TypesKept
  <2>4. ExprNodes(<<node>>)
    BY <1>0, <2>1, <2>2 DEF ExprNodes, WellFormed, Node, NodeSet, ExprKinds, Ops, NullType
  <2> HIDE DEF node
  <2>5. QED
    BY <2>1, <2>2, <2>3, <2>4, OneExprTypeInv
<1>9. ASSUME NEW kind \in {"EXPRLIST", "EXPRSET", "EXPRRANGE"}, NEW n,
             n \in 0..Len(stack), Listed(n) \in Seq(Vars \cup 1..(Len(ast) + 1)),
             Aggregate(kind, n)
      PROVE  TypeInv'
  <2> DEFINE tag == IF kind = "EXPRSET" THEN "SET" ELSE "FREE"
             node == Node(kind, kind, Len(cells) + 1, Listed(n))
  <2>1. /\ Parsing /\ Allocate(tag, "fresh") /\ ToExpr(n, <<node>>, Top)
        /\ tag \in Tag
    BY <1>9 DEF Aggregate, Tag, sizeMap
  <2> HIDE DEF tag
  <2>2. TypesKept /\ Len(cells') = Len(cells) + 1
    BY <1>0, <2>1, AllocateTypes DEF TypesKept, Origins
  <2>3. ExprNodes(<<node>>)
    BY <1>0, <1>9, <2>2 DEF ExprNodes, WellFormed, Node, NodeSet, ExprKinds, Ops, NullType
  <2> HIDE DEF node
  <2>4. QED
    BY <1>9, <2>1, <2>2, <2>3, OneExprTypeInv
<1>10. ASSUME NEW f \in Readers, Read(f) PROVE TypeInv'
  <2> DEFINE node == Node("CALL", f, functionCell[f], <<>>)
  <2>1. Parsing /\ cells' = cells /\ ToExpr(0, <<node>>, Top)
    BY <1>10 DEF Read
  <2>2. functionCell[f] \in NullType..Len(cells)
    BY <1>0, <2>1, ParsingFacts DEF Readers, functionCell, ProcedureCell, NullType
  <2>3. TypesKept
    BY <1>0, <2>1 DEF TypesKept
  <2>4. ExprNodes(<<node>>)
    BY <1>0, <2>1, <2>2 DEF ExprNodes, WellFormed, Node, NodeSet, ExprKinds, Ops
  <2>5. 0 \in 0..Len(stack)
    BY <1>0
  <2> HIDE DEF node
  <2>6. QED
    BY <2>1, <2>3, <2>4, <2>5, OneExprTypeInv
<1>11. ASSUME DigitalRead PROVE TypeInv'
  <2> DEFINE n1 == Node("CONSTANT", "EXPR", Len(cells) + 1, <<Value(1)>>)
             n2 == Node("UNARY", "ARG", Len(cells) + 1, <<Top>>)
             n3 == Node("CALL", "digitalRead", functionCell.digitalRead, <<Top + 1>>)
  <2>1. /\ Parsing /\ Holds(1, "expr") /\ Allocate("UINT8_T", "fresh")
        /\ ToExpr(1, <<n1, n2, n3>>, Top + 2)
    BY <1>11 DEF DigitalRead
  <2>2. TypesKept /\ Len(cells') = Len(cells) + 1
    BY <1>0, <2>1, AllocateTypes DEF TypesKept, Origins, Tag, sizeMap
  <2>3. 1 <= Len(stack) /\ Value(1) \in Vars \cup 1..Len(ast)
    BY <2>1, HeldValue
  <2>4. /\ <<Value(1)>> \in Seq(Vars \cup 1..(Len(ast) + 3))
        /\ <<Top>> \in Seq(Vars \cup 1..(Len(ast) + 3))
        /\ <<Top + 1>> \in Seq(Vars \cup 1..(Len(ast) + 3))
    BY <1>0, <2>3 DEF Top
  <2>5. functionCell.digitalRead \in NullType..Len(cells')
    BY <1>0, <2>2 DEF functionCell, NullType
  <2>6. /\ n1 \in NodeSet(Len(cells'), Len(ast) + 3) /\ n1.kind \in ExprKinds
        /\ n2 \in NodeSet(Len(cells'), Len(ast) + 3) /\ n2.kind \in ExprKinds
        /\ n3 \in NodeSet(Len(cells'), Len(ast) + 3) /\ n3.kind \in ExprKinds
    BY <1>0, <2>2, <2>4, <2>5 DEF Node, NodeSet, ExprKinds, Ops, NullType
  <2> HIDE DEF n1, n2, n3
  <2>7. ExprNodes(<<n1, n2, n3>>)
    BY <2>6 DEF ExprNodes, WellFormed
  <2>8. Top + 2 \in Vars \cup 1..(Len(ast) + Len(<<n1, n2, n3>>)) /\ 1 \in 0..Len(stack)
    BY <1>0, <2>3 DEF Top
  <2>9. QED
    BY <2>1, <2>2, <2>7, <2>8, ExprTypeInv
<1>12. ASSUME AnalogRead PROVE TypeInv'
  <2> DEFINE n1 == Node("UNARY", "ARG", TypeOf(Value(1)), <<Value(1)>>)
             n2 == Node("CALL", "analogRead", functionCell.analogRead, <<Top>>)
  <2>1. /\ Parsing /\ Holds(1, "expr") /\ TypeOf(Value(1)) # NullType
        /\ cells' = Cast(cells, TypeOf(Value(1)), "PIN")
        /\ ToExpr(1, <<n1, n2>>, Top + 1)
    BY <1>12 DEF AnalogRead
  <2>2. /\ 1 <= Len(stack) /\ Value(1) \in Vars \cup 1..Len(ast)
        /\ TypeOf(Value(1)) \in NullType..Len(cells)
    BY <2>1, HeldValue
  <2>3. TypesKept /\ Len(cells') = Len(cells)
    BY <1>0, <2>1, <2>2, CastTypes DEF TypesKept, Tag, sizeMap
  <2>4. /\ <<Value(1)>> \in Seq(Vars \cup 1..(Len(ast) + 2))
        /\ <<Top>> \in Seq(Vars \cup 1..(Len(ast) + 2))
    BY <1>0, <2>2 DEF Top
  <2>5. /\ functionCell.analogRead \in NullType..Len(cells')
        /\ TypeOf(Value(1)) \in NullType..Len(cells')
    BY <1>0, <2>1, <2>2, <2>3, ParsingFacts DEF functionCell, NullType, ProcedureCell
  <2>6. /\ n1 \in NodeSet(Len(cells'), Len(ast) + 2) /\ n1.kind \in ExprKinds
        /\ n2 \in NodeSet(Len(cells'), Len(ast) + 2) /\ n2.kind \in ExprKinds
    <3>1. n1 \in NodeSet(Len(cells'), Len(ast) + 2) /\ n1.kind \in ExprKinds
      BY <2>4, <2>5 DEF Node, NodeSet, ExprKinds, Ops
    <3>2. n2 \in NodeSet(Len(cells'), Len(ast) + 2) /\ n2.kind \in ExprKinds
      BY <2>4, <2>5 DEF Node, NodeSet, ExprKinds, Ops, argCasts
    <3>3. QED
      BY <3>1, <3>2
  <2> HIDE DEF n1, n2
  <2>7. ExprNodes(<<n1, n2>>)
    BY <2>6 DEF ExprNodes, WellFormed
  <2>8. Top + 1 \in Vars \cup 1..(Len(ast) + Len(<<n1, n2>>)) /\ 1 \in 0..Len(stack)
    BY <1>0, <2>2 DEF Top
  <2>9. QED
    BY <2>1, <2>3, <2>7, <2>8, ExprTypeInv
<1>13. ASSUME NEW kind \in {"EXPRLIST", "EXPRSET"}, NEW n \in 1..MaxArgs, Aggregate(kind, n)
       PROVE  TypeInv'
  <2>1. HoldsList(n)
    BY <1>13 DEF Aggregate
  <2>2. n \in 0..Len(stack) /\ Listed(n) \in Seq(Vars \cup 1..(Len(ast) + 1))
    BY <1>0, <2>1, ListedValues
  <2>3. QED
    BY <1>9, <1>13, <2>2
<1>14. ASSUME Aggregate("EXPRRANGE", 2) PROVE TypeInv'
  <2>1. Holds(1, "expr") /\ Holds(2, "expr")
    BY <1>14 DEF Aggregate, HoldsList
  <2>2. 2 <= Len(stack) /\ Value(1) \in Vars \cup 1..Len(ast) /\ Value(2) \in Vars \cup 1..Len(ast)
    BY <2>1, HeldValue
  <2>3. ASSUME NEW i \in 1..2 PROVE Value(2 + 1 - i) \in Vars \cup 1..(Len(ast) + 1)
    <3>1. CASE i = 1
      <4>1. 2 + 1 - i = 2
        BY <3>1
      <4>2. QED
        BY <1>0, <2>2, <4>1
    <3>2. CASE i = 2
      <4>1. 2 + 1 - i = 1
        BY <3>2
      <4>2. QED
        BY <1>0, <2>2, <4>1
    <3>3. QED
      BY <3>1, <3>2
  <2>4. Listed(2) \in Seq(Vars \cup 1..(Len(ast) + 1))
    <3>1. Listed(2) \in [1..2 -> Vars \cup 1..(Len(ast) + 1)]
      BY <2>3 DEF Listed
    <3>2. QED
      BY <3>1, SeqDef
  <2>5. 2 \in 0..Len(stack)
    BY <1>0, <2>2
  <2>6. QED
    BY <1>9, <1>14, <2>4, <2>5
<1>15. QED
  BY <1>1, <1>2, <1>3, <1>4, <1>5, <1>6, <1>7, <1>8, <1>10, <1>11, <1>12, <1>13, <1>14
     DEF ParseExpr

\* A production that builds one statement and no type.
LEMMA OneStmTypeInv ==
  ASSUME TypeInv, Parsing, cells' = cells,
         NEW k \in 0..Len(stack), NEW kind \in StmKinds, NEW op \in Ops,
         NEW kids \in Seq(Vars \cup 1..(Len(ast) + 1)),
         kind \in {"SEQ", "LOOP"} => kids \in Seq(1..(Len(ast) + 1)),
         kind = "AFF" => Len(kids) = 2,
         ToStm(k, <<Node(kind, op, NullType, kids)>>)
  PROVE  TypeInv'
<1> DEFINE node == Node(kind, op, NullType, kids)
<1>1. Len(ast) \in Nat /\ Len(cells) \in Nat /\ TypesKept
  BY TypeOKDef DEF TypeInv, TypeOK, TypesKept
<1>2. NullType \in NullType..Len(cells')
  BY <1>1 DEF NullType
<1>3. node \in NodeSet(Len(cells'), Len(ast) + 1)
  BY <1>2 DEF Node, NodeSet
<1>4. /\ node.kind \in {"SEQ", "LOOP"} => node.kids \in Seq(1..(Len(ast) + 1))
      /\ node.kind = "AFF" => Len(node.kids) = 2
  BY DEF Node
<1> HIDE DEF node
<1>5. StmNodes(<<node>>)
  BY <1>3, <1>4 DEF StmNodes, WellFormed
<1>6. ToStm(k, <<node>>)
  BY DEF node
<1>7. QED
  BY <1>1, <1>5, <1>6, StmTypeInv

\* A reduction to a list of statements creates no object.
LEMMA ListTypeInv ==
  ASSUME TypeInv, Parsing,
         NEW k \in 0..Len(stack), NEW nodes \in Seq(1..Len(ast)), nodes # <<>>,
         Reduce(k, Item("list", nodes)), pending' \in Seq(1..Len(ast)),
         UNCHANGED <<phase, cells, Environment, ast, passed, program>>
  PROVE  TypeInv'
<1> DEFINE item == Item("list", nodes)
           na == Len(ast)
<1>1. /\ TypeOK /\ Shape
      /\ Len(ast) \in Nat /\ DOMAIN ast = 1..Len(ast)
      /\ Len(stack) \in Nat /\ DOMAIN stack = 1..Len(stack)
      /\ Ref(ast) = Vars \cup 1..na
      /\ stack \in Seq(ItemSet(na))
  BY TypeOKDef DEF TypeInv
<1>2. 1..na \subseteq Vars \cup 1..na
  OBVIOUS
<1>3. nodes \in Seq(Vars \cup 1..na)
  BY <1>2, SeqMonotonic
<1>4. /\ item \in ItemSet(na) /\ item.nodes # <<>> /\ item.sort = "list"
      /\ item.nodes \in Seq(1..na)
  BY <1>3 DEF Item, ItemSet, Sorts
<1>5. Reduce(k, item)
  OBVIOUS
<1> HIDE DEF item
<1>6. /\ stack' \in Seq(ItemSet(na))
      /\ DOMAIN stack' = 1..Len(stack')
      /\ stack'[1] = item
      /\ \A i \in 2..Len(stack') : k + i - 1 \in 1..Len(stack) /\ stack'[i] = stack[k + i - 1]
  <2> DEFINE S == ItemSet(na)
  <2>1. stack \in Seq(S) /\ item \in S
    BY <1>1, <1>4
  <2> HIDE DEF S
  <2>2. /\ stack' \in Seq(S)
        /\ DOMAIN stack' = 1..Len(stack')
        /\ stack'[1] = item
        /\ \A i \in 2..Len(stack') :
             k + i - 1 \in 1..Len(stack) /\ stack'[i] = stack[k + i - 1]
    BY <1>5, <2>1, ReducedStack
  <2> QED
    BY <2>2 DEF S
<1>7. TypeOK'
  <2>1. /\ stack' \in Seq([sort : Sorts, nodes : Seq(Ref(ast'))])
        /\ pending' \in Seq(DOMAIN ast')
    BY <1>1, <1>6 DEF ItemSet
  <2>2. QED
    BY <1>1, <2>1 DEF TypeOK, Environment
<1>8. Shape'
  <2>1. ASSUME NEW i \in DOMAIN stack'
        PROVE  /\ stack'[i].nodes # <<>>
               /\ stack'[i].sort # "expr" => stack'[i].nodes \in Seq(1..na)
    <3>1. CASE i = 1
      BY <1>4, <1>6, <3>1
    <3>2. CASE i # 1
      <4>1. i \in 2..Len(stack')
        BY <1>6, <3>2, LenProperties
      <4>2. k + i - 1 \in DOMAIN stack /\ stack'[i] = stack[k + i - 1]
        BY <1>1, <1>6, <4>1
      <4>3. QED
        BY <1>1, <4>2 DEF Shape
    <3>3. QED
      BY <3>1, <3>2
  <2>2. QED
    BY <1>1, <2>1 DEF Shape
<1>9. QED
  BY <1>7, <1>8 DEF TypeInv

\* The productions of stm, case and list_of_stms.
LEMMA ParseStmTypeInv == TypeInv /\ ParseStm => TypeInv'
<1> SUFFICES ASSUME TypeInv, ParseStm PROVE TypeInv'
  OBVIOUS
<1>0. TypeOK /\ Len(ast) \in Nat /\ Len(cells) \in Nat /\ Len(stack) \in Nat
        /\ cells \in Seq(Cell) /\ DOMAIN ast = 1..Len(ast)
  BY TypeOKDef DEF TypeInv, TypeOK
<1>1. ASSUME NEW op \in {"PP", "MM"}, Increment(op) PROVE TypeInv'
  <2> DEFINE n1 == Node("UNARY", op, TypeOf(Value(1)), <<Value(1)>>)
             n2 == Node("EXPR", "EXPR", NullType, <<Top>>)
  <2>1. Parsing /\ Holds(1, "expr") /\ cells' = cells /\ ToStm(1, <<n1, n2>>)
    BY <1>1 DEF Increment
  <2>2. /\ 1 <= Len(stack) /\ Value(1) \in Vars \cup 1..Len(ast)
        /\ TypeOf(Value(1)) \in NullType..Len(cells)
    BY <2>1, HeldValue
  <2>3. TypesKept
    BY <1>0, <2>1 DEF TypesKept
  <2>4. /\ <<Value(1)>> \in Seq(Vars \cup 1..(Len(ast) + 2))
        /\ <<Top>> \in Seq(Vars \cup 1..(Len(ast) + 2))
    BY <1>0, <2>2 DEF Top
  <2>5. n1 \in NodeSet(Len(cells'), Len(ast) + 2) /\ n1.kind = "UNARY"
    BY <2>1, <2>2, <2>4 DEF Node, NodeSet, ExprKinds, Ops, UnaryOps
  <2>6. n2 \in NodeSet(Len(cells'), Len(ast) + 2) /\ n2.kind = "EXPR"
    BY <1>0, <2>1, <2>4 DEF Node, NodeSet, StmKinds, Ops, NullType
  <2> HIDE DEF n1, n2
  <2>7. StmNodes(<<n1, n2>>)
    BY <2>5, <2>6 DEF StmNodes, WellFormed
  <2>8. 1 \in 0..Len(stack)
    BY <1>0, <2>2
  <2>9. QED
    BY <2>1, <2>3, <2>7, <2>8, StmTypeInv
<1>2. ASSUME NEW op \in AffOps, Assignment(op) PROVE TypeInv'
  <2>1. /\ Parsing /\ Holds(1, "expr") /\ Holds(2, "expr") /\ cells' = cells
        /\ ToStm(2, <<Node("AFF", op, NullType, <<Value(2), Value(1)>>)>>)
    BY <1>2 DEF Assignment
  <2>2. /\ 2 \in 0..Len(stack)
        /\ Value(1) \in Vars \cup 1..Len(ast) /\ Value(2) \in Vars \cup 1..Len(ast)
    BY <1>0, <2>1, HeldValue
  <2>3. /\ <<Value(2), Value(1)>> \in Seq(Vars \cup 1..(Len(ast) + 1))
        /\ Len(<<Value(2), Value(1)>>) = 2
    BY <1>0, <2>2
  <2>4. "AFF" \in StmKinds /\ op \in Ops /\ "AFF" \notin {"SEQ", "LOOP"}
    BY DEF StmKinds, Ops
  <2>5. QED
    BY <2>1, <2>2, <2>3, <2>4, OneStmTypeInv
<1>3. ASSUME NEW p \in OneArgProcs, OneArgProcedure(p) PROVE TypeInv'
  <2> DEFINE n1 == Node("UNARY", "ARG", TypeOf(Value(1)), <<Value(1)>>)
             n2 == Node("CALL", p, ProcedureCell, <<Top>>)
             n3 == Node("EXPR", "EXPR", NullType, <<Top + 1>>)
  <2>1. /\ Parsing /\ Holds(1, "expr")
        /\ argCasts[p][1] = NoCast \/ TypeOf(Value(1)) # NullType
        /\ cells' = Cast(cells, TypeOf(Value(1)), argCasts[p][1])
        /\ ToStm(1, <<n1, n2, n3>>)
    BY <1>3 DEF OneArgProcedure
  <2>2. /\ 1 <= Len(stack) /\ Value(1) \in Vars \cup 1..Len(ast)
        /\ TypeOf(Value(1)) \in NullType..Len(cells)
    BY <2>1, HeldValue
  <2>3. argCasts[p][1] \in Tag \cup {NoCast} /\ p \in Ops
    <3>1. argCasts[p][1] \in {"UINT8_T", "UINT16_T", NoCast} /\ p \in DOMAIN argCasts
      BY DEF OneArgProcs, argCasts, NoCast
    <3>2. QED
      BY <3>1 DEF Tag, sizeMap, Ops
  <2>4. TypesKept /\ Len(cells') = Len(cells)
    <3>1. argCasts[p][1] # NoCast => TypeOf(Value(1)) # NullType
      BY <2>1
    <3>2. /\ Cast(cells, TypeOf(Value(1)), argCasts[p][1]) \in Seq(Cell)
          /\ Len(Cast(cells, TypeOf(Value(1)), argCasts[p][1])) = Len(cells)
      BY <1>0, <2>2, <2>3, <3>1, CastTypes
    <3>3. cells' \in Seq(Cell) /\ Len(cells') = Len(cells)
      BY <2>1, <3>2
    <3>4. QED
      BY <1>0, <3>3 DEF TypesKept
  <2>5. /\ <<Value(1)>> \in Seq(Vars \cup 1..(Len(ast) + 3))
        /\ <<Top>> \in Seq(Vars \cup 1..(Len(ast) + 3))
        /\ <<Top + 1>> \in Seq(Vars \cup 1..(Len(ast) + 3))
    BY <1>0, <2>2 DEF Top
  <2>6. /\ TypeOf(Value(1)) \in NullType..Len(cells')
        /\ ProcedureCell \in NullType..Len(cells')
        /\ NullType \in NullType..Len(cells')
    BY <1>0, <2>1, <2>2, <2>4, ParsingFacts DEF NullType, ProcedureCell
  <2>7. n1 \in NodeSet(Len(cells'), Len(ast) + 3) /\ n1.kind = "UNARY"
    BY <2>5, <2>6 DEF Node, NodeSet, ExprKinds, Ops
  <2>8. n2 \in NodeSet(Len(cells'), Len(ast) + 3) /\ n2.kind = "CALL"
    BY <2>3, <2>5, <2>6 DEF Node, NodeSet, ExprKinds
  <2>9. n3 \in NodeSet(Len(cells'), Len(ast) + 3) /\ n3.kind = "EXPR"
    BY <2>5, <2>6 DEF Node, NodeSet, StmKinds, Ops
  <2> HIDE DEF n1, n2, n3
  <2>10. StmNodes(<<n1, n2, n3>>)
    BY <2>7, <2>8, <2>9 DEF StmNodes, WellFormed
  <2>11. 1 \in 0..Len(stack)
    BY <1>0, <2>2
  <2>12. QED
    BY <2>1, <2>4, <2>10, <2>11, StmTypeInv
<1>4. ASSUME NEW p \in TwoArgProcs, TwoArgProcedure(p) PROVE TypeInv'
  <2> DEFINE n1 == Node("UNARY", "ARG", TypeOf(Value(2)), <<Value(2)>>)
             n2 == Node("UNARY", "ARG", TypeOf(Value(1)), <<Value(1)>>)
             n3 == Node("CALL", p, ProcedureCell, <<Top, Top + 1>>)
             n4 == Node("EXPR", "EXPR", NullType, <<Top + 2>>)
             cs == Cast(cells, TypeOf(Value(2)), argCasts[p][1])
  <2>1. /\ Parsing /\ Holds(1, "expr") /\ Holds(2, "expr")
        /\ TypeOf(Value(2)) # NullType /\ TypeOf(Value(1)) # NullType
        /\ cells' = Cast(cs, TypeOf(Value(1)), argCasts[p][2])
        /\ ToStm(2, <<n1, n2, n3, n4>>)
    BY <1>4 DEF TwoArgProcedure
  <2>2. /\ 2 <= Len(stack)
        /\ Value(1) \in Vars \cup 1..Len(ast) /\ Value(2) \in Vars \cup 1..Len(ast)
        /\ TypeOf(Value(1)) \in NullType..Len(cells)
        /\ TypeOf(Value(2)) \in NullType..Len(cells)
    BY <2>1, HeldValue
  <2>3. argCasts[p][1] \in Tag /\ argCasts[p][2] \in Tag /\ p \in Ops
    BY DEF TwoArgProcs, argCasts, Tag, sizeMap, Ops
  <2>4. cs \in Seq(Cell) /\ Len(cs) = Len(cells)
    BY <1>0, <2>1, <2>2, <2>3, CastTypes
  <2> HIDE DEF cs
  <2>5. TypesKept /\ Len(cells') = Len(cells)
    BY <1>0, <2>1, <2>2, <2>3, <2>4, CastTypes DEF TypesKept
  <2>6. /\ <<Value(2)>> \in Seq(Vars \cup 1..(Len(ast) + 4))
        /\ <<Value(1)>> \in Seq(Vars \cup 1..(Len(ast) + 4))
        /\ <<Top, Top + 1>> \in Seq(Vars \cup 1..(Len(ast) + 4))
        /\ <<Top + 2>> \in Seq(Vars \cup 1..(Len(ast) + 4))
    BY <1>0, <2>2 DEF Top
  <2>7. /\ TypeOf(Value(1)) \in NullType..Len(cells')
        /\ TypeOf(Value(2)) \in NullType..Len(cells')
        /\ ProcedureCell \in NullType..Len(cells')
        /\ NullType \in NullType..Len(cells')
    BY <1>0, <2>1, <2>2, <2>5, ParsingFacts DEF NullType, ProcedureCell
  <2>8. n1 \in NodeSet(Len(cells'), Len(ast) + 4) /\ n1.kind = "UNARY"
    BY <2>6, <2>7 DEF Node, NodeSet, ExprKinds, Ops
  <2>9. n2 \in NodeSet(Len(cells'), Len(ast) + 4) /\ n2.kind = "UNARY"
    BY <2>6, <2>7 DEF Node, NodeSet, ExprKinds, Ops
  <2>10. n3 \in NodeSet(Len(cells'), Len(ast) + 4) /\ n3.kind = "CALL"
    BY <2>3, <2>6, <2>7 DEF Node, NodeSet, ExprKinds
  <2>11. n4 \in NodeSet(Len(cells'), Len(ast) + 4) /\ n4.kind = "EXPR"
    BY <2>6, <2>7 DEF Node, NodeSet, StmKinds, Ops
  <2> HIDE DEF n1, n2, n3, n4
  <2>12. StmNodes(<<n1, n2, n3, n4>>)
    BY <2>8, <2>9, <2>10, <2>11 DEF StmNodes, WellFormed
  <2>13. 2 \in 0..Len(stack)
    BY <1>0, <2>2
  <2>14. QED
    BY <2>1, <2>5, <2>12, <2>13, StmTypeInv
<1>5. ASSUME NEW p, CastOfNull(p) \/ UnregisteredProcedure PROVE TypeInv'
  BY <1>5, AbortTypeInv DEF CastOfNull, UnregisteredProcedure
<1>6. ASSUME NEW n \in 1..MaxArgs, UserCallStm(n) PROVE TypeInv'
  <2> DEFINE n1 == Node("CALL", "user", NullType, Listed(n))
             n2 == Node("EXPR", "EXPR", NullType, <<Top>>)
  <2>1. Parsing /\ HoldsList(n) /\ cells' = cells /\ ToStm(n, <<n1, n2>>)
    BY <1>6 DEF UserCallStm
  <2>2. n \in 0..Len(stack) /\ Listed(n) \in Seq(Vars \cup 1..(Len(ast) + 1))
    BY <2>1, ListedValues
  <2>3. TypesKept
    BY <1>0, <2>1 DEF TypesKept
  <2>4. /\ Listed(n) \in Seq(Vars \cup 1..(Len(ast) + 2))
        /\ <<Top>> \in Seq(Vars \cup 1..(Len(ast) + 2))
    <3>1. Vars \cup 1..(Len(ast) + 1) \subseteq Vars \cup 1..(Len(ast) + 2)
      BY <1>0
    <3>2. QED
      BY <1>0, <2>2, <3>1, SeqMonotonic DEF Top
  <2>5. n1 \in NodeSet(Len(cells'), Len(ast) + 2) /\ n1.kind = "CALL"
    BY <1>0, <2>1, <2>4 DEF Node, NodeSet, ExprKinds, Ops, NullType
  <2>6. n2 \in NodeSet(Len(cells'), Len(ast) + 2) /\ n2.kind = "EXPR"
    BY <1>0, <2>1, <2>4 DEF Node, NodeSet, StmKinds, Ops, NullType
  <2> HIDE DEF n1, n2
  <2>7. StmNodes(<<n1, n2>>)
    BY <2>5, <2>6 DEF StmNodes, WellFormed
  <2>8. QED
    BY <2>1, <2>2, <2>3, <2>7, StmTypeInv
<1>7. ASSUME NEW kind \in {"IF", "WHILE", "FOREACH"}, Governed(kind) PROVE TypeInv'
  <2>1. /\ Parsing /\ Holds(1, "stm") /\ Holds(2, "expr") /\ cells' = cells
        /\ ToStm(2, <<Node(kind, kind, NullType, <<Value(2), Value(1)>>)>>)
    BY <1>7 DEF Governed
  <2>2. /\ 2 \in 0..Len(stack)
        /\ Value(1) \in Vars \cup 1..Len(ast) /\ Value(2) \in Vars \cup 1..Len(ast)
    BY <1>0, <2>1, HeldValue
  <2>3. <<Value(2), Value(1)>> \in Seq(Vars \cup 1..(Len(ast) + 1))
    BY <1>0, <2>2
  <2>4. /\ kind \in StmKinds /\ kind \in Ops
        /\ kind \notin {"SEQ", "LOOP"} /\ kind # "AFF"
    BY DEF StmKinds, Conditionals, Ops
  <2>5. QED
    BY <2>1, <2>2, <2>3, <2>4, OneStmTypeInv
<1>8. ASSUME IfElse PROVE TypeInv'
  <2>1. /\ Parsing /\ Holds(1, "stm") /\ Holds(2, "stm") /\ Holds(3, "expr")
        /\ cells' = cells
        /\ ToStm(3, <<Node("IF", "ELSE", NullType, <<Value(3), Value(2), Value(1)>>)>>)
    BY <1>8 DEF IfElse
  <2>2. /\ 3 \in 0..Len(stack)
        /\ Value(1) \in Vars \cup 1..Len(ast) /\ Value(2) \in Vars \cup 1..Len(ast)
        /\ Value(3) \in Vars \cup 1..Len(ast)
    BY <1>0, <2>1, HeldValue
  <2>3. <<Value(3), Value(2), Value(1)>> \in Seq(Vars \cup 1..(Len(ast) + 1))
    BY <1>0, <2>2
  <2>4. "IF" \in StmKinds /\ "ELSE" \in Ops
    BY DEF StmKinds, Conditionals, Ops
  <2>5. QED
    BY <2>1, <2>2, <2>3, <2>4, OneStmTypeInv
<1>9. ASSUME DoWhile PROVE TypeInv'
  <2>1. /\ Parsing /\ Holds(1, "expr") /\ Holds(2, "stm") /\ cells' = cells
        /\ ToStm(2, <<Node("DO", "DO", NullType, <<Value(1), Value(2)>>)>>)
    BY <1>9 DEF DoWhile
  <2>2. /\ 2 \in 0..Len(stack)
        /\ Value(1) \in Vars \cup 1..Len(ast) /\ Value(2) \in Vars \cup 1..Len(ast)
    BY <1>0, <2>1, HeldValue
  <2>3. <<Value(1), Value(2)>> \in Seq(Vars \cup 1..(Len(ast) + 1))
    BY <1>0, <2>2
  <2>4. "DO" \in StmKinds /\ "DO" \in Ops
    BY DEF StmKinds, Conditionals, Ops
  <2>5. QED
    BY <2>1, <2>2, <2>3, <2>4, OneStmTypeInv
<1>10. ASSUME Loop PROVE TypeInv'
  <2>1. /\ Parsing /\ Holds(1, "stm") /\ cells' = cells
        /\ ToStm(1, <<Node("LOOP", "LOOP", NullType, <<Value(1)>>)>>)
    BY <1>10 DEF Loop
  <2>2. 1 \in 0..Len(stack) /\ Value(1) \in 1..Len(ast)
    BY <1>0, <2>1, HeldValue
  <2>3. /\ <<Value(1)>> \in Seq(Vars \cup 1..(Len(ast) + 1))
        /\ <<Value(1)>> \in Seq(1..(Len(ast) + 1))
    BY <1>0, <2>2
  <2>4. "LOOP" \in StmKinds /\ "LOOP" \in Ops
    BY DEF StmKinds, Ops
  <2>5. QED
    BY <2>1, <2>2, <2>3, <2>4, OneStmTypeInv
<1>11. ASSUME Break PROVE TypeInv'
  <2>1. /\ Parsing /\ cells' = cells
        /\ ToStm(0, <<Node("BREAK", "BREAK", NullType, <<>>)>>)
    BY <1>11 DEF Break
  <2>2. 0 \in 0..Len(stack) /\ <<>> \in Seq(Vars \cup 1..(Len(ast) + 1))
    BY <1>0
  <2>3. "BREAK" \in StmKinds /\ "BREAK" \in Ops
    BY DEF StmKinds, Ops
  <2>4. QED
    BY <2>1, <2>2, <2>3, OneStmTypeInv
<1>12. ASSUME Return PROVE TypeInv'
  <2>1. /\ Parsing /\ Holds(1, "expr") /\ cells' = cells
        /\ ToStm(1, <<Node("RETURN", "RETURN", NullType, <<Value(1)>>)>>)
    BY <1>12 DEF Return
  <2>2. 1 \in 0..Len(stack) /\ Value(1) \in Vars \cup 1..Len(ast)
    BY <1>0, <2>1, HeldValue
  <2>3. <<Value(1)>> \in Seq(Vars \cup 1..(Len(ast) + 1))
    BY <1>0, <2>2
  <2>4. "RETURN" \in StmKinds /\ "RETURN" \in Ops
    BY DEF StmKinds, Ops
  <2>5. QED
    BY <2>1, <2>2, <2>3, <2>4, OneStmTypeInv
<1>13. ASSUME CaseStm PROVE TypeInv'
  <2> DEFINE node == Node("CASE", "CASE", NullType, <<Value(2), Value(1)>>)
             item == Item("case", <<Top>>)
             na == Len(ast) + 1
  <2>1. /\ Parsing /\ Holds(1, "stm") /\ Holds(2, "expr") /\ cells' = cells
        /\ Create(<<node>>) /\ Reduce(2, item)
        /\ UNCHANGED <<phase, Environment, Checker, program>>
    BY <1>13 DEF CaseStm
  <2>2. /\ 2 <= Len(stack)
        /\ Value(1) \in Vars \cup 1..Len(ast) /\ Value(2) \in Vars \cup 1..Len(ast)
    BY <2>1, HeldValue
  <2>3. <<Value(2), Value(1)>> \in Seq(Vars \cup 1..na) /\ NullType \in NullType..Len(cells')
    BY <1>0, <2>1, <2>2 DEF NullType
  <2>4. "CASE" \in StmKinds /\ "CASE" \in Ops
    BY DEF StmKinds, Ops
  <2>5. node \in NodeSet(Len(cells'), na) /\ node.kind = "CASE"
    BY <2>3, <2>4 DEF Node, NodeSet
  <2>6. item \in ItemSet(na) /\ item.nodes # <<>> /\ item.nodes \in Seq(1..na)
    BY <1>0 DEF Item, ItemSet, Sorts, Top
  <2> HIDE DEF node, item
  <2>7. /\ <<node>> \in Seq(NodeSet(Len(cells'), na))
        /\ Len(<<node>>) \in Nat /\ na = Len(ast) + Len(<<node>>)
        /\ \A n \in 1..Len(<<node>>) : <<node>>[n].kind = "CASE"
    BY <1>0, <2>5
  <2>8. /\ cells' \in Seq(Cell) /\ Len(cells') \in Nat /\ Len(cells) <= Len(cells')
        /\ phase # "aborted"
    BY <1>0, <2>1 DEF Parsing
  <2> HIDE DEF na
  <2>9. \A n \in 1..Len(<<node>>) :
          /\ <<node>>[n].kind \in {"SEQ", "LOOP"} => <<node>>[n].kids \in Seq(1..na)
          /\ <<node>>[n].kind = "AFF" => Len(<<node>>[n].kids) = 2
    BY <2>7
  <2>10. QED
    BY <2>1, <2>2, <2>6, <2>7, <2>8, <2>9, BuildTypeInv
<1>14. ASSUME NEW n \in 1..MaxArgs, Switch(n) PROVE TypeInv'
  <2> DEFINE kids == <<Value(n + 1)>> \o Listed(n)
  <2>1. /\ Parsing /\ Holds(n + 1, "expr") /\ \A i \in 1..n : Holds(i, "case")
        /\ cells' = cells
        /\ ToStm(n + 1, <<Node("SWITCH", "SWITCH", NullType, kids)>>)
    BY <1>14 DEF Switch
  <2>2. n \in Nat /\ n + 1 \in Nat \ {0} /\ n + 1 \in 0..Len(stack)
        /\ Value(n + 1) \in Vars \cup 1..Len(ast)
    BY <1>0, <2>1, HeldValue
  <2>3. Listed(n) \in Seq(Vars \cup 1..(Len(ast) + 1))
    <3>1. ASSUME NEW i \in 1..n PROVE Value(n + 1 - i) \in Vars \cup 1..(Len(ast) + 1)
      <4>1. n + 1 - i \in Nat \ {0} /\ n + 1 - i \in 1..n
        BY <2>2
      <4>2. Holds(n + 1 - i, "case")
        BY <2>1, <4>1
      <4>3. Value(n + 1 - i) \in Vars \cup 1..Len(ast)
        BY <4>1, <4>2, HeldValue
      <4>4. QED
        BY <1>0, <4>3
    <3>2. Listed(n) \in [1..n -> Vars \cup 1..(Len(ast) + 1)]
      BY <3>1 DEF Listed
    <3>3. QED
      BY <2>2, <3>2, SeqDef
  <2>4. <<Value(n + 1)>> \in Seq(Vars \cup 1..(Len(ast) + 1))
    BY <1>0, <2>2
  <2>5. kids \in Seq(Vars \cup 1..(Len(ast) + 1))
    BY <2>3, <2>4, ConcatProperties
  <2>6. "SWITCH" \in StmKinds /\ "SWITCH" \in Ops
    BY DEF StmKinds, Ops
  <2> HIDE DEF kids
  <2>7. QED
    BY <2>1, <2>2, <2>5, <2>6, OneStmTypeInv
<1>15. ASSUME Block PROVE TypeInv'
  <2>1. /\ Parsing /\ Holds(1, "list") /\ cells' = cells
        /\ ToStm(1, <<Node("SEQ", "SEQ", NullType, stack[1].nodes)>>)
    BY <1>15 DEF Block
  <2>2. 1 \in 0..Len(stack) /\ stack[1].nodes \in Seq(1..Len(ast))
    BY <1>0, <2>1 DEF Holds, TypeInv, Shape
  <2>3. /\ stack[1].nodes \in Seq(Vars \cup 1..(Len(ast) + 1))
        /\ stack[1].nodes \in Seq(1..(Len(ast) + 1))
    <3>1. 1..Len(ast) \subseteq 1..(Len(ast) + 1)
      BY <1>0
    <3>2. 1..Len(ast) \subseteq Vars \cup 1..(Len(ast) + 1)
      BY <3>1
    <3>3. /\ Seq(1..Len(ast)) \subseteq Seq(Vars \cup 1..(Len(ast) + 1))
          /\ Seq(1..Len(ast)) \subseteq Seq(1..(Len(ast) + 1))
      BY <3>1, <3>2, SeqMonotonic
    <3>4. QED
      BY <2>2, <3>3
  <2>4. "SEQ" \in StmKinds /\ "SEQ" \in Ops
    BY DEF StmKinds, Ops
  <2>5. QED
    BY <2>1, <2>2, <2>3, <2>4, OneStmTypeInv
<1>16. ASSUME FirstOfList PROVE TypeInv'
  <2>1. /\ Parsing /\ Holds(1, "stm") /\ Reduce(1, Item("list", <<Value(1)>>))
        /\ pending' = <<Value(1)>>
        /\ UNCHANGED <<phase, cells, Environment, ast, passed, program>>
    BY <1>16 DEF FirstOfList
  <2>2. 1 \in 0..Len(stack) /\ Value(1) \in 1..Len(ast)
    BY <1>0, <2>1, HeldValue
  <2>3. <<Value(1)>> \in Seq(1..Len(ast)) /\ <<Value(1)>> # <<>>
    BY <1>0, <2>2
  <2>4. QED
    BY <2>1, <2>2, <2>3, ListTypeInv
<1>17. ASSUME NextOfList PROVE TypeInv'
  <2> DEFINE nodes == Append(stack[2].nodes, Value(1))
  <2>1. /\ Parsing /\ Holds(1, "stm") /\ Holds(2, "list")
        /\ Reduce(2, Item("list", nodes))
        /\ pending' = <<Value(1)>>
        /\ UNCHANGED <<phase, cells, Environment, ast, passed, program>>
    BY <1>17 DEF NextOfList
  <2>2. 2 \in 0..Len(stack) /\ Value(1) \in 1..Len(ast)
    BY <1>0, <2>1, HeldValue
  <2>3. stack[2].nodes \in Seq(1..Len(ast))
    <3>1. 2 \in DOMAIN stack /\ stack[2].sort = "list"
      BY <1>0, <2>1, TypeOKDef DEF Holds
    <3>2. QED
      BY <1>0, <3>1 DEF TypeInv, Shape
  <2>4. nodes \in Seq(1..Len(ast)) /\ Len(nodes) = Len(stack[2].nodes) + 1
    BY <2>2, <2>3, AppendProperties
  <2>5. <<Value(1)>> \in Seq(1..Len(ast))
    BY <1>0, <2>2
  <2> HIDE DEF nodes
  <2>6. nodes # <<>>
    <3>1. Len(nodes) # 0
      BY <2>3, <2>4
    <3>2. QED
      BY <3>1
  <2>7. QED
    BY <2>1, <2>2, <2>4, <2>5, <2>6, ListTypeInv
<1>18. QED
  BY <1>1, <1>2, <1>3, <1>4, <1>5, <1>6, <1>7, <1>8, <1>9, <1>10, <1>11, <1>12, <1>13,
     <1>14, <1>15, <1>16, <1>17
     DEF ParseStm

\* The productions outside expressions and statements.
LEMMA DefineTypeInv == TypeInv /\ Define => TypeInv'
<1> SUFFICES ASSUME TypeInv, Define PROVE TypeInv'
  OBVIOUS
<1>0. /\ TypeOK /\ Shape
      /\ Len(ast) \in Nat /\ Len(cells) \in Nat /\ Len(stack) \in Nat
      /\ DOMAIN ast = 1..Len(ast) /\ DOMAIN stack = 1..Len(stack)
  BY TypeOKDef DEF TypeInv
<1>1. ASSUME NEW ids \in SUBSET Vars, NEW tag \in DeclTags, VarDefinition(ids, tag)
      PROVE  TypeInv'
  <2>1. /\ phase = "definitions" /\ Allocate(tag, "declared")
        /\ varEnvironment' = varEnvironment \cup ids
        /\ varType' = [v \in Vars |-> IF v \in ids THEN Len(cells) + 1 ELSE varType[v]]
        /\ reserved' = [v \in Vars |-> IF v \in ids THEN reserved[v] \cup CommSize(tag)
                                                    ELSE reserved[v]]
        /\ UNCHANGED <<phase, ast, stack, Checker, program>>
    BY <1>1 DEF VarDefinition
  <2>2. tag \in Tag /\ "declared" \in Origins
    BY DEF DeclTags, NumberTags, Tag, sizeMap, Origins
  <2>3. cells' \in Seq(Cell) /\ Len(cells') = Len(cells) + 1
    BY <1>0, <2>1, <2>2, AllocateTypes
  <2>4. varType' \in [Vars -> NullType..Len(cells')]
    <3>1. varType \in [Vars -> NullType..Len(cells)] /\ Len(cells) + 1 \in NullType..Len(cells')
      BY <1>0, <2>3 DEF TypeOK, NullType
    <3>2. NullType..Len(cells) \subseteq NullType..Len(cells')
      BY <1>0, <2>3 DEF NullType
    <3>3. QED
      BY <2>1, <3>1, <3>2
  <2>5. reserved' \in [Vars -> SUBSET Nat]
    <3>1. CommSize(tag) \in SUBSET Nat
      BY DEF CommSize, NumberTags, sizeMap
    <3>2. reserved \in [Vars -> SUBSET Nat]
      BY <1>0 DEF TypeOK
    <3>3. QED
      BY <2>1, <3>1, <3>2
  <2>6. ast \in Seq(NodeSet(Len(cells'), Len(ast)))
    <3>1. NodeSet(Len(cells), Len(ast)) \subseteq NodeSet(Len(cells'), Len(ast))
      BY <1>0, <2>3, NodeSetMonotonic
    <3>2. QED
      BY <1>0, <3>1, TypeOKDef, SeqMonotonic
  <2>7. TypeOK'
    <3>1. varEnvironment' \subseteq Vars
      BY <1>0, <2>1 DEF TypeOK
    <3>2. ast' \in Seq([kind : ExprKinds \cup StmKinds, op : Ops, type : NullType..Len(cells'),
                        kids : Seq(Ref(ast'))])
      BY <1>0, <2>1, <2>6, TypeOKDef DEF NodeSet
    <3>3. QED
      BY <1>0, <2>1, <2>3, <2>4, <2>5, <3>1, <3>2 DEF TypeOK, Checker
  <2>8. Shape'
    BY <1>0, <2>1, <2>3 DEF Shape, ProcedureCell
  <2>9. QED
    BY <2>7, <2>8 DEF TypeInv
<1>2. ASSUME BeginBlock \/ Begin PROVE TypeInv'
  <2>1. /\ phase = "definitions" /\ phase' \in {"body", "main"}
        /\ UNCHANGED <<cells, Environment, ast, stack, Checker, program>>
    BY <1>2 DEF BeginBlock, Begin
  <2>2. TypeOK'
    BY <1>0, <2>1 DEF TypeOK, Environment, Checker, Phases
  <2>3. Shape'
    BY <1>0, <2>1 DEF Shape
  <2>4. QED
    BY <2>2, <2>3 DEF TypeInv
<1>3. ASSUME EndBlock PROVE TypeInv'
  <2>1. /\ phase = "body" /\ phase' = "definitions" /\ stack' = <<>>
        /\ UNCHANGED <<cells, Environment, ast, Checker, program>>
    BY <1>3 DEF EndBlock
  <2>2. TypeOK'
    BY <1>0, <2>1 DEF TypeOK, Environment, Checker, Phases
  <2>3. Shape'
    BY <1>0, <2>1 DEF Shape
  <2>4. QED
    BY <2>2, <2>3 DEF TypeInv
<1>4. ASSUME End PROVE TypeInv'
  <2>1. /\ phase = "main" /\ phase' = "generating" /\ stack' = <<>>
        /\ Holds(1, "list") /\ program' = stack[1].nodes
        /\ UNCHANGED <<cells, Environment, ast, Checker>>
    BY <1>4 DEF End
  <2>2. program' \in Seq(DOMAIN ast)
    BY <1>0, <2>1 DEF Holds, Shape
  <2>3. TypeOK'
    BY <1>0, <2>1, <2>2 DEF TypeOK, Environment, Checker, Phases
  <2>4. Shape'
    BY <1>0, <2>1 DEF Shape
  <2>5. QED
    BY <2>3, <2>4 DEF TypeInv
<1>5. ASSUME SyntaxError PROVE TypeInv'
  BY <1>5, AbortTypeInv DEF SyntaxError
<1>6. QED
  BY <1>1, <1>2, <1>3, <1>4, <1>5 DEF Define

\* The statement CheckTypeVisitor visits.
LEMMA Visited ==
  ASSUME TypeInv, NEW kinds, Visiting(kinds)
  PROVE  /\ Head(pending) \in 1..Len(ast)
         /\ Tail(pending) \in Seq(1..Len(ast))
         /\ ast[Head(pending)] \in NodeSet(Len(cells), Len(ast))
         /\ ast[Head(pending)].kind \in kinds
<1>1. /\ pending \in Seq(1..Len(ast)) /\ pending # <<>>
      /\ DOMAIN ast = 1..Len(ast)
      /\ ast \in Seq(NodeSet(Len(cells), Len(ast)))
  BY TypeOKDef DEF TypeInv, Visiting
<1>2. Head(pending) \in 1..Len(ast) /\ Tail(pending) \in Seq(1..Len(ast))
  BY <1>1, HeadTailProperties
<1>3. QED
  BY <1>1, <1>2, ElementOfSeq DEF Visiting

\* CheckTypeVisitor.
LEMMA CheckTypeInv == TypeInv /\ Check => TypeInv'
<1> SUFFICES ASSUME TypeInv, Check PROVE TypeInv'
  OBVIOUS
<1>0. /\ TypeOK /\ Shape
      /\ Len(ast) \in Nat /\ Len(cells) \in Nat /\ Len(stack) \in Nat
      /\ DOMAIN ast = 1..Len(ast) /\ DOMAIN stack = 1..Len(stack)
      /\ Ref(ast) = Vars \cup 1..Len(ast)
      /\ ast \in Seq(NodeSet(Len(cells), Len(ast)))
  BY TypeOKDef DEF TypeInv
<1>1. ASSUME CheckAFF PROVE TypeInv'
  <2> DEFINE left  == ast[Head(pending)].kids[1]
             right == ast[Head(pending)].kids[2]
  <2>1. /\ Visiting({"AFF"})
        /\ IF right \in Vars
           THEN varType' = [varType EXCEPT ![right] = TypeOf(left)] /\ UNCHANGED ast
           ELSE ast' = [ast EXCEPT ![right].type = TypeOf(left)] /\ UNCHANGED varType
        /\ pending' = Tail(pending)
        /\ UNCHANGED <<phase, cells, varEnvironment, reserved, stack, passed, program>>
    BY <1>1 DEF CheckAFF
  <2>2. left \in Vars \cup 1..Len(ast) /\ right \in Vars \cup 1..Len(ast)
    <3>1. /\ Head(pending) \in 1..Len(ast)
          /\ ast[Head(pending)].kids \in Seq(Vars \cup 1..Len(ast))
          /\ ast[Head(pending)].kind = "AFF"
      BY <2>1, Visited DEF NodeSet
    <3>2. Len(ast[Head(pending)].kids) = 2
      BY <1>0, <3>1 DEF Shape
    <3>3. QED
      BY <3>1, <3>2, ElementOfSeq
  <2>3. TypeOf(left) \in NullType..Len(cells)
    <3>1. CASE left \in Vars
      BY <1>0, <3>1 DEF TypeOf, TypeOK
    <3>2. CASE left \notin Vars
      <4>1. ast[left] \in NodeSet(Len(cells), Len(ast))
        BY <1>0, <2>2, <3>2, ElementOfSeq
      <4>2. QED
        BY <3>2, <4>1 DEF TypeOf, NodeSet
    <3>3. QED
      BY <3>1, <3>2
  <2>4. Tail(pending) \in Seq(1..Len(ast))
    BY <2>1, Visited
  <2> HIDE DEF left, right
  <2>5. CASE right \in Vars
    <3>1. varType' \in [Vars -> NullType..Len(cells)]
      BY <1>0, <2>1, <2>3, <2>5 DEF TypeOK
    <3>2. TypeOK'
      BY <1>0, <2>1, <2>4, <2>5, <3>1 DEF TypeOK
    <3>3. Shape'
      BY <1>0, <2>1, <2>5 DEF Shape
    <3>4. QED
      BY <3>2, <3>3 DEF TypeInv
  <2>6. CASE right \notin Vars
    <3>1. right \in 1..Len(ast) /\ ast[right] \in NodeSet(Len(cells), Len(ast))
      BY <1>0, <2>2, <2>6, ElementOfSeq
    <3> DEFINE node == [ast[right] EXCEPT !.type = TypeOf(left)]
    <3>2. /\ node \in NodeSet(Len(cells), Len(ast))
          /\ node.kind = ast[right].kind /\ node.kids = ast[right].kids
      BY <2>3, <3>1 DEF NodeSet
    <3>3. ast' = [ast EXCEPT ![right] = node]
      BY <2>1, <2>6
    <3> HIDE DEF node
    <3>4. /\ ast' \in Seq(NodeSet(Len(cells), Len(ast))) /\ Len(ast') = Len(ast)
          /\ DOMAIN ast' = 1..Len(ast)
      BY <1>0, <3>1, <3>2, <3>3, ExceptSeq, LenProperties
    <3>5. \A n \in 1..Len(ast) : ast'[n].kind = ast[n].kind /\ ast'[n].kids = ast[n].kids
      BY <1>0, <3>1, <3>2, <3>3
    <3>6. TypeOK'
      <4>1. Ref(ast') = Vars \cup 1..Len(ast)
        BY <3>4 DEF Ref
      <4>2. QED
        BY <1>0, <2>1, <2>4, <2>6, <3>4, <4>1 DEF TypeOK, NodeSet
    <3>7. Shape'
      BY <1>0, <2>1, <3>4, <3>5 DEF Shape
    <3>8. QED
      BY <3>6, <3>7 DEF TypeInv
  <2>7. QED
    BY <2>5, <2>6
<1>2. ASSUME CheckCondition PROVE TypeInv'
  <2>1. /\ Visiting(Conditionals)
        /\ passed' = passed \cup {Head(pending)} /\ pending' = Tail(pending)
        /\ UNCHANGED <<phase, cells, Environment, ast, stack, program>>
    BY <1>2 DEF CheckCondition
  <2>2. Head(pending) \in 1..Len(ast) /\ Tail(pending) \in Seq(1..Len(ast))
    BY <2>1, Visited
  <2>3. TypeOK'
    BY <1>0, <2>1, <2>2 DEF TypeOK, Environment
  <2>4. Shape'
    BY <1>0, <2>1 DEF Shape
  <2>5. QED
    BY <2>3, <2>4 DEF TypeInv
<1>3. ASSUME CheckConditionFails PROVE TypeInv'
  BY <1>3, AbortTypeInv DEF CheckConditionFails
<1>4. ASSUME CheckInside PROVE TypeInv'
  <2>1. /\ Visiting({"SEQ", "LOOP"})
        /\ pending' = ast[Head(pending)].kids \o Tail(pending)
        /\ UNCHANGED <<phase, cells, Environment, ast, stack, passed, program>>
    BY <1>4 DEF CheckInside
  <2>2. /\ Head(pending) \in 1..Len(ast) /\ Tail(pending) \in Seq(1..Len(ast))
        /\ ast[Head(pending)].kind \in {"SEQ", "LOOP"}
    BY <2>1, Visited
  <2>3. ast[Head(pending)].kids \in Seq(1..Len(ast))
    BY <1>0, <2>2 DEF Shape
  <2>4. pending' \in Seq(1..Len(ast))
    BY <2>1, <2>2, <2>3, ConcatProperties
  <2>5. TypeOK'
    BY <1>0, <2>1, <2>4 DEF TypeOK, Environment
  <2>6. Shape'
    BY <1>0, <2>1 DEF Shape
  <2>7. QED
    BY <2>5, <2>6 DEF TypeInv
<1>5. ASSUME CheckNothing PROVE TypeInv'
  <2>1. /\ Visiting({"EXPR", "FOREACH", "SWITCH", "BREAK", "RETURN"})
        /\ pending' = Tail(pending)
        /\ UNCHANGED <<phase, cells, Environment, ast, stack, passed, program>>
    BY <1>5 DEF CheckNothing
  <2>2. Tail(pending) \in Seq(1..Len(ast))
    BY <2>1, Visited
  <2>3. TypeOK'
    BY <1>0, <2>1, <2>2 DEF TypeOK, Environment
  <2>4. Shape'
    BY <1>0, <2>1 DEF Shape
  <2>5. QED
    BY <2>3, <2>4 DEF TypeInv
<1>6. QED
  BY <1>1, <1>2, <1>3, <1>4, <1>5 DEF Check

\* Every reduction and every visit keeps the inductive invariant.
LEMMA NextTypeInv == TypeInv /\ [Next]_vars => TypeInv'
<1> SUFFICES ASSUME TypeInv, [Next]_vars PROVE TypeInv'
  OBVIOUS
<1>1. CASE Next
  BY <1>1, DefineTypeInv, ParseExprTypeInv, ParseStmTypeInv, CheckTypeInv DEF Next
<1>2. CASE UNCHANGED vars
  BY <1>2 DEF TypeInv, TypeOK, Shape, vars
<1>3. QED
  BY <1>1, <1>2

\* The inductive invariant holds in every state of every parse.
LEMMA TypeInvHolds == Spec => []TypeInv
<1>1. QED
  BY InitTypeInv, NextTypeInv, PTL DEF Spec

\* The type invariant of the front end: every reference to a type object or to
\* an AST object, on the parser's stack, in an environment, inside an object or
\* in the work of CheckTypeVisitor, is one to an object that exists.
THEOREM TypeCorrect == Spec => []TypeOK
<1>1. TypeInv => TypeOK
  BY DEF TypeInv
<1>2. QED
  BY <1>1, TypeInvHolds, PTL

-------------------------------------------------------------------------------
(***************************************************************************)
(* Proofs about who may share a type object: VarTypesDeclared holds for    *)
(* every set of variables, every language and every bound.                 *)
(*                                                                         *)
(* VarTypesDeclared is not inductive: CheckTypeVisitor.visit(StmAFF) hands *)
(* the type of a left side to the right side, so the types of the left     *)
(* sides, variables and indexed elements alike, must be known as well.     *)
(***************************************************************************)
\* A type reference that is null or the type object of a declaration.
DeclaredType(c) == c # NullType => cells[c].origin = "declared"

\* What left_part produces: a variable or an ExprGET.
LeftSide(e) == e \in Vars \/ (e \in DOMAIN ast /\ ast[e].kind = "GET")

\* The inductive invariant for VarTypesDeclared.
DeclInv ==
  /\ \A v \in Vars : DeclaredType(varType[v])
  /\ \A n \in DOMAIN ast : ast[n].kind = "GET" => DeclaredType(ast[n].type)
  /\ \A n \in DOMAIN ast : ast[n].kind = "AFF" => LeftSide(ast[n].kids[1])

-------------------------------------------------------------------------------
\* The origin of a type object never changes.
OriginsKept ==
  /\ Len(cells) <= Len(cells')
  /\ \A c \in 1..Len(cells) : cells'[c].origin = cells[c].origin

\* The AST only grows, and by no object of these kinds.
GrowsWithout(kinds) ==
  /\ Len(ast) <= Len(ast')
  /\ \A n \in 1..Len(ast) : ast'[n] = ast[n]
  /\ \A n \in (Len(ast) + 1)..Len(ast') : ast'[n].kind \notin kinds

\* new TypeTree(tag) leaves the other objects alone.
LEMMA AllocateOrigins ==
  ASSUME TypeInv, NEW tag, NEW origin, Allocate(tag, origin)
  PROVE  /\ OriginsKept
         /\ Len(cells') = Len(cells) + 1
         /\ cells'[Len(cells) + 1].origin = origin
<1>1. cells \in Seq(Cell) /\ Len(cells) \in Nat
  BY TypeOKDef DEF TypeInv, TypeOK
<1> DEFINE new == NewCell(tag, origin)
           S == Cell \cup {new}
<1>2. cells \in Seq(S) /\ new \in S
  <2>1. Cell \subseteq S
    OBVIOUS
  <2>2. QED
    BY <1>1, <2>1, SeqMonotonic
<1>3. cells' = Append(cells, new)
  BY DEF Allocate
<1>4. new.origin = origin
  BY DEF NewCell
<1> HIDE DEF S, new
<1>5. /\ Len(cells') = Len(cells) + 1
      /\ \A c \in 1..Len(cells) : cells'[c] = cells[c]
      /\ cells'[Len(cells) + 1] = new
  BY <1>2, <1>3, AppendProperties
<1>6. QED
  BY <1>1, <1>4, <1>5 DEF OriginsKept

\* TypeTree.cast() writes the tag only.
LEMMA CastOrigins ==
  ASSUME NEW cs \in Seq(Cell), NEW c, NEW tag
  PROVE  /\ DOMAIN Cast(cs, c, tag) = DOMAIN cs
         /\ \A d \in DOMAIN cs : Cast(cs, c, tag)[d].origin = cs[d].origin
<1>1. CASE tag = NoCast
  BY <1>1 DEF Cast
<1>2. CASE tag # NoCast
  <2>1. Cast(cs, c, tag) = [cs EXCEPT ![c] = [cs[c] EXCEPT !.tag = tag]]
    BY <1>2 DEF Cast
  <2>2. DOMAIN Cast(cs, c, tag) = DOMAIN cs
    BY <2>1
  <2>3. ASSUME NEW d \in DOMAIN cs PROVE Cast(cs, c, tag)[d].origin = cs[d].origin
    <3>1. CASE d = c
      <4>1. cs[c] \in Cell
        BY <3>1, ElementOfSeq, LenProperties
      <4>2. [cs[c] EXCEPT !.tag = tag].origin = cs[c].origin
        BY <4>1 DEF Cell
      <4>3. QED
        BY <2>1, <3>1, <4>2
    <3>2. CASE d # c
      BY <2>1, <3>2
    <3>3. QED
      BY <3>1, <3>2
  <2>4. QED
    BY <2>2, <2>3
<1>3. QED
  BY <1>1, <1>2

\* One cast, as in a call with one argument.
LEMMA OneCast ==
  ASSUME TypeInv, NEW c, NEW tag, cells' = Cast(cells, c, tag)
  PROVE  OriginsKept
<1>1. cells \in Seq(Cell) /\ DOMAIN cells = 1..Len(cells) /\ Len(cells) \in Nat
  BY TypeOKDef DEF TypeInv, TypeOK
<1>2. /\ DOMAIN cells' = DOMAIN cells
      /\ \A d \in DOMAIN cells : cells'[d].origin = cells[d].origin
  BY <1>1, CastOrigins
<1>3. Len(cells') = Len(cells)
  BY <1>1, <1>2
<1>4. QED
  BY <1>1, <1>2, <1>3 DEF OriginsKept

-------------------------------------------------------------------------------
\* Creating objects none of which is of these kinds.
LEMMA Growth ==
  ASSUME TypeInv, NEW kinds, NEW S, NEW nodes \in Seq(S),
         \A x \in S : x.kind \notin kinds, Create(nodes)
  PROVE  GrowsWithout(kinds)
<1>1. /\ Len(ast) \in Nat /\ Len(nodes) \in Nat
      /\ ast \in Seq(NodeSet(Len(cells), Len(ast)))
  BY TypeOKDef DEF TypeInv
<1> DEFINE T == NodeSet(Len(cells), Len(ast)) \cup S
<1>2. NodeSet(Len(cells), Len(ast)) \subseteq T /\ S \subseteq T
  OBVIOUS
<1> HIDE DEF T
<1>3. ast \in Seq(T) /\ nodes \in Seq(T)
  BY <1>1, <1>2, SeqMonotonic
<1>4. ast' = ast \o nodes
  BY DEF Create
<1>5. /\ Len(ast') = Len(ast) + Len(nodes)
      /\ \A n \in 1..(Len(ast) + Len(nodes)) :
           ast'[n] = IF n <= Len(ast) THEN ast[n] ELSE nodes[n - Len(ast)]
  BY <1>3, <1>4, ConcatProperties
<1>6. ASSUME NEW n \in (Len(ast) + 1)..Len(ast') PROVE ast'[n].kind \notin kinds
  <2>1. n - Len(ast) \in 1..Len(nodes) /\ ast'[n] = nodes[n - Len(ast)]
    BY <1>1, <1>5
  <2>2. nodes[n - Len(ast)] \in S
    BY <2>1, ElementOfSeq
  <2>3. QED
    BY <2>1, <2>2
<1>7. QED
  BY <1>1, <1>5, <1>6 DEF GrowsWithout

\* The kinds whose type, or whose first child, DeclInv speaks of.
Delicate == {"GET", "AFF"}

\* Growth for the productions that create up to four objects.
LEMMA Growth1 ==
  ASSUME TypeInv, NEW node, node.kind \notin Delicate, Create(<<node>>)
  PROVE  GrowsWithout(Delicate)
<1> DEFINE S == {node}
<1>1. <<node>> \in Seq(S) /\ \A x \in S : x.kind \notin Delicate
  OBVIOUS
<1> HIDE DEF S
<1>2. QED
  BY <1>1, Growth

\* Two objects, as in a call with one argument.
LEMMA Growth2 ==
  ASSUME TypeInv, NEW n1, NEW n2, n1.kind \notin Delicate, n2.kind \notin Delicate,
         Create(<<n1, n2>>)
  PROVE  GrowsWithout(Delicate)
<1> DEFINE S == {n1, n2}
<1>1. <<n1, n2>> \in Seq(S) /\ \A x \in S : x.kind \notin Delicate
  OBVIOUS
<1> HIDE DEF S
<1>2. QED
  BY <1>1, Growth

\* Three objects, as in the statement that is such a call.
LEMMA Growth3 ==
  ASSUME TypeInv, NEW n1, NEW n2, NEW n3,
         n1.kind \notin Delicate, n2.kind \notin Delicate, n3.kind \notin Delicate,
         Create(<<n1, n2, n3>>)
  PROVE  GrowsWithout(Delicate)
<1> DEFINE S == {n1, n2, n3}
<1>1. <<n1, n2, n3>> \in Seq(S) /\ \A x \in S : x.kind \notin Delicate
  OBVIOUS
<1> HIDE DEF S
<1>2. QED
  BY <1>1, Growth

\* Four objects, as in the statement that is a call with two arguments.
LEMMA Growth4 ==
  ASSUME TypeInv, NEW n1, NEW n2, NEW n3, NEW n4,
         n1.kind \notin Delicate, n2.kind \notin Delicate,
         n3.kind \notin Delicate, n4.kind \notin Delicate,
         Create(<<n1, n2, n3, n4>>)
  PROVE  GrowsWithout(Delicate)
<1> DEFINE S == {n1, n2, n3, n4}
<1>1. <<n1, n2, n3, n4>> \in Seq(S) /\ \A x \in S : x.kind \notin Delicate
  OBVIOUS
<1> HIDE DEF S
<1>2. QED
  BY <1>1, Growth

\* A step that leaves the variables' types alone, keeps the origins and builds
\* nothing delicate.
Harmless == varType' = varType /\ OriginsKept /\ GrowsWithout(Delicate)

\* The weaker condition that every step which creates objects meets: a new
\* ExprGET has no type, a new StmAFF has a left part of the old AST on its left.
SafeGrowth ==
  /\ Len(ast) <= Len(ast')
  /\ \A n \in 1..Len(ast) : ast'[n] = ast[n]
  /\ \A n \in (Len(ast) + 1)..Len(ast') :
       /\ ast'[n].kind = "GET" => ast'[n].type = NullType
       /\ ast'[n].kind = "AFF" => LeftSide(ast'[n].kids[1])

\* Such a step keeps DeclInv.
LEMMA GrowthDeclInv ==
  ASSUME TypeInv, TypeInv', DeclInv, varType' = varType, OriginsKept, SafeGrowth
  PROVE  DeclInv'
<1>1. /\ varType \in [Vars -> NullType..Len(cells)]
      /\ Len(cells) \in Nat /\ Len(ast) \in Nat /\ DOMAIN ast = 1..Len(ast)
      /\ ast \in Seq(NodeSet(Len(cells), Len(ast)))
  BY TypeOKDef DEF TypeInv, TypeOK
<1>2. Len(ast') \in Nat /\ DOMAIN ast' = 1..Len(ast')
  BY LenProperties DEF TypeInv, TypeOK
<1>3. /\ \A c \in 1..Len(cells) : cells'[c].origin = cells[c].origin
      /\ Len(ast) <= Len(ast')
      /\ \A n \in 1..Len(ast) : ast'[n] = ast[n]
      /\ \A n \in (Len(ast) + 1)..Len(ast') :
           /\ ast'[n].kind = "GET" => ast'[n].type = NullType
           /\ ast'[n].kind = "AFF" => LeftSide(ast'[n].kids[1])
  BY DEF OriginsKept, SafeGrowth
<1>4. ASSUME NEW v \in Vars PROVE DeclaredType(varType[v])'
  <2>1. varType[v] \in NullType..Len(cells)
    BY <1>1
  <2>2. QED
    BY <1>1, <1>3, <2>1 DEF DeclInv, DeclaredType, NullType
<1>5. ASSUME NEW n \in DOMAIN ast', ast'[n].kind = "GET"
      PROVE  DeclaredType(ast[n].type)'
  <2>1. CASE n \in 1..Len(ast)
    <3>1. ast'[n] = ast[n] /\ ast[n] \in NodeSet(Len(cells), Len(ast))
      BY <1>1, <1>3, <2>1, ElementOfSeq
    <3>2. ast[n].type \in NullType..Len(cells)
      BY <3>1 DEF NodeSet
    <3>3. DeclaredType(ast[n].type)
      BY <1>1, <1>5, <2>1, <3>1 DEF DeclInv
    <3>4. ast[n].type # NullType => cells'[ast[n].type].origin = "declared"
      <4>1. HAVE ast[n].type # NullType
      <4>2. ast[n].type \in 1..Len(cells)
        BY <1>1, <3>2, <4>1 DEF NullType
      <4>3. cells[ast[n].type].origin = "declared"
        BY <3>3, <4>1 DEF DeclaredType
      <4>4. QED
        BY <1>3, <4>2, <4>3
    <3>5. QED
      BY <3>1, <3>4 DEF DeclaredType
  <2>2. CASE n \in (Len(ast) + 1)..Len(ast')
    <3>1. ast'[n].type = NullType
      BY <1>3, <1>5, <2>2
    <3>2. QED
      BY <3>1 DEF DeclaredType
  <2>3. QED
    BY <1>1, <1>2, <2>1, <2>2
<1>6. ASSUME NEW n \in DOMAIN ast', ast'[n].kind = "AFF"
      PROVE  LeftSide(ast[n].kids[1])'
  <2>1. LeftSide(ast'[n].kids[1])
    <3>1. CASE n \in 1..Len(ast)
      <4>1. ast'[n] = ast[n]
        BY <1>3, <3>1
      <4>2. QED
        BY <1>1, <1>6, <3>1, <4>1 DEF DeclInv
    <3>2. CASE n \in (Len(ast) + 1)..Len(ast')
      BY <1>3, <1>6, <3>2
    <3>3. QED
      BY <1>1, <1>2, <3>1, <3>2
  <2>2. QED
    BY <1>1, <1>2, <1>3, <2>1 DEF LeftSide
<1>7. QED
  BY <1>4, <1>5, <1>6 DEF DeclInv

\* A harmless step keeps DeclInv.
LEMMA HarmlessDeclInv ==
  ASSUME TypeInv, TypeInv', DeclInv, Harmless
  PROVE  DeclInv'
<1>1. SafeGrowth
  BY DEF Harmless, GrowsWithout, SafeGrowth, Delicate
<1>2. QED
  BY <1>1, GrowthDeclInv DEF Harmless

\* Every production of an expression but IDENTIFIER '[' expression ']'.
LEMMA ParseExprHarmless ==
  ASSUME TypeInv, ParseExpr,
         \A v \in Vars : ~IndexedLeftPart(v), phase' # "aborted"
  PROVE  Harmless
<1>0. Len(cells) \in Nat /\ Len(ast) \in Nat
  BY TypeOKDef DEF TypeInv
<1>a. cells' = cells => OriginsKept
  BY <1>0 DEF OriginsKept
<1>1. ASSUME NEW l \in Literals, ConstantExpression(l) PROVE Harmless
  <2>1. /\ Allocate(literalTag[l], "fresh") /\ varType' = varType
        /\ Create(<<Node("CONSTANT", l, Len(cells) + 1, <<>>)>>)
    BY <1>1 DEF ConstantExpression, ToExpr, Environment
  <2>2. Node("CONSTANT", l, Len(cells) + 1, <<>>).kind \notin Delicate
    BY DEF Node, Delicate
  <2>3. QED
    BY <2>1, <2>2, AllocateOrigins, Growth1 DEF Harmless
<1>2. ASSUME NEW v \in Vars, LeftPart(v) PROVE Harmless
  <2>1. varType' = varType /\ cells' = cells /\ Create(<<>>)
    BY <1>2 DEF LeftPart, ToExpr, Environment
  <2> DEFINE S == {}
  <2>2. <<>> \in Seq(S) /\ \A x \in S : x.kind \notin Delicate
    OBVIOUS
  <2> HIDE DEF S
  <2>3. GrowsWithout(Delicate)
    BY <2>1, <2>2, Growth
  <2>4. QED
    BY <1>a, <2>1, <2>3 DEF Harmless
<1>3. ASSUME NEW v \in Vars PROVE ~UnknownVariable(v)
  BY DEF UnknownVariable, Abort
<1>4. ASSUME NEW op, AliasBinary(op) PROVE Harmless
  <2> DEFINE node == Node("BINARY", op, TypeOf(Value(2)), <<Value(2), Value(1)>>)
  <2>1. varType' = varType /\ cells' = cells /\ Create(<<node>>)
    BY <1>4 DEF AliasBinary, ToExpr, Environment
  <2>2. node.kind \notin Delicate
    BY DEF Node, Delicate
  <2>3. QED
    BY <1>a, <2>1, <2>2, Growth1 DEF Harmless
<1>5. ASSUME NEW op, Comparison(op) PROVE Harmless
  <2> DEFINE node == Node("BINARY", op, Len(cells) + 1, <<Value(2), Value(1)>>)
  <2>1. varType' = varType /\ Allocate("BOOLEAN", "fresh") /\ Create(<<node>>)
    BY <1>5 DEF Comparison, ToExpr, Environment
  <2>2. node.kind \notin Delicate
    BY DEF Node, Delicate
  <2>3. QED
    BY <2>1, <2>2, AllocateOrigins, Growth1 DEF Harmless
<1>6. ASSUME NEW op, Unary(op) PROVE Harmless
  <2> DEFINE node == Node("UNARY", op, TypeOf(Value(1)), <<Value(1)>>)
  <2>1. varType' = varType /\ cells' = cells /\ Create(<<node>>)
    BY <1>6 DEF Unary, ToExpr, Environment
  <2>2. node.kind \notin Delicate
    BY DEF Node, Delicate
  <2>3. QED
    BY <1>a, <2>1, <2>2, Growth1 DEF Harmless
<1>7. ASSUME NEW n, UserCall(n) PROVE Harmless
  <2> DEFINE node == Node("CALL", "user", NullType, Listed(n))
  <2>1. varType' = varType /\ cells' = cells /\ Create(<<node>>)
    BY <1>7 DEF UserCall, ToExpr, Environment
  <2>2. node.kind \notin Delicate
    BY DEF Node, Delicate
  <2>3. QED
    BY <1>a, <2>1, <2>2, Growth1 DEF Harmless
<1>8. ASSUME NEW kind \in {"EXPRLIST", "EXPRSET", "EXPRRANGE"}, NEW n, Aggregate(kind, n)
      PROVE  Harmless
  <2> DEFINE node == Node(kind, kind, Len(cells) + 1, Listed(n))
             tag == IF kind = "EXPRSET" THEN "SET" ELSE "FREE"
  <2>1. varType' = varType /\ Allocate(tag, "fresh") /\ Create(<<node>>)
    BY <1>8 DEF Aggregate, ToExpr, Environment
  <2>2. node.kind \notin Delicate
    BY DEF Node, Delicate
  <2>3. QED
    BY <2>1, <2>2, AllocateOrigins, Growth1 DEF Harmless
<1>9. ASSUME NEW f, Read(f) PROVE Harmless
  <2> DEFINE node == Node("CALL", f, functionCell[f], <<>>)
  <2>1. varType' = varType /\ cells' = cells /\ Create(<<node>>)
    BY <1>9 DEF Read, ToExpr, Environment
  <2>2. node.kind \notin Delicate
    BY DEF Node, Delicate
  <2>3. QED
    BY <1>a, <2>1, <2>2, Growth1 DEF Harmless
<1>10. ASSUME DigitalRead PROVE Harmless
  <2> DEFINE n1 == Node("CONSTANT", "EXPR", Len(cells) + 1, <<Value(1)>>)
             n2 == Node("UNARY", "ARG", Len(cells) + 1, <<Top>>)
             n3 == Node("CALL", "digitalRead", functionCell.digitalRead, <<Top + 1>>)
  <2>1. varType' = varType /\ Allocate("UINT8_T", "fresh") /\ Create(<<n1, n2, n3>>)
    BY <1>10 DEF DigitalRead, ToExpr, Environment
  <2>2. n1.kind \notin Delicate /\ n2.kind \notin Delicate /\ n3.kind \notin Delicate
    BY DEF Node, Delicate
  <2>3. QED
    BY <2>1, <2>2, AllocateOrigins, Growth3 DEF Harmless
<1>11. ASSUME AnalogRead PROVE Harmless
  <2> DEFINE n1 == Node("UNARY", "ARG", TypeOf(Value(1)), <<Value(1)>>)
             n2 == Node("CALL", "analogRead", functionCell.analogRead, <<Top>>)
  <2>1. /\ varType' = varType /\ cells' = Cast(cells, TypeOf(Value(1)), "PIN")
        /\ Create(<<n1, n2>>)
    BY <1>11 DEF AnalogRead, ToExpr, Environment
  <2>2. n1.kind \notin Delicate /\ n2.kind \notin Delicate
    BY DEF Node, Delicate
  <2>3. QED
    BY <2>1, <2>2, OneCast, Growth2 DEF Harmless
<1>12. QED
  BY <1>1, <1>2, <1>3, <1>4, <1>5, <1>6, <1>7, <1>8, <1>9, <1>10, <1>11 DEF ParseExpr

\* Every production of stm, case and list_of_stms but the assignment.
LEMMA ParseStmHarmless ==
  ASSUME TypeInv, ParseStm,
         \A op \in AffOps : ~Assignment(op), phase' # "aborted"
  PROVE  Harmless
<1>0. Len(cells) \in Nat /\ Len(ast) \in Nat /\ cells \in Seq(Cell)
  BY TypeOKDef DEF TypeInv, TypeOK
<1>a. cells' = cells => OriginsKept
  BY <1>0 DEF OriginsKept
<1>b. ast' = ast => GrowsWithout(Delicate)
  BY <1>0 DEF GrowsWithout
<1>1. ASSUME NEW op, Increment(op) PROVE Harmless
  <2> DEFINE n1 == Node("UNARY", op, TypeOf(Value(1)), <<Value(1)>>)
             n2 == Node("EXPR", "EXPR", NullType, <<Top>>)
  <2>1. varType' = varType /\ cells' = cells /\ Create(<<n1, n2>>)
    BY <1>1 DEF Increment, ToStm, Environment
  <2>2. n1.kind \notin Delicate /\ n2.kind \notin Delicate
    BY DEF Node, Delicate
  <2>3. QED
    BY <1>a, <2>1, <2>2, Growth2 DEF Harmless
<1>2. ASSUME NEW p, OneArgProcedure(p) PROVE Harmless
  <2> DEFINE n1 == Node("UNARY", "ARG", TypeOf(Value(1)), <<Value(1)>>)
             n2 == Node("CALL", p, ProcedureCell, <<Top>>)
             n3 == Node("EXPR", "EXPR", NullType, <<Top + 1>>)
  <2>1. /\ varType' = varType
        /\ cells' = Cast(cells, TypeOf(Value(1)), argCasts[p][1])
        /\ Create(<<n1, n2, n3>>)
    BY <1>2 DEF OneArgProcedure, ToStm, Environment
  <2>2. n1.kind \notin Delicate /\ n2.kind \notin Delicate /\ n3.kind \notin Delicate
    BY DEF Node, Delicate
  <2>3. QED
    BY <2>1, <2>2, OneCast, Growth3 DEF Harmless
<1>3. ASSUME NEW p \in TwoArgProcs, TwoArgProcedure(p) PROVE Harmless
  <2> DEFINE n1 == Node("UNARY", "ARG", TypeOf(Value(2)), <<Value(2)>>)
             n2 == Node("UNARY", "ARG", TypeOf(Value(1)), <<Value(1)>>)
             n3 == Node("CALL", p, ProcedureCell, <<Top, Top + 1>>)
             n4 == Node("EXPR", "EXPR", NullType, <<Top + 2>>)
             cs == Cast(cells, TypeOf(Value(2)), argCasts[p][1])
  <2>1. /\ Parsing /\ Holds(2, "expr") /\ TypeOf(Value(2)) # NullType
        /\ varType' = varType
        /\ cells' = Cast(cs, TypeOf(Value(1)), argCasts[p][2])
        /\ Create(<<n1, n2, n3, n4>>)
    BY <1>3 DEF TwoArgProcedure, ToStm, Environment
  <2>2. cs \in Seq(Cell) /\ Len(cs) = Len(cells)
    <3>1. argCasts[p][1] \in Tag
      BY DEF TwoArgProcs, argCasts, Tag, sizeMap
    <3>2. TypeOf(Value(2)) \in NullType..Len(cells)
      BY <2>1, HeldValue
    <3>3. QED
      BY <1>0, <2>1, <3>1, <3>2, CastTypes
  <2>3. /\ DOMAIN cs = DOMAIN cells
        /\ \A d \in DOMAIN cells : cs[d].origin = cells[d].origin
    BY <1>0, CastOrigins
  <2> HIDE DEF cs
  <2>4. /\ DOMAIN cells' = DOMAIN cs
        /\ \A d \in DOMAIN cs : cells'[d].origin = cs[d].origin
    BY <2>1, <2>2, CastOrigins
  <2>5. OriginsKept
    <3>1. DOMAIN cells = 1..Len(cells) /\ Len(cells') = Len(cells)
      BY <1>0, <2>3, <2>4
    <3>2. QED
      BY <1>0, <2>3, <2>4, <3>1 DEF OriginsKept
  <2>6. /\ n1.kind \notin Delicate /\ n2.kind \notin Delicate
        /\ n3.kind \notin Delicate /\ n4.kind \notin Delicate
    BY DEF Node, Delicate
  <2> HIDE DEF n1, n2, n3, n4
  <2>7. QED
    BY <2>1, <2>5, <2>6, Growth4 DEF Harmless
<1>4. ASSUME NEW p PROVE ~CastOfNull(p) /\ ~UnregisteredProcedure
  BY DEF CastOfNull, UnregisteredProcedure, Abort
<1>5. ASSUME NEW n, UserCallStm(n) PROVE Harmless
  <2> DEFINE n1 == Node("CALL", "user", NullType, Listed(n))
             n2 == Node("EXPR", "EXPR", NullType, <<Top>>)
  <2>1. varType' = varType /\ cells' = cells /\ Create(<<n1, n2>>)
    BY <1>5 DEF UserCallStm, ToStm, Environment
  <2>2. n1.kind \notin Delicate /\ n2.kind \notin Delicate
    BY DEF Node, Delicate
  <2>3. QED
    BY <1>a, <2>1, <2>2, Growth2 DEF Harmless
<1>6. ASSUME NEW n, Switch(n) PROVE Harmless
  <2> DEFINE node == Node("SWITCH", "SWITCH", NullType, <<Value(n + 1)>> \o Listed(n))
  <2>1. varType' = varType /\ cells' = cells /\ Create(<<node>>)
    BY <1>6 DEF Switch, ToStm, Environment
  <2>2. node.kind \notin Delicate
    BY DEF Node, Delicate
  <2>3. QED
    BY <1>a, <2>1, <2>2, Growth1 DEF Harmless
<1>7. ASSUME CaseStm PROVE Harmless
  <2> DEFINE node == Node("CASE", "CASE", NullType, <<Value(2), Value(1)>>)
  <2>1. varType' = varType /\ cells' = cells /\ Create(<<node>>)
    BY <1>7 DEF CaseStm, Environment
  <2>2. node.kind \notin Delicate
    BY DEF Node, Delicate
  <2>3. QED
    BY <1>a, <2>1, <2>2, Growth1 DEF Harmless
<1>8. ASSUME NEW kind \in {"IF", "WHILE", "FOREACH"}, Governed(kind) PROVE Harmless
  <2> DEFINE node == Node(kind, kind, NullType, <<Value(2), Value(1)>>)
  <2>1. varType' = varType /\ cells' = cells /\ Create(<<node>>)
    BY <1>8 DEF Governed, ToStm, Environment
  <2>2. node.kind \notin Delicate
    BY DEF Node, Delicate
  <2>3. QED
    BY <1>a, <2>1, <2>2, Growth1 DEF Harmless
<1>9. ASSUME NEW node, node.kind \notin Delicate, NEW k, ToStm(k, <<node>>), cells' = cells
      PROVE  Harmless
  <2>1. varType' = varType /\ Create(<<node>>)
    BY <1>9 DEF ToStm, Environment
  <2>2. QED
    BY <1>9, <1>a, <2>1, Growth1 DEF Harmless
<1>10. ASSUME IfElse \/ DoWhile \/ Loop \/ Break \/ Return \/ Block PROVE Harmless
  <2>1. CASE IfElse
    <3>1. Node("IF", "ELSE", NullType, <<Value(3), Value(2), Value(1)>>).kind \notin Delicate
      BY DEF Node, Delicate
    <3>2. QED
      BY <1>9, <2>1, <3>1 DEF IfElse
  <2>2. CASE DoWhile
    <3>1. Node("DO", "DO", NullType, <<Value(1), Value(2)>>).kind \notin Delicate
      BY DEF Node, Delicate
    <3>2. QED
      BY <1>9, <2>2, <3>1 DEF DoWhile
  <2>3. CASE Loop
    <3>1. Node("LOOP", "LOOP", NullType, <<Value(1)>>).kind \notin Delicate
      BY DEF Node, Delicate
    <3>2. QED
      BY <1>9, <2>3, <3>1 DEF Loop
  <2>4. CASE Break
    <3>1. Node("BREAK", "BREAK", NullType, <<>>).kind \notin Delicate
      BY DEF Node, Delicate
    <3>2. QED
      BY <1>9, <2>4, <3>1 DEF Break
  <2>5. CASE Return
    <3>1. Node("RETURN", "RETURN", NullType, <<Value(1)>>).kind \notin Delicate
      BY DEF Node, Delicate
    <3>2. QED
      BY <1>9, <2>5, <3>1 DEF Return
  <2>6. CASE Block
    <3>1. Node("SEQ", "SEQ", NullType, stack[1].nodes).kind \notin Delicate
      BY DEF Node, Delicate
    <3>2. QED
      BY <1>9, <2>6, <3>1 DEF Block
  <2>7. QED
    BY <1>10, <2>1, <2>2, <2>3, <2>4, <2>5, <2>6
<1>11. ASSUME FirstOfList \/ NextOfList PROVE Harmless
  <2>1. varType' = varType /\ cells' = cells /\ ast' = ast
    BY <1>11 DEF FirstOfList, NextOfList, Environment
  <2>2. QED
    BY <1>a, <1>b, <2>1 DEF Harmless
<1>12. QED
  BY <1>1, <1>2, <1>3, <1>4, <1>5, <1>6, <1>7, <1>8, <1>10, <1>11 DEF ParseStm

\* Nothing is left to speak of when the parse is abandoned.
LEMMA AbortDeclInv == Abort => DeclInv'
BY DEF Abort, DeclInv, DeclaredType, NullType

\* One object is created.
LEMMA GrowthByOne ==
  ASSUME TypeInv, NEW node, Create(<<node>>),
         node.kind = "GET" => node.type = NullType,
         node.kind = "AFF" => LeftSide(node.kids[1])
  PROVE  SafeGrowth
<1>1. Len(ast) \in Nat /\ ast \in Seq(NodeSet(Len(cells), Len(ast)))
  BY TypeOKDef DEF TypeInv
<1> DEFINE T == NodeSet(Len(cells), Len(ast)) \cup {node}
<1>2. NodeSet(Len(cells), Len(ast)) \subseteq T /\ node \in T
  OBVIOUS
<1> HIDE DEF T
<1>3. ast \in Seq(T) /\ <<node>> \in Seq(T) /\ Len(<<node>>) = 1 /\ <<node>>[1] = node
  BY <1>1, <1>2, SeqMonotonic
<1>4. ast' = ast \o <<node>>
  BY DEF Create
<1>5. /\ Len(ast') = Len(ast) + 1
      /\ \A n \in 1..(Len(ast) + 1) :
           ast'[n] = IF n <= Len(ast) THEN ast[n] ELSE <<node>>[n - Len(ast)]
  BY <1>3, <1>4, ConcatProperties
<1>6. ASSUME NEW n \in (Len(ast) + 1)..Len(ast') PROVE ast'[n] = node
  <2>1. n = Len(ast) + 1
    BY <1>1, <1>5
  <2>2. QED
    BY <1>1, <1>3, <1>5, <2>1
<1>7. \A n \in 1..Len(ast) : ast'[n] = ast[n]
  BY <1>1, <1>5
<1>8. QED
  BY <1>1, <1>5, <1>6, <1>7 DEF SafeGrowth

\* The two productions that build what DeclInv speaks of.
LEMMA DelicateDeclInv ==
  ASSUME TypeInv, TypeInv', DeclInv,
         \/ \E v \in Vars : IndexedLeftPart(v)
         \/ \E op \in AffOps : Assignment(op)
  PROVE  DeclInv'
<1>0. Len(cells) \in Nat /\ DOMAIN ast = 1..Len(ast)
  BY TypeOKDef DEF TypeInv
<1>a. cells' = cells => OriginsKept
  BY <1>0 DEF OriginsKept
<1>1. ASSUME NEW v \in Vars, IndexedLeftPart(v) PROVE DeclInv'
  <2> DEFINE node == Node("GET", "GET", NullType, <<Value(1), v>>)
  <2>1. varType' = varType /\ cells' = cells /\ Create(<<node>>)
    BY <1>1 DEF IndexedLeftPart, ToExpr, Environment
  <2>2. node.kind # "AFF" /\ node.type = NullType
    BY DEF Node
  <2> HIDE DEF node
  <2>3. QED
    BY <1>a, <2>1, <2>2, GrowthByOne, GrowthDeclInv
<1>2. ASSUME NEW op \in AffOps, Assignment(op) PROVE DeclInv'
  <2> DEFINE node == Node("AFF", op, NullType, <<Value(2), Value(1)>>)
  <2>1. /\ Holds(2, "expr") /\ IsLeftPart(Value(2))
        /\ varType' = varType /\ cells' = cells /\ Create(<<node>>)
    BY <1>2 DEF Assignment, ToStm, Environment
  <2>2. LeftSide(Value(2))
    <3>1. Value(2) \in Vars \cup 1..Len(ast)
      BY <2>1, HeldValue
    <3>2. QED
      BY <1>0, <2>1, <3>1 DEF LeftSide, IsLeftPart
  <2>3. node.kind # "GET" /\ node.kids[1] = Value(2)
    BY DEF Node
  <2> HIDE DEF node
  <2>4. QED
    BY <1>a, <2>1, <2>2, <2>3, GrowthByOne, GrowthDeclInv
<1>3. QED
  BY <1>1, <1>2

\* The productions outside expressions and statements.
LEMMA DefineDeclInv == TypeInv /\ TypeInv' /\ DeclInv /\ Define => DeclInv'
<1> SUFFICES ASSUME TypeInv, TypeInv', DeclInv, Define PROVE DeclInv'
  OBVIOUS
<1>0. /\ Len(cells) \in Nat /\ Len(ast) \in Nat /\ DOMAIN ast = 1..Len(ast)
      /\ varType \in [Vars -> NullType..Len(cells)]
      /\ ast \in Seq(NodeSet(Len(cells), Len(ast)))
  BY TypeOKDef DEF TypeInv, TypeOK
<1>1. ASSUME NEW ids, NEW tag, VarDefinition(ids, tag) PROVE DeclInv'
  <2>1. /\ Allocate(tag, "declared") /\ ast' = ast
        /\ varType' = [v \in Vars |-> IF v \in ids THEN Len(cells) + 1 ELSE varType[v]]
    BY <1>1 DEF VarDefinition
  <2>2. /\ \A c \in 1..Len(cells) : cells'[c].origin = cells[c].origin
        /\ cells'[Len(cells) + 1].origin = "declared"
    BY <2>1, AllocateOrigins DEF OriginsKept
  <2>3. ASSUME NEW v \in Vars PROVE DeclaredType(varType[v])'
    <3>1. CASE v \in ids
      BY <2>1, <2>2, <3>1 DEF DeclaredType
    <3>2. CASE v \notin ids
      <4>1. varType'[v] = varType[v] /\ varType[v] \in NullType..Len(cells)
        BY <1>0, <2>1, <3>2
      <4>2. DeclaredType(varType[v])
        BY DEF DeclInv
      <4>3. QED
        BY <1>0, <2>2, <4>1, <4>2 DEF DeclaredType, NullType
    <3>3. QED
      BY <3>1, <3>2
  <2>4. ASSUME NEW n \in DOMAIN ast, ast[n].kind = "GET"
        PROVE  ast[n].type # NullType => cells'[ast[n].type].origin = "declared"
    <3>1. HAVE ast[n].type # NullType
    <3>2. ast[n] \in NodeSet(Len(cells), Len(ast))
      BY <1>0, ElementOfSeq
    <3>3. ast[n].type \in 1..Len(cells)
      BY <1>0, <3>1, <3>2 DEF NodeSet, NullType
    <3>4. cells[ast[n].type].origin = "declared"
      BY <2>4, <3>1 DEF DeclInv, DeclaredType
    <3>5. QED
      BY <2>2, <3>3, <3>4
  <2>5. QED
    BY <2>1, <2>3, <2>4 DEF DeclInv, DeclaredType, LeftSide
<1>2. ASSUME BeginBlock \/ Begin \/ EndBlock \/ End PROVE DeclInv'
  <2>1. cells' = cells /\ varType' = varType /\ ast' = ast
    BY <1>2 DEF BeginBlock, Begin, EndBlock, End, Environment
  <2>2. QED
    BY <2>1 DEF DeclInv, DeclaredType, LeftSide
<1>3. ASSUME SyntaxError PROVE DeclInv'
  BY <1>3, AbortDeclInv DEF SyntaxError
<1>4. QED
  BY <1>1, <1>2, <1>3 DEF Define

\* CheckTypeVisitor.
LEMMA CheckDeclInv == TypeInv /\ DeclInv /\ Check => DeclInv'
<1> SUFFICES ASSUME TypeInv, DeclInv, Check PROVE DeclInv'
  OBVIOUS
<1>0. /\ Len(cells) \in Nat /\ Len(ast) \in Nat /\ DOMAIN ast = 1..Len(ast)
      /\ varType \in [Vars -> NullType..Len(cells)]
      /\ ast \in Seq(NodeSet(Len(cells), Len(ast)))
  BY TypeOKDef DEF TypeInv, TypeOK
<1>1. ASSUME CheckAFF PROVE DeclInv'
  <2> DEFINE left  == ast[Head(pending)].kids[1]
             right == ast[Head(pending)].kids[2]
  <2>1. /\ Visiting({"AFF"}) /\ cells' = cells
        /\ IF right \in Vars
           THEN varType' = [varType EXCEPT ![right] = TypeOf(left)] /\ UNCHANGED ast
           ELSE ast' = [ast EXCEPT ![right].type = TypeOf(left)] /\ UNCHANGED varType
    BY <1>1 DEF CheckAFF
  <2>2. DeclaredType(TypeOf(left))
    <3>1. LeftSide(left)
      <4>1. Head(pending) \in 1..Len(ast) /\ ast[Head(pending)].kind = "AFF"
        BY <2>1, Visited
      <4>2. QED
        BY <1>0, <4>1 DEF DeclInv
    <3>2. CASE left \in Vars
      BY <3>2 DEF DeclInv, TypeOf
    <3>3. CASE left \notin Vars
      BY <3>1, <3>3 DEF DeclInv, TypeOf, LeftSide
    <3>4. QED
      BY <3>2, <3>3
  <2> HIDE DEF left, right
  <2>3. CASE right \in Vars
    BY <1>0, <2>1, <2>2, <2>3 DEF DeclInv, DeclaredType, LeftSide
  <2>4. CASE right \notin Vars
    <3>1. /\ varType' = varType /\ DOMAIN ast' = DOMAIN ast
          /\ ast' = [ast EXCEPT ![right] = [ast[right] EXCEPT !.type = TypeOf(left)]]
      BY <2>1, <2>4
    <3>2. ASSUME NEW n \in DOMAIN ast
          PROVE  /\ ast'[n].kind = ast[n].kind /\ ast'[n].kids = ast[n].kids
                 /\ ast'[n].type = ast[n].type \/ ast'[n].type = TypeOf(left)
      <4>1. ast[n] \in NodeSet(Len(cells), Len(ast))
        BY <1>0, ElementOfSeq
      <4>2. CASE n = right
        BY <3>1, <4>1, <4>2 DEF NodeSet
      <4>3. CASE n # right
        BY <3>1, <4>3
      <4>4. QED
        BY <4>2, <4>3
    <3>3. QED
      BY <2>1, <2>2, <3>1, <3>2 DEF DeclInv, DeclaredType, LeftSide
  <2>5. QED
    BY <2>3, <2>4
<1>2. ASSUME CheckCondition \/ CheckInside \/ CheckNothing PROVE DeclInv'
  <2>1. cells' = cells /\ varType' = varType /\ ast' = ast
    BY <1>2 DEF CheckCondition, CheckInside, CheckNothing, Environment
  <2>2. QED
    BY <2>1 DEF DeclInv, DeclaredType, LeftSide
<1>3. ASSUME CheckConditionFails PROVE DeclInv'
  BY <1>3, AbortDeclInv DEF CheckConditionFails
<1>4. QED
  BY <1>1, <1>2, <1>3 DEF Check

\* A parse that is abandoned has no variable whose type could be wrong.
LEMMA AbortedDeclInv == TypeInv' /\ phase' = "aborted" /\ Next => DeclInv'
<1> SUFFICES ASSUME TypeInv', phase' = "aborted", Next, ~Abort PROVE DeclInv'
  BY AbortDeclInv
<1>1. ~Define
  BY DEF Define, VarDefinition, BeginBlock, EndBlock, Begin, End, SyntaxError
<1>2. ~ParseExpr
  BY DEF ParseExpr, Parsing, ConstantExpression, LeftPart, UnknownVariable, IndexedLeftPart,
         AliasBinary, Comparison, Unary, UserCall, Aggregate, Read, DigitalRead, AnalogRead,
         ToExpr
<1>3. ~ParseStm
  BY DEF ParseStm, Parsing, Increment, Assignment, OneArgProcedure, TwoArgProcedure,
         CastOfNull, UnregisteredProcedure, UserCallStm, Switch, CaseStm, Governed, IfElse,
         DoWhile, Loop, Break, Return, Block, FirstOfList, NextOfList, ToStm
<1>4. ~Check
  BY DEF Check, Visiting, CheckAFF, CheckCondition, CheckConditionFails, CheckInside,
         CheckNothing
<1>5. QED
  BY <1>1, <1>2, <1>3, <1>4 DEF Next

\* Every step keeps DeclInv.
LEMMA NextDeclInv == TypeInv /\ TypeInv' /\ DeclInv /\ [Next]_vars => DeclInv'
<1> SUFFICES ASSUME TypeInv, TypeInv', DeclInv, [Next]_vars PROVE DeclInv'
  OBVIOUS
<1>1. CASE UNCHANGED vars
  BY <1>1 DEF DeclInv, DeclaredType, LeftSide, vars
<1>2. CASE Next /\ phase' = "aborted"
  BY <1>2, AbortedDeclInv
<1>3. CASE Define
  BY <1>3, DefineDeclInv
<1>4. CASE Check
  BY <1>4, CheckDeclInv
<1>5. CASE ParseExpr /\ phase' # "aborted"
  <2>1. CASE \E v \in Vars : IndexedLeftPart(v)
    BY <2>1, DelicateDeclInv
  <2>2. CASE \A v \in Vars : ~IndexedLeftPart(v)
    BY <1>5, <2>2, ParseExprHarmless, HarmlessDeclInv
  <2>3. QED
    BY <2>1, <2>2
<1>6. CASE ParseStm /\ phase' # "aborted"
  <2>1. CASE \E op \in AffOps : Assignment(op)
    BY <2>1, DelicateDeclInv
  <2>2. CASE \A op \in AffOps : ~Assignment(op)
    BY <1>6, <2>2, ParseStmHarmless, HarmlessDeclInv
  <2>3. QED
    BY <2>1, <2>2
<1>7. QED
  BY <1>1, <1>2, <1>3, <1>4, <1>5, <1>6 DEF Next

\* Whatever a source declares, casts, checks and assigns, the type object of a
\* variable is the one of a declaration, or none: visit(StmAFF) moves type
\* objects from left sides to right sides only.
THEOREM VariablesKeepDeclaredTypes == Spec => []VarTypesDeclared
<1>1. Init => DeclInv
  BY DEF Init, DeclInv, DeclaredType, NullType
<1>2. DeclInv => VarTypesDeclared
  BY DEF DeclInv, DeclaredType, VarTypesDeclared
<1>3. QED
  BY <1>1, <1>2, InitTypeInv, NextTypeInv, NextDeclInv, PTL DEF Spec
===============================================================================
