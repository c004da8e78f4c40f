-------------------- MODULE CodeGeneratorArguments_proofs ---------------------
(***************************************************************************)
(* The arguments of the functions of the board are where the functions     *)
(* expect them when they are called, whatever was parsed and generated     *)
(* before.                                                                 *)
(***************************************************************************)
EXTENDS CodeGeneratorValues_proofs

-------------------------------------------------------------------------------
(***************************************************************************)
(* The calls the parser builds, and the types check() gives arguments.     *)
(***************************************************************************)
\* The type object is one of one or two bytes.
Sized(cs, c) == c \in DOMAIN cs /\ sizeMap[cs[c].tag] \in 1..2

\* The children of such a call are arguments, two at most; the second one was cast
\* to a type of one or two bytes.
ArgsGood(as, cs, node) ==
  node.kind = "CALL" /\ node.op # "user" =>
    /\ Len(node.kids) <= 2
    /\ \A i \in DOMAIN node.kids :
         LET e == node.kids[i]
         IN /\ e \in DOMAIN as /\ as[e].kind = "UNARY" /\ as[e].op = "ARG"
            /\ i # 1 => Sized(cs, as[e].type)

ArgInv == \A n \in DOMAIN ast : ArgsGood(ast, cells, ast[n])

\* A type object keeps its tag or is cast to one of one or two bytes.
TagsKept ==
  \A c \in DOMAIN cells :
    c \in DOMAIN cells' /\ (cells'[c].tag = cells[c].tag \/ sizeMap[cells'[c].tag] \in 1..2)

LEMMA SizedStays ==
  ASSUME TagsKept, NEW c, Sized(cells, c)
  PROVE  Sized(cells', c)
BY DEF TagsKept, Sized

LEMMA ArgsGoodStays ==
  ASSUME TagsKept, NEW node, ArgsGood(ast, cells, node),
         \A e \in DOMAIN ast : e \in DOMAIN ast' /\ ast'[e] = ast[e]
  PROVE  ArgsGood(ast', cells', node)
BY SizedStays DEF ArgsGood

\* The objects a production creates.
LEMMA ArgsGrow ==
  ASSUME TypeInv, ArgInv, TagsKept, NEW S, NEW nodes \in Seq(S), Create(nodes),
         \A x \in S : ArgsGood(ast', cells', x)
  PROVE  ArgInv'
<1>1. /\ AstGrows /\ Len(nodes) \in Nat /\ Len(ast') = Len(ast) + Len(nodes)
      /\ \A n \in (Len(ast) + 1)..Len(ast') :
           n - Len(ast) \in 1..Len(nodes) /\ ast'[n] = nodes[n - Len(ast)]
  BY Creation
<1>2. Len(ast) \in Nat /\ DOMAIN ast = 1..Len(ast) /\ DOMAIN ast' = 1..Len(ast')
  BY <1>1, TypeOKDef DEF TypeInv, AstGrows
<1>3. \A e \in DOMAIN ast : e \in DOMAIN ast' /\ ast'[e] = ast[e]
  BY <1>1, <1>2 DEF AstGrows
<1>4. ASSUME NEW n \in DOMAIN ast' PROVE ArgsGood(ast', cells', ast'[n])
  <2>1. CASE n \in DOMAIN ast
    <3>1. ArgsGood(ast, cells, ast[n]) /\ ast'[n] = ast[n]
      BY <1>3, <2>1 DEF ArgInv
    <3> QED
      BY <1>3, <3>1, ArgsGoodStays
  <2>2. CASE n \notin DOMAIN ast
    <3>1. n \in (Len(ast) + 1)..Len(ast')
      BY <1>1, <1>2, <2>2
    <3>2. ast'[n] \in S
      BY <1>1, <3>1, ElementOfSeq
    <3> QED
      BY <3>2
  <2> QED
    BY <2>1, <2>2
<1> QED
  BY <1>4 DEF ArgInv

LEMMA OneNodeArgs ==
  ASSUME TypeInv, ArgInv, TagsKept, NEW kind, NEW op, NEW type, NEW kids,
         kind # "CALL" \/ op = "user" \/ kids = <<>>,
         Create(<<Node(kind, op, type, kids)>>)
  PROVE  ArgInv'
<1> DEFINE node == Node(kind, op, type, kids)
           S == {node}
           nodes == <<node>>
<1>1. nodes \in Seq(S) /\ Create(nodes) /\ \A x \in S : x = node
  OBVIOUS
<1>2. node.kind = kind /\ node.op = op /\ node.kids = kids
  BY DEF Node
<1> HIDE DEF node
<1>3. ArgsGood(ast', cells', node)
  BY <1>2 DEF ArgsGood
<1> HIDE DEF S, nodes
<1> QED
  BY <1>1, <1>3, ArgsGrow

LEMMA SameTags == UNCHANGED cells => TagsKept
BY DEF TagsKept

LEMMA AllocateTags ==
  ASSUME TypeInv, NEW tag, NEW origin, Allocate(tag, origin)
  PROVE  TagsKept
<1> DEFINE S == Cell \cup {NewCell(tag, origin)}
<1>1. cells \in Seq(Cell) /\ Cell \subseteq S /\ NewCell(tag, origin) \in S
  BY DEF TypeInv, TypeOK
<1> HIDE DEF S
<1>2. cells \in Seq(S)
  BY <1>1, SeqMonotonic
<1>3. cells' = Append(cells, NewCell(tag, origin))
  BY DEF Allocate
<1>4. /\ DOMAIN cells = 1..Len(cells) /\ DOMAIN cells' = 1..(Len(cells) + 1) /\ Len(cells) \in Nat
      /\ \A i \in 1..Len(cells) : cells'[i] = cells[i]
  BY <1>1, <1>2, <1>3
<1> QED
  BY <1>4 DEF TagsKept

\* The tags the functions of the board cast their arguments to.
SmallTags == {"PIN", "UINT8_T", "UINT16_T"}

LEMMA CastTags ==
  ASSUME NEW cs \in Seq(Cell), NEW c, NEW tag, tag \in SmallTags \cup {NoCast}
  PROVE  /\ DOMAIN Cast(cs, c, tag) = DOMAIN cs
         /\ \A d \in DOMAIN cs :
              \/ Cast(cs, c, tag)[d].tag = cs[d].tag
              \/ sizeMap[Cast(cs, c, tag)[d].tag] \in 1..2
         /\ tag # NoCast /\ c \in DOMAIN cs => Sized(Cast(cs, c, tag), c)
<1>1. DOMAIN Cast(cs, c, tag) = DOMAIN cs
  BY CastOrigins
<1>2. ASSUME NEW d \in DOMAIN cs
      PROVE  /\ Cast(cs, c, tag)[d].tag = cs[d].tag \/ sizeMap[Cast(cs, c, tag)[d].tag] \in 1..2
             /\ tag # NoCast /\ c = d => sizeMap[Cast(cs, c, tag)[d].tag] \in 1..2
  <2>1. CASE tag = NoCast
    BY <2>1 DEF Cast
  <2>2. CASE tag # NoCast /\ c # d
    <3>1. d \in 1..Len(cs)
      BY LenProperties
    <3>2. Cast(cs, c, tag)[d] = cs[d]
      BY <2>2, <3>1, CastElsewhere
    <3> QED
      BY <2>2, <3>2
  <2>3. CASE tag # NoCast /\ c = d
    <3>1. Cast(cs, c, tag) = [cs EXCEPT ![c] = [cs[c] EXCEPT !.tag = tag]]
      BY <2>3 DEF Cast
    <3>2. cs[c] \in Cell
      BY <2>3, ElementOfSeq, LenProperties
    <3>3. [cs[c] EXCEPT !.tag = tag].tag = tag
      BY <3>2 DEF Cell
    <3>4. Cast(cs, c, tag)[d].tag = tag
      BY <2>3, <3>1, <3>3
    <3>5. sizeMap[tag] \in 1..2
      BY <2>3 DEF SmallTags, sizeMap
    <3> QED
      BY <3>4, <3>5
  <2> QED
    BY <2>1, <2>2, <2>3
<1> QED
  BY <1>1, <1>2 DEF Sized

\* A cast of one argument.
LEMMA OneCastTags ==
  ASSUME TypeInv, NEW c, NEW tag, tag \in SmallTags \cup {NoCast}, cells' = Cast(cells, c, tag)
  PROVE  TagsKept
<1>1. cells \in Seq(Cell)
  BY DEF TypeInv, TypeOK
<1> QED
  BY <1>1, CastTags DEF TagsKept

\* A cast of two: the second has the last word.
LEMMA TwoCastsTags ==
  ASSUME TypeInv, NEW c \in 1..Len(cells), NEW d \in 1..Len(cells), NEW tag \in SmallTags, NEW last \in SmallTags,
         cells' = Cast(Cast(cells, c, tag), d, last)
  PROVE  TagsKept /\ Sized(cells', d)
<1> DEFINE cs == Cast(cells, c, tag)
<1>0. tag \in Tag /\ last \in Tag /\ tag # NoCast /\ last # NoCast
  BY DEF SmallTags, Tag, sizeMap, NoCast
<1>1. cells \in Seq(Cell) /\ DOMAIN cells = 1..Len(cells)
  BY LenProperties DEF TypeInv, TypeOK
<1>2. cs \in Seq(Cell)
  <2>1. c \in NullType..Len(cells) /\ c # NullType
    BY <1>1, LenProperties DEF NullType
  <2> QED
    BY <1>0, <1>1, <2>1, CastTypes
<1>3. /\ DOMAIN cs = DOMAIN cells
      /\ \A x \in DOMAIN cells : cs[x].tag = cells[x].tag \/ sizeMap[cs[x].tag] \in 1..2
  BY <1>1, CastTags
<1> HIDE DEF cs
<1>4. /\ DOMAIN Cast(cs, d, last) = DOMAIN cs
      /\ \A x \in DOMAIN cs :
           Cast(cs, d, last)[x].tag = cs[x].tag \/ sizeMap[Cast(cs, d, last)[x].tag] \in 1..2
      /\ d \in DOMAIN cs => Sized(Cast(cs, d, last), d)
  BY <1>0, <1>2, CastTags
<1>5. cells' = Cast(cs, d, last)
  BY DEF cs
<1> QED
  BY <1>1, <1>3, <1>4, <1>5 DEF TagsKept

\* A production that builds the call of a function with its one argument.
LEMMA OneArgument ==
  ASSUME TypeInv, ArgInv, TagsKept, NEW S, NEW nodes \in Seq(S), Create(nodes),
         NEW j \in 1..Len(nodes), nodes[j].kind = "UNARY", nodes[j].op = "ARG",
         \A x \in S : x.kind # "CALL" \/ x.op = "user" \/ x.kids = <<Len(ast) + j>>
  PROVE  ArgInv'
<1>1. /\ AstGrows /\ Len(nodes) \in Nat /\ Len(ast') = Len(ast) + Len(nodes)
      /\ \A n \in (Len(ast) + 1)..Len(ast') :
           n - Len(ast) \in 1..Len(nodes) /\ ast'[n] = nodes[n - Len(ast)]
  BY Creation
<1> DEFINE e == Len(ast) + j
<1>2. e \in (Len(ast) + 1)..Len(ast') /\ e - Len(ast) = j /\ e \in 1..Len(ast')
  BY <1>1, Places
<1>3. e \in DOMAIN ast' /\ ast'[e].kind = "UNARY" /\ ast'[e].op = "ARG"
  BY <1>1, <1>2 DEF AstGrows
<1>4. ASSUME NEW x \in S PROVE ArgsGood(ast', cells', x)
  <2>1. x.kind # "CALL" \/ x.op = "user" \/ x.kids = <<e>>
    OBVIOUS
  <2> HIDE DEF e
  <2>2. ASSUME x.kids = <<e>> PROVE Len(x.kids) <= 2 /\ \A i \in DOMAIN x.kids : i = 1 /\ x.kids[i] = e
    BY <2>2
  <2> QED
    BY <1>3, <2>1, <2>2 DEF ArgsGood
<1> QED
  BY <1>4, ArgsGrow

\* ... or with its two arguments.
LEMMA TwoArguments ==
  ASSUME TypeInv, ArgInv, TagsKept, NEW S, NEW nodes \in Seq(S), Create(nodes), 2 \in 1..Len(nodes),
         \A j \in 1..2 : nodes[j].kind = "UNARY" /\ nodes[j].op = "ARG",
         Sized(cells', nodes[2].type),
         \A x \in S : x.kind # "CALL" \/ x.kids = <<Len(ast) + 1, Len(ast) + 2>>
  PROVE  ArgInv'
<1>1. /\ AstGrows /\ Len(nodes) \in Nat /\ Len(ast') = Len(ast) + Len(nodes)
      /\ \A n \in (Len(ast) + 1)..Len(ast') :
           n - Len(ast) \in 1..Len(nodes) /\ ast'[n] = nodes[n - Len(ast)]
  BY Creation
<1>2. ASSUME NEW j \in 1..2
      PROVE  /\ Len(ast) + j \in DOMAIN ast' /\ ast'[Len(ast) + j] = nodes[j]
  <2>1. Len(ast) + j \in (Len(ast) + 1)..Len(ast') /\ (Len(ast) + j) - Len(ast) = j
        /\ Len(ast) + j \in 1..Len(ast')
    BY <1>1, Places
  <2>2. Len(ast) + j \in DOMAIN ast'
    BY <1>1, <2>1 DEF AstGrows
  <2> QED
    BY <1>1, <2>1, <2>2
<1> DEFINE e == Len(ast) + 1
           d == Len(ast) + 2
<1>3. /\ e \in DOMAIN ast' /\ ast'[e].kind = "UNARY" /\ ast'[e].op = "ARG"
      /\ d \in DOMAIN ast' /\ ast'[d].kind = "UNARY" /\ ast'[d].op = "ARG"
      /\ Sized(cells', ast'[d].type)
  BY <1>2, 1 \in 1..2, 2 \in 1..2
<1>4. ASSUME NEW x \in S PROVE ArgsGood(ast', cells', x)
  <2>1. x.kind # "CALL" \/ x.kids = <<e, d>>
    OBVIOUS
  <2> HIDE DEF e, d
  <2>2. ASSUME x.kids = <<e, d>>
        PROVE  /\ Len(x.kids) <= 2
               /\ \A i \in DOMAIN x.kids : (i = 1 /\ x.kids[i] = e) \/ (i = 2 /\ x.kids[i] = d)
    BY <2>2
  <2> QED
    BY <1>3, <2>1, <2>2 DEF ArgsGood
<1> QED
  BY <1>4, ArgsGrow

LEMMA ParseExprArgs ==
  ASSUME TypeInv, ArgInv, ParseExpr, phase' # "aborted"
  PROVE  ArgInv'
<1>1. ASSUME NEW kind, NEW op, NEW type, NEW kids, NEW k, NEW e,
             kind # "CALL" \/ op = "user" \/ kids = <<>>, ToExpr(k, <<Node(kind, op, type, kids)>>, e),
             TagsKept
      PROVE  ArgInv'
  BY <1>1, OneNodeArgs DEF ToExpr
<1>2. ASSUME NEW l, ConstantExpression(l) PROVE ArgInv'
  <2>1. TagsKept
    BY <1>2, AllocateTags DEF ConstantExpression
  <2> QED
    BY <1>1, <1>2, <2>1 DEF ConstantExpression
<1>3. ASSUME NEW v, LeftPart(v) PROVE ArgInv'
  <2> DEFINE nodes == <<>>
             S == {}
  <2>1. Create(nodes) /\ TagsKept
    BY <1>3, SameTags DEF LeftPart, ToExpr
  <2>2. nodes \in Seq(S) /\ \A x \in S : ArgsGood(ast', cells', x)
    OBVIOUS
  <2> HIDE DEF nodes, S
  <2> QED
    BY <2>1, <2>2, ArgsGrow
<1>4. ASSUME NEW v PROVE ~UnknownVariable(v)
  BY DEF UnknownVariable, Abort
<1>5. ASSUME NEW v, IndexedLeftPart(v) PROVE ArgInv'
  <2>1. "GET" # "CALL" /\ TagsKept
    BY <1>5, SameTags DEF IndexedLeftPart
  <2> QED
    BY <1>1, <1>5, <2>1 DEF IndexedLeftPart
<1>6. ASSUME NEW op, AliasBinary(op) PROVE ArgInv'
  <2>1. "BINARY" # "CALL" /\ TagsKept
    BY <1>6, SameTags DEF AliasBinary
  <2> QED
    BY <1>1, <1>6, <2>1 DEF AliasBinary
<1>7. ASSUME NEW op, Comparison(op) PROVE ArgInv'
  <2>1. "BINARY" # "CALL" /\ TagsKept
    BY <1>7, AllocateTags DEF Comparison
  <2> QED
    BY <1>1, <1>7, <2>1 DEF Comparison
<1>8. ASSUME NEW op, Unary(op) PROVE ArgInv'
  <2>1. "UNARY" # "CALL" /\ TagsKept
    BY <1>8, SameTags DEF Unary
  <2> QED
    BY <1>1, <1>8, <2>1 DEF Unary
<1>9. ASSUME NEW n, UserCall(n) PROVE ArgInv'
  <2>1. TagsKept
    BY <1>9, SameTags DEF UserCall
  <2> QED
    BY <1>1, <1>9, <2>1 DEF UserCall
<1>10. ASSUME NEW kind \in {"EXPRLIST", "EXPRSET", "EXPRRANGE"}, NEW n, Aggregate(kind, n) PROVE ArgInv'
  <2>1. kind # "CALL" /\ TagsKept
    BY <1>10, AllocateTags DEF Aggregate
  <2> QED
    BY <1>1, <1>10, <2>1 DEF Aggregate
<1>11. ASSUME NEW f, Read(f) PROVE ArgInv'
  <2>1. TagsKept
    BY <1>11, SameTags DEF Read
  <2> QED
    BY <1>1, <1>11, <2>1 DEF Read
<1>12. ASSUME DigitalRead PROVE ArgInv'
  <2> DEFINE n1 == Node("CONSTANT", "EXPR", Len(cells) + 1, <<Value(1)>>)
             n2 == Node("UNARY", "ARG", Len(cells) + 1, <<Top>>)
             n3 == Node("CALL", "digitalRead", functionCell.digitalRead, <<Top + 1>>)
             S == {n1, n2, n3}
             nodes == <<n1, n2, n3>>
  <2>1. Create(nodes) /\ TagsKept
    BY <1>12, AllocateTags DEF DigitalRead, ToExpr
  <2>2. nodes \in Seq(S) /\ 2 \in 1..Len(nodes) /\ nodes[2] = n2
    OBVIOUS
  <2>3. Top + 1 = Len(ast) + 2
    BY Places DEF Top
  <2>4. n2.kind = "UNARY" /\ n2.op = "ARG" /\ n1.kind # "CALL" /\ n3.kids = <<Len(ast) + 2>>
    BY <2>3 DEF Node
  <2>5. \A x \in S : x.kind # "CALL" \/ x.op = "user" \/ x.kids = <<Len(ast) + 2>>
    BY <2>4
  <2> HIDE DEF n1, n2, n3, S, nodes
  <2> QED
    BY <2>1, <2>2, <2>4, <2>5, OneArgument
<1>13. ASSUME AnalogRead PROVE ArgInv'
  <2> DEFINE n1 == Node("UNARY", "ARG", TypeOf(Value(1)), <<Value(1)>>)
             n2 == Node("CALL", "analogRead", functionCell.analogRead, <<Top>>)
             S == {n1, n2}
             nodes == <<n1, n2>>
  <2>1. Create(nodes) /\ cells' = Cast(cells, TypeOf(Value(1)), "PIN")
    BY <1>13 DEF AnalogRead, ToExpr
  <2>2. TagsKept
    BY <2>1, OneCastTags DEF SmallTags
  <2>3. nodes \in Seq(S) /\ 1 \in 1..Len(nodes) /\ nodes[1] = n1
    OBVIOUS
  <2>4. n1.kind = "UNARY" /\ n1.op = "ARG" /\ n2.kids = <<Len(ast) + 1>>
    BY DEF Node, Top
  <2>5. \A x \in S : x.kind # "CALL" \/ x.op = "user" \/ x.kids = <<Len(ast) + 1>>
    BY <2>4
  <2> HIDE DEF n1, n2, S, nodes
  <2> QED
    BY <2>1, <2>2, <2>3, <2>4, <2>5, OneArgument
<1> QED
  BY <1>2, <1>3, <1>4, <1>5, <1>6, <1>7, <1>8, <1>9, <1>10, <1>11, <1>12, <1>13 DEF ParseExpr

\* The productions of statements.
LEMMA ParseStmArgs ==
  ASSUME TypeInv, ArgInv, ParseStm, ~FirstOfList, ~NextOfList, phase' # "aborted"
  PROVE  ArgInv'
<1>1. ASSUME NEW kind, NEW op, NEW type, NEW kids, NEW k, kind # "CALL", cells' = cells,
             ToStm(k, <<Node(kind, op, type, kids)>>)
      PROVE  ArgInv'
  BY <1>1, OneNodeArgs, SameTags DEF ToStm
<1>2. ASSUME NEW k, NEW kind, NEW op, NEW type, NEW kids, NEW e, kind # "CALL" \/ op = "user",
             cells' = cells,
             ToStm(k, <<Node(kind, op, type, kids), Node("EXPR", "EXPR", NullType, <<e>>)>>)
      PROVE  ArgInv'
  <2> DEFINE n1 == Node(kind, op, type, kids)
             n2 == Node("EXPR", "EXPR", NullType, <<e>>)
  <2>1. ToStm(k, <<n1, n2>>) /\ (n1.kind # "CALL" \/ n1.op = "user") /\ n2.kind # "CALL"
    BY <1>2 DEF Node
  <2> HIDE DEF n1, n2
  <2> DEFINE S == {n1, n2}
             nodes == <<n1, n2>>
  <2>2. Create(nodes) /\ nodes \in Seq(S) /\ TagsKept
    BY <1>2, <2>1, SameTags DEF ToStm
  <2>3. \A x \in S : x.kind # "CALL" \/ x.op = "user"
    BY <2>1
  <2>4. \A x \in S : ArgsGood(ast', cells', x)
    BY <2>3 DEF ArgsGood
  <2> HIDE DEF S, nodes
  <2> QED
    BY <2>2, <2>4, ArgsGrow
<1>3. ASSUME NEW p \in OneArgProcs, OneArgProcedure(p) PROVE ArgInv'
  <2> DEFINE n1 == Node("UNARY", "ARG", TypeOf(Value(1)), <<Value(1)>>)
             n2 == Node("CALL", p, ProcedureCell, <<Top>>)
             n3 == Node("EXPR", "EXPR", NullType, <<Top + 1>>)
             S == {n1, n2, n3}
             nodes == <<n1, n2, n3>>
  <2>1. Create(nodes) /\ cells' = Cast(cells, TypeOf(Value(1)), argCasts[p][1])
    BY <1>3 DEF OneArgProcedure, ToStm
  <2>2. argCasts[p][1] \in SmallTags \cup {NoCast}
    BY DEF OneArgProcs, argCasts, SmallTags
  <2>3. TagsKept
    BY <2>1, <2>2, OneCastTags
  <2>4. nodes \in Seq(S) /\ 1 \in 1..Len(nodes) /\ nodes[1] = n1
    OBVIOUS
  <2>5. n1.kind = "UNARY" /\ n1.op = "ARG" /\ n2.kids = <<Len(ast) + 1>> /\ n3.kind # "CALL"
    BY DEF Node, Top
  <2>6. \A x \in S : x.kind # "CALL" \/ x.op = "user" \/ x.kids = <<Len(ast) + 1>>
    BY <2>5
  <2> HIDE DEF n1, n2, n3, S, nodes
  <2> QED
    BY <2>1, <2>3, <2>4, <2>5, <2>6, OneArgument
<1>4. ASSUME NEW p \in TwoArgProcs, TwoArgProcedure(p) PROVE ArgInv'
  <2> DEFINE n1 == Node("UNARY", "ARG", TypeOf(Value(2)), <<Value(2)>>)
             n2 == Node("UNARY", "ARG", TypeOf(Value(1)), <<Value(1)>>)
             n3 == Node("CALL", p, ProcedureCell, <<Top, Top + 1>>)
             n4 == Node("EXPR", "EXPR", NullType, <<Top + 2>>)
             S == {n1, n2, n3, n4}
             nodes == <<n1, n2, n3, n4>>
  <2>1. /\ Create(nodes) /\ Holds(1, "expr") /\ Holds(2, "expr")
        /\ TypeOf(Value(2)) # NullType /\ TypeOf(Value(1)) # NullType
        /\ cells' = Cast(Cast(cells, TypeOf(Value(2)), argCasts[p][1]),
                         TypeOf(Value(1)), argCasts[p][2])
    BY <1>4 DEF TwoArgProcedure, ToStm
  <2>2. argCasts[p][1] \in SmallTags /\ argCasts[p][2] \in SmallTags
    BY DEF TwoArgProcs, argCasts, SmallTags
  <2>3. TypeOf(Value(1)) \in 1..Len(cells) /\ TypeOf(Value(2)) \in 1..Len(cells)
    <3>1. TypeOf(Value(1)) \in NullType..Len(cells)
      BY <2>1, HeldValue
    <3>2. TypeOf(Value(2)) \in NullType..Len(cells)
      BY <2>1, HeldValue
    <3>3. Len(cells) \in Nat
      BY TypeOKDef DEF TypeInv
    <3> QED
      BY <2>1, <3>1, <3>2, <3>3 DEF NullType
  <2>4. TagsKept /\ Sized(cells', TypeOf(Value(1)))
    BY <2>1, <2>2, <2>3, TwoCastsTags
  <2>5. nodes \in Seq(S) /\ 2 \in 1..Len(nodes) /\ nodes[1] = n1 /\ nodes[2] = n2
    OBVIOUS
  <2>6. /\ n1.kind = "UNARY" /\ n1.op = "ARG" /\ n2.kind = "UNARY" /\ n2.op = "ARG"
        /\ n2.type = TypeOf(Value(1)) /\ n4.kind # "CALL"
        /\ n3.kids = <<Len(ast) + 1, (Len(ast) + 1) + 1>>
    BY DEF Node, Top
  <2>7. (Len(ast) + 1) + 1 = Len(ast) + 2
    BY Places
  <2>8. \A x \in S : x.kind # "CALL" \/ x.kids = <<Len(ast) + 1, Len(ast) + 2>>
    BY <2>6, <2>7
  <2>9. \A j \in 1..2 : nodes[j].kind = "UNARY" /\ nodes[j].op = "ARG"
    BY <2>5, <2>6
  <2> HIDE DEF n1, n2, n3, n4, S, nodes
  <2> QED
    BY <2>1, <2>4, <2>5, <2>6, <2>8, <2>9, TwoArguments
<1>5. ASSUME CaseStm PROVE ArgInv'
  <2>1. /\ Create(<<Node("CASE", "CASE", NullType, <<Value(2), Value(1)>>)>>)
        /\ cells' = cells /\ "CASE" # "CALL"
    BY <1>5 DEF CaseStm
  <2> QED
    BY <2>1, OneNodeArgs, SameTags
<1>6. ASSUME NEW n, Switch(n) PROVE ArgInv'
  BY <1>1, <1>6 DEF Switch
<1>7. ASSUME NEW kind \in {"IF", "WHILE", "FOREACH"}, Governed(kind) PROVE ArgInv'
  <2>1. kind # "CALL"
    OBVIOUS
  <2> QED
    BY <1>1, <1>7, <2>1 DEF Governed
<1>8. ASSUME IfElse \/ DoWhile \/ Loop \/ Break \/ Return \/ Block PROVE ArgInv'
  <2>1. PICK kind, op, kids, k :
          kind # "CALL" /\ cells' = cells /\ ToStm(k, <<Node(kind, op, NullType, kids)>>)
    BY <1>8 DEF IfElse, DoWhile, Loop, Break, Return, Block
  <2> QED
    BY <1>1, <2>1
<1>9. ASSUME NEW op, Assignment(op) PROVE ArgInv'
  BY <1>1, <1>9 DEF Assignment
<1>10. ~UnregisteredProcedure /\ \A p : ~CastOfNull(p)
  BY DEF UnregisteredProcedure, CastOfNull, Abort
<1>11. ASSUME NEW op, Increment(op) PROVE ArgInv'
  <2>1. "UNARY" # "CALL"
    OBVIOUS
  <2> QED
    BY <1>2, <1>11, <2>1 DEF Increment
<1>12. ASSUME NEW n, UserCallStm(n) PROVE ArgInv'
  BY <1>2, <1>12 DEF UserCallStm
<1> QED
  BY <1>11, <1>12, <1>3, <1>4, <1>5, <1>6, <1>7, <1>8, <1>9, <1>10 DEF ParseStm

LEMMA SameArguments ==
  ASSUME ArgInv, ast' = ast, cells' = cells
  PROVE  ArgInv'
BY DEF ArgInv

\* The check of an assignment gives its right side another type, but no argument of
\* a call is the right side of an assignment.
LEMMA CheckArgs ==
  ASSUME TypeInv, TreeInv, ArgInv, CheckAFF
  PROVE  ArgInv'
<1> DEFINE h == Head(pending)
           right == ast[h].kids[2]
<1>1. /\ Visiting({"AFF"}) /\ cells' = cells
      /\ IF right \in Vars THEN UNCHANGED ast
         ELSE ast' = [ast EXCEPT ![right].type = TypeOf(ast[h].kids[1])]
  BY DEF CheckAFF
<1>2. h \in DOMAIN ast /\ ast[h].kind = "AFF"
  <2>1. h \in 1..Len(ast) /\ ast[h].kind \in {"AFF"}
    BY <1>1, Visited
  <2> HIDE DEF h
  <2> QED
    BY <2>1, Places
<1>3. 2 \in DOMAIN ast[h].kids
  <2>1. Len(ast[h].kids) = 2
    BY <1>2 DEF TypeInv, Shape
  <2>2. ast[h].kids \in Seq(Vars \cup 1..Len(ast))
    <3>1. ast[h] \in NodeSet(Len(cells), Len(ast))
      BY <1>2, TypeOKDef, ElementOfSeq DEF TypeInv
    <3> QED
      BY <3>1 DEF NodeSet
  <2> QED
    BY <2>1, <2>2, LenProperties
<1> HIDE DEF h, right
<1>4. CASE right \in Vars
  BY <1>1, <1>4, SameArguments
<1>5. CASE right \notin Vars
  <2> DEFINE new == [ast[right] EXCEPT !.type = TypeOf(ast[h].kids[1])]
  <2>1. ast' = [ast EXCEPT ![right] = new]
    BY <1>1, <1>5
  <2>2. ASSUME right \in DOMAIN ast
        PROVE  new.kind = ast[right].kind /\ new.op = ast[right].op /\ new.kids = ast[right].kids
    <3>1. ast[right] \in NodeSet(Len(cells), Len(ast))
      BY <2>2, TypeOKDef, ElementOfSeq DEF TypeInv
    <3> QED
      BY <3>1 DEF NodeSet
  <2> HIDE DEF new
  <2>3. /\ DOMAIN ast' = DOMAIN ast
        /\ \A n \in DOMAIN ast :
             /\ ast'[n].kind = ast[n].kind /\ ast'[n].op = ast[n].op /\ ast'[n].kids = ast[n].kids
             /\ n # right => ast'[n] = ast[n]
    BY <2>1, <2>2
  <2>4. ASSUME NEW n \in DOMAIN ast' PROVE ArgsGood(ast', cells', ast'[n])
    <3>1. /\ n \in DOMAIN ast /\ ast'[n].kind = ast[n].kind /\ ast'[n].op = ast[n].op
          /\ ast'[n].kids = ast[n].kids /\ ArgsGood(ast, cells, ast[n])
      BY <2>3, <2>4 DEF ArgInv
    <3>2. ASSUME ast[n].kind = "CALL", NEW i \in DOMAIN ast[n].kids
          PROVE  ast[n].kids[i] # right
      BY <1>2, <1>3, <1>5, <3>1, <3>2 DEF TreeInv, OneParent, Same, right
    <3> QED
      BY <1>1, <2>3, <3>1, <3>2 DEF ArgsGood
  <2> QED
    BY <2>4 DEF ArgInv
<1> QED
  BY <1>4, <1>5

\* The steps that build nothing.
LEMMA RetypedArgs ==
  ASSUME TypeInv, TypeInv', ArgInv, Retyped,
         \A n \in DOMAIN ast : ast'[n] = ast[n]
  PROVE  ArgInv'
<1>1. DOMAIN cells = 1..Len(cells) /\ Len(cells) \in Nat
      /\ DOMAIN cells' = 1..Len(cells') /\ Len(cells') \in Nat
  BY TypeOKDef, LenProperties DEF TypeInv, TypeOK
<1>2. TagsKept
  BY <1>1 DEF Retyped, TagsKept
<1>3. ASSUME NEW n \in DOMAIN ast PROVE ArgsGood(ast', cells', ast[n])
  <2>1. \A e \in DOMAIN ast : e \in DOMAIN ast' /\ ast'[e] = ast[e]
    BY DEF Retyped
  <2>2. ArgsGood(ast, cells, ast[n])
    BY DEF ArgInv
  <2> QED
    BY <1>2, <2>1, <2>2, ArgsGoodStays
<1> QED
  BY <1>3 DEF ArgInv, Retyped

LEMMA NextArgs ==
  ASSUME TypeInv, TypeInv', DeclInv, DeclInv', TreeInv, ArgInv, Next
  PROVE  ArgInv'
<1>1. CASE Abort
  BY <1>1 DEF Abort, ArgInv
<1>2. CASE phase' # "aborted"
  <2>1. CASE ParseExpr
    BY <1>2, <2>1, ParseExprArgs
  <2>2. CASE FirstOfList \/ NextOfList
    <3>1. cells' = cells /\ ast' = ast
      BY <2>2 DEF FirstOfList, NextOfList
    <3> QED
      BY <3>1, SameArguments
  <2>3. CASE ParseStm /\ ~FirstOfList /\ ~NextOfList
    BY <1>2, <2>3, ParseStmArgs
  <2>4. CASE Define
    <3>1. ast' = ast
      BY <1>2, <2>4 DEF Define, VarDefinition, BeginBlock, EndBlock, Begin, End, SyntaxError, Abort
    <3> QED
      BY <1>2, <2>4, <3>1, DefineRetypes, RetypedArgs
  <2>5. CASE CheckAFF
    BY <2>5, CheckArgs
  <2>6. CASE Check /\ ~CheckAFF
    <3>1. ast' = ast
      BY <1>2, <2>6 DEF Check, CheckCondition, CheckConditionFails, CheckInside, CheckNothing, Abort
    <3> QED
      BY <1>2, <2>6, <3>1, CheckRetypes, RetypedArgs
  <2> QED
    BY <2>1, <2>2, <2>3, <2>4, <2>5, <2>6 DEF Next
<1>3. phase' = "aborted" => Abort \/ phase = "aborted"
  <2>1. ~Define \/ phase' # "aborted" \/ Abort
    BY DEF Define, VarDefinition, BeginBlock, EndBlock, Begin, End, SyntaxError
  <2>2. ~Check \/ phase' # "aborted" \/ Abort
    BY DEF Check, Visiting, CheckAFF, CheckCondition, CheckConditionFails, CheckInside, CheckNothing
  <2>3. ~ParseExpr \/ phase' # "aborted" \/ Abort
    BY DEF ParseExpr, Parsing, ConstantExpression, LeftPart, UnknownVariable,
       IndexedLeftPart, AliasBinary, Comparison, Unary, UserCall, Aggregate, Read,
       DigitalRead, AnalogRead, ToExpr
  <2>4. ~ParseStm \/ phase' # "aborted" \/ Abort
    BY DEF Parsing, ParseStm, Increment, Assignment, OneArgProcedure,
       TwoArgProcedure, CastOfNull, UnregisteredProcedure, UserCallStm, Switch, CaseStm,
       Governed, IfElse, DoWhile, Loop, Break, Return, Block, FirstOfList, NextOfList, ToStm
  <2> QED
    BY <2>1, <2>2, <2>3, <2>4 DEF Next
<1>4. phase' = "aborted" => Abort
  <2>1. phase # "aborted"
    BY DEF Next, Define, VarDefinition, BeginBlock, EndBlock, Begin, End, SyntaxError, Check, Visiting,
       CheckAFF, CheckCondition, CheckConditionFails, CheckInside, CheckNothing,
       ParseExpr, Parsing, ConstantExpression, LeftPart, UnknownVariable,
       IndexedLeftPart, AliasBinary, Comparison, Unary, UserCall, Aggregate, Read,
       DigitalRead, AnalogRead, ToExpr, ParseStm, Increment, Assignment, OneArgProcedure,
       TwoArgProcedure, CastOfNull, UnregisteredProcedure, UserCallStm, Switch, CaseStm,
       Governed, IfElse, DoWhile, Loop, Break, Return, Block, FirstOfList, NextOfList, ToStm
  <2> QED
    BY <1>3, <2>1
<1> QED
  BY <1>1, <1>2, <1>4

LEMMA GenerateArgs ==
  ASSUME ArgInv, Generate
  PROVE  ArgInv'
<1>1. (ast' = ast /\ cells' = cells) \/ Abort
  BY GenerateReads DEF Stays, vars
<1>2. CASE Abort
  BY <1>2 DEF Abort, ArgInv
<1> QED
  BY <1>1, <1>2, SameArguments

-------------------------------------------------------------------------------
(***************************************************************************)
(* What instructions leave in one register.                                *)
(***************************************************************************)
\* Instructions that load, and into the register r nothing but val.
LoadingOnly(mem, lines, r, val) ==
  \A k \in DOMAIN lines :
    /\ lines[k][1] \in Loads /\ lines[k][2] \in 0..35
    /\ lines[k][2] = r => Loaded(mem, lines[k]) = val

\* What n lines of them leave of the machine m.
LeftIn(m, n, lines, j, r, val) ==
  /\ IsMachine(n) /\ n.mem = m.mem
  /\ (\E k \in 1..j : lines[k][2] = r) => n.regs[r] = val
  /\ (\A k \in 1..j : lines[k][2] # r) => n.regs[r] = m.regs[r]

OnlyRun(g, m, lines, n, r, val) ==
  /\ IsMachine(m) /\ n \in Nat /\ DOMAIN lines = 1..n /\ r \in 0..35
  /\ LoadingOnly(m.mem, lines, r, val) /\ Trace(g, m, lines)

LEMMA OnlyTrace ==
  ASSUME NEW g, NEW m, NEW lines, NEW n, NEW r, NEW val, OnlyRun(g, m, lines, n, r, val)
  PROVE  LeftIn(m, g[n], lines, n, r, val)
<1>0. /\ IsMachine(m) /\ n \in Nat /\ DOMAIN lines = 1..n /\ r \in 0..35
      /\ LoadingOnly(m.mem, lines, r, val) /\ Trace(g, m, lines)
  BY DEF OnlyRun
<1> DEFINE T == {k \in Nat : k <= n => LeftIn(m, g[k], lines, k, r, val)}
<1>1. 0 \in T
  <2>1. ~\E k \in 1..0 : lines[k][2] = r
    OBVIOUS
  <2> QED
    BY <1>0, <2>1 DEF Trace, LeftIn
<1>2. ASSUME NEW k \in Nat, k \in T PROVE k + 1 \in T
  <2>1. SUFFICES ASSUME k + 1 <= n PROVE LeftIn(m, g[k + 1], lines, k + 1, r, val)
    OBVIOUS
  <2> DEFINE i == lines[k + 1]
  <2>2. k + 1 \in DOMAIN lines /\ (k + 1) - 1 = k /\ k <= n
    BY <1>0, <2>1
  <2>3. g[k + 1] = Execute(g[k], i)
    BY <1>0, <2>2 DEF Trace
  <2>4. LeftIn(m, g[k], lines, k, r, val)
    BY <1>2, <2>2
  <2>5. i[1] \in Loads /\ i[2] \in 0..35 /\ (i[2] = r => Loaded(m.mem, i) = val)
    BY <1>0, <2>2 DEF LoadingOnly
  <2>6. \A q \in 1..(k + 1) : q \in 1..k \/ q = k + 1
    OBVIOUS
  <2>7. \A q \in 1..k : q \in 1..(k + 1)
    OBVIOUS
  <2>8. k + 1 \in 1..(k + 1)
    OBVIOUS
  <2>9. lines[k + 1] = i
    OBVIOUS
  <2> HIDE DEF i
  <2>10. IsMachine(g[k]) /\ g[k].mem = m.mem
    BY <2>4 DEF LeftIn
  <2>11. SameBut(g[k], g[k + 1], {i[2]}) /\ g[k + 1].regs[i[2]] = Loaded(m.mem, i)
    BY <2>3, <2>5, <2>10, ExecuteLoad
  <2>12. IsMachine(g[k + 1]) /\ g[k + 1].mem = m.mem
    BY <2>10, <2>11 DEF SameBut
  <2>13. CASE i[2] = r
    <3>1. g[k + 1].regs[r] = val
      BY <2>5, <2>11, <2>13
    <3> QED
      BY <2>8, <2>9, <2>12, <2>13, <3>1 DEF LeftIn
  <2>14. CASE i[2] # r
    <3>1. g[k + 1].regs[r] = g[k].regs[r]
      BY <1>0, <2>11, <2>14 DEF SameBut
    <3>2. (\E q \in 1..(k + 1) : lines[q][2] = r) => \E q \in 1..k : lines[q][2] = r
      BY <2>6, <2>9, <2>14
    <3> QED
      BY <2>4, <2>7, <2>12, <3>1, <3>2 DEF LeftIn
  <2> QED
    BY <2>13, <2>14
<1> HIDE DEF T
<1>3. Nat \subseteq T
  BY <1>1, <1>2, Induction
<1>4. n \in T
  BY <1>0, <1>3
<1> QED
  BY <1>0, <1>4 DEF T

\* n is what the instructions lines leave of m in the register r.
Remains(m, n, lines, r, val) ==
  /\ n.mem = m.mem
  /\ (\E k \in DOMAIN lines : lines[k][2] = r) => n.regs[r] = val
  /\ (\A k \in DOMAIN lines : lines[k][2] # r) => n.regs[r] = m.regs[r]

LEMMA RanOnly ==
  ASSUME NEW tx, IsText(tx), NEW lines, IsText(lines), NEW r \in 0..35, NEW val,
         LoadingOnly(Ran(tx).mem, lines, r, val)
  PROVE  Remains(Ran(tx), Ran(tx \o lines), lines, r, val)
<1> DEFINE n == Len(lines)
           m == Ran(tx)
           last == Ran(tx \o lines)
<1>1. PICK g : Trace(g, m, lines) /\ last = g[n]
  BY RanConcat
<1>2. n \in Nat /\ DOMAIN lines = 1..n
  BY LenProperties DEF IsText
<1>3. IsMachine(m)
  BY RanMachine
<1>4. LoadingOnly(m.mem, lines, r, val)
  OBVIOUS
<1> HIDE DEF n, m, last
<1>5. OnlyRun(g, m, lines, n, r, val)
  BY <1>1, <1>2, <1>3, <1>4 DEF OnlyRun
<1>6. LeftIn(m, last, lines, n, r, val)
  BY <1>1, <1>5, OnlyTrace
<1>7. Remains(m, last, lines, r, val)
  BY <1>2, <1>6 DEF LeftIn, Remains
<1> QED
  BY <1>7 DEF m, last

\* n is m but for registers below lim.
Confined(m, n, lim) == n.mem = m.mem /\ \A r \in 0..35 : r >= lim => n.regs[r] = m.regs[r]

\* Instructions that load the registers from c on, span of them at most, and, if the
\* value has two bytes, val into the second one.
LeafLines(mem, lines, c, span, high, val) ==
  /\ IsText(lines)
  /\ \A k \in DOMAIN lines :
       lines[k][1] \in Loads /\ \E b \in 0..(span - 1) : lines[k][2] = c + b
  /\ high =>
       /\ \E k \in DOMAIN lines : lines[k][2] = c + 1
       /\ \A k \in DOMAIN lines : lines[k][2] = c + 1 => Loaded(mem, lines[k]) = val

LEMMA LeafLinesConcat ==
  ASSUME NEW mem, NEW c, NEW span, NEW high, NEW val, NEW lines, NEW more,
         LeafLines(mem, lines, c, span, high, val), LeafLines(mem, more, c, span, high, val)
  PROVE  LeafLines(mem, lines \o more, c, span, high, val)
<1> DEFINE s == lines \o more
<1>1. IsText(s) /\ Extended(s, lines, more)
  BY TextGrows DEF LeafLines
<1> HIDE DEF s
<1>2. \A k \in DOMAIN s : (\E i \in DOMAIN lines : s[k] = lines[i]) \/ (\E i \in DOMAIN more : s[k] = more[i])
  BY <1>1 DEF Extended
<1>3. \A k \in DOMAIN lines : k \in DOMAIN s /\ s[k] = lines[k]
  BY <1>1 DEF Extended
<1>4. \A k \in DOMAIN s : s[k][1] \in Loads /\ \E b \in 0..(span - 1) : s[k][2] = c + b
  BY <1>2 DEF LeafLines
<1>5. high => \E k \in DOMAIN s : s[k][2] = c + 1
  BY <1>3 DEF LeafLines
<1>6. high => \A k \in DOMAIN s : s[k][2] = c + 1 => Loaded(mem, s[k]) = val
  BY <1>2 DEF LeafLines
<1>7. LeafLines(mem, s, c, span, high, val)
  BY <1>1, <1>4, <1>5, <1>6 DEF LeafLines
<1> QED
  BY <1>7 DEF s

LEMMA LeafLinesMap ==
  ASSUME NEW mem, NEW c \in Int, NEW span \in Int, NEW high, NEW val, NEW n \in Nat, n <= span,
         NEW lines, lines = [i \in 1..n |-> lines[i]],
         \A i \in 1..n : lines[i][1] \in Loads /\ lines[i][2] = (c + i) - 1,
         high => n >= 2 /\ Loaded(mem, lines[2]) = val
  PROVE  LeafLines(mem, lines, c, span, high, val)
<1> DEFINE S == {lines[i] : i \in 1..n}
<1>1. lines \in [1..n -> S]
  OBVIOUS
<1>2. lines \in Seq(S) /\ DOMAIN lines = 1..n
  BY <1>1, SeqDef
<1> HIDE DEF S
<1>3. IsText(lines)
  BY <1>2, TextIs
<1>4. ASSUME NEW i \in 1..n
      PROVE  i - 1 \in 0..(span - 1) /\ (c + i) - 1 = c + (i - 1) /\ ((c + i) - 1 = c + 1 => i = 2)
  OBVIOUS
<1>5. n >= 2 => 2 \in 1..n /\ (c + 2) - 1 = c + 1
  OBVIOUS
<1>6. ASSUME NEW k \in DOMAIN lines
      PROVE  lines[k][1] \in Loads /\ \E b \in 0..(span - 1) : lines[k][2] = c + b
  <2>1. lines[k][2] = c + (k - 1) /\ k - 1 \in 0..(span - 1) /\ lines[k][1] \in Loads
    BY <1>2, <1>4
  <2> QED
    BY <2>1
<1>7. high => \E k \in DOMAIN lines : lines[k][2] = c + 1
  BY <1>2, <1>5
<1>8. high => \A k \in DOMAIN lines : lines[k][2] = c + 1 => Loaded(mem, lines[k]) = val
  BY <1>2, <1>4
<1> QED
  BY <1>3, <1>6, <1>7, <1>8 DEF LeafLines

LEMMA LeafKeeps ==
  ASSUME NEW tx, IsText(tx), NEW lines, NEW c \in Int, NEW span \in Int, NEW high, NEW val,
         LeafLines(Ran(tx).mem, lines, c, span, high, val), Accepted(lines)
  PROVE  /\ Confined(Ran(tx), Ran(tx \o lines), c + span)
         /\ high => Ran(tx \o lines).regs[c + 1] = val
<1> DEFINE m == Ran(tx)
           n == Ran(tx \o lines)
<1>1. ASSUME NEW k \in DOMAIN lines PROVE lines[k][2] \in 0..31 /\ lines[k][1] \in Loads
  <2>1. lines[k][1] \in Loads /\ Registers(lines[k]) \subseteq 0..31
    BY DEF LeafLines, Accepted
  <2>2. Registers(lines[k]) = {lines[k][2]}
    BY <2>1 DEF Loads, Registers
  <2> QED
    BY <2>1, <2>2
<1>2. IsText(lines)
  BY DEF LeafLines
<1>3. ASSUME NEW r \in 0..35, \A k \in DOMAIN lines : lines[k][2] # r
      PROVE  n.mem = m.mem /\ n.regs[r] = m.regs[r]
  <2>1. LoadingOnly(m.mem, lines, r, val)
    BY <1>1, <1>3 DEF LoadingOnly
  <2>2. Remains(m, n, lines, r, val)
    BY <1>2, <2>1, RanOnly
  <2> HIDE DEF m, n
  <2> QED
    BY <1>3, <2>2 DEF Remains
<1>4. n.mem = m.mem
  <2>1. 35 \in 0..35 /\ \A k \in DOMAIN lines : lines[k][2] # 35
    BY <1>1
  <2> QED
    BY <1>3, <2>1
<1>5. ASSUME NEW r \in 0..35, r >= c + span PROVE n.regs[r] = m.regs[r]
  <2>1. \A k \in DOMAIN lines : lines[k][2] # r
    <3>1. ASSUME NEW b \in 0..(span - 1) PROVE c + b # r
      BY <1>5
    <3> QED
      BY <3>1 DEF LeafLines
  <2> QED
    BY <1>3, <2>1
<1>6. ASSUME high PROVE n.regs[c + 1] = val
  <2>1. PICK k \in DOMAIN lines : lines[k][2] = c + 1
    BY <1>6 DEF LeafLines
  <2>2. c + 1 \in 0..35
    <3>1. c + 1 \in 0..31
      BY <1>1, <2>1
    <3> QED
      BY <3>1
  <2>3. LoadingOnly(m.mem, lines, c + 1, val)
    <3>1. \A q \in DOMAIN lines : lines[q][2] = c + 1 => Loaded(m.mem, lines[q]) = val
      BY <1>6 DEF LeafLines
    <3>2. \A r \in 0..31 : r \in 0..35
      OBVIOUS
    <3> HIDE DEF m
    <3> QED
      BY <1>1, <3>1, <3>2 DEF LoadingOnly
  <2>4. Remains(m, n, lines, c + 1, val)
    BY <1>2, <2>2, <2>3, RanOnly
  <2> HIDE DEF m, n
  <2> QED
    BY <2>1, <2>4 DEF Remains
<1> HIDE DEF m, n
<1>7. Confined(m, n, c + span) /\ (high => n.regs[c + 1] = val)
  BY <1>4, <1>5, <1>6 DEF Confined
<1> QED
  BY <1>7 DEF m, n

\* The registers the code of a leaf writes.
LeafSpan(e) == IF e \in Vars THEN SizeOf(e) ELSE IF TagOf(e) \in Byte1 THEN 1 ELSE 4

\* The step loaded the leaf e, its second byte too, and wrote no register beyond it.
LoadsLeaf(e) ==
  /\ Confined(Ran(text), Ran(text'), currentRegisterCt + LeafSpan(e))
  /\ TagOf(e) \in Byte2 => Ran(text').regs[currentRegisterCt + 1] = HighByte(Ran(text).mem, e)

LEMMA LeafLoaded ==
  ASSUME IsText(text), StraightLine', NEW lines, Emit(lines), NEW e, currentRegisterCt \in Int,
         LeafSpan(e) \in Int,
         LeafLines(Ran(text).mem, lines, currentRegisterCt, LeafSpan(e), TagOf(e) \in Byte2,
                   HighByte(Ran(text).mem, e))
  PROVE  LoadsLeaf(e)
<1> DEFINE c == currentRegisterCt
           span == LeafSpan(e)
           high == TagOf(e) \in Byte2
           m == Ran(text)
           val == HighByte(m.mem, e)
<1>1. Accepted(lines)
  BY EmittedStraight DEF LeafLines
<1>2. text' = text \o lines
  BY DEF Emit
<1>3. c \in Int /\ span \in Int /\ LeafLines(Ran(text).mem, lines, c, span, high, val)
  OBVIOUS
<1> HIDE DEF c, span, high, val, m
<1>4. /\ Confined(Ran(text), Ran(text \o lines), c + span)
      /\ high => Ran(text \o lines).regs[c + 1] = val
  BY <1>1, <1>3, LeafKeeps
<1> QED
  BY <1>2, <1>4 DEF LoadsLeaf, c, span, high, val, m

LEMMA VarLoads ==
  ASSUME TypeInv, WalkInv, IsText(text), VisitVAR, StraightLine'
  PROVE  LoadsLeaf(Head(todo).node)
<1> DEFINE e == Current
           tag == TagOf(e)
           n == Width(tag)
           lines == [i \in 1..n |-> <<"lds", R(i - 1), e, IF i = 4 THEN 4 ELSE i - 1>>]
           mem == Ran(text).mem
           c == currentRegisterCt
           val == HighByte(mem, e)
           span == LeafSpan(e)
<1>1. Doing("code") /\ e \in Vars /\ HasType(e)
  BY DEF VisitVAR
<1>2. phase = "generating" /\ todo # <<>> /\ e = Head(todo).node /\ c \in Int /\ e \in Ref(ast)
  BY <1>1, CutVisit
<1>3. (tag \in Byte1 \cup Byte2 \cup Byte4 /\ Emit(lines)) \/ Emit(<<Bad("VAR")>>)
  BY DEF VisitVAR
<1>4. CASE Emit(<<Bad("VAR")>>)
  <2> DEFINE i == Bad("VAR")
  <2>1. i[1] = "bad"
    BY DEF Bad
  <2> HIDE DEF i
  <2>2. Emit(<<i>>) /\ IsText(<<i>>)
    BY <1>4, OneLine DEF i
  <2> QED
    BY <2>1, <2>2, EmittedStraight, OneAccepted
<1>5. CASE tag \in Byte1 \cup Byte2 \cup Byte4 /\ Emit(lines)
  <2>1. n \in Nat /\ span = n /\ (tag \in Byte2 => n >= 2)
    <3>1. span = sizeMap[tag]
      BY <1>1 DEF LeafSpan, SizeOf
    <3> HIDE DEF tag, span
    <3> QED
      BY <1>5, <3>1 DEF Width, sizeMap, Byte1, Byte2, Byte4
  <2>2. /\ lines = [i \in 1..n |-> lines[i]]
        /\ \A i \in 1..n : lines[i] = <<"lds", c + (i - 1), e, IF i = 4 THEN 4 ELSE i - 1>>
    BY DEF R
  <2>3. val = mem[<<e, 1>>]
    BY <1>1 DEF HighByte
  <2>4. \A i \in 1..n : c + (i - 1) = (c + i) - 1
    BY <1>2, <2>1
  <2>5. n >= 2 => 2 \in 1..n /\ 2 # 4 /\ 2 - 1 = 1
    BY <2>1
  <2> HIDE DEF n, lines, mem, c, val, span
  <2>6. \A i \in 1..n : lines[i][1] \in Loads /\ lines[i][2] = (c + i) - 1
    BY <2>2, <2>4 DEF Loads
  <2>7. ASSUME n >= 2 PROVE Loaded(mem, lines[2]) = val
    <3>1. lines[2][1] = "lds" /\ lines[2][3] = e /\ lines[2][4] = 1
      BY <2>2, <2>5, <2>7
    <3> QED
      BY <2>3, <3>1 DEF Loaded
  <2>8. n <= span /\ span \in Int
    BY <2>1
  <2> DEFINE high == tag \in Byte2
  <2>9. high => n >= 2 /\ Loaded(mem, lines[2]) = val
    BY <2>1, <2>7
  <2> HIDE DEF high
  <2>10. LeafLines(mem, lines, c, span, high, val)
    BY <1>2, <2>1, <2>2, <2>6, <2>8, <2>9, LeafLinesMap
  <2> QED
    BY <1>2, <1>5, <2>8, <2>10, LeafLoaded DEF high, mem, c, span, val
<1> QED
  BY <1>3, <1>4, <1>5

LEMMA ConstantLoads ==
  ASSUME TypeInv, WalkInv, IsText(text), VisitCONSTANT, StraightLine'
  PROVE  LoadsLeaf(Head(todo).node)
<1> DEFINE e == Current
           tag == TagOf(e)
           high == tag \in Byte2
           mem == Ran(text).mem
           c == currentRegisterCt
           val == HighByte(mem, e)
           span == LeafSpan(e)
           addr == <<<<"ldiaddr", R(0), e>>, <<"ldiaddr", R(1), e>>>>
           bytes(last) == LoadBytes(e, 0, last)
<1>1. DoingKind("code", {"CONSTANT"})
  BY DEF VisitCONSTANT
<1>2. /\ phase = "generating" /\ todo # <<>> /\ e \in DOMAIN ast /\ c \in Int
  BY <1>1, VisitedNode
<1>3. e = Head(todo).node /\ e \notin Vars
  BY <1>1, CutVisit DEF DoingKind
<1>4. span = (IF tag \in Byte1 THEN 1 ELSE 4) /\ span \in Int
  BY <1>3 DEF LeafSpan
<1>5. val = <<"lit", Literal(e), 1>>
  BY <1>3 DEF HighByte
<1>6. \/ \E what : Emit(<<Bad(what)>>)
      \/ tag \in Byte1 /\ Emit(bytes(0))
      \/ tag \in Byte2 /\ Emit(bytes(1) \o bytes(3))
      \/ tag \notin Byte1 \cup Byte2 /\ (Emit(bytes(3)) \/ Emit(addr))
  BY DEF VisitCONSTANT, Byte1, Byte2
<1>7. Byte1 \cap Byte2 = {}
  BY DEF Byte1, Byte2
<1>8. ASSUME NEW what, Emit(<<Bad(what)>>) PROVE FALSE
  <2> DEFINE i == Bad(what)
  <2>1. i[1] = "bad"
    BY DEF Bad
  <2> HIDE DEF i
  <2>2. Emit(<<i>>) /\ IsText(<<i>>)
    BY <1>8, OneLine DEF i
  <2> QED
    BY <2>1, <2>2, EmittedStraight, OneAccepted
<1>9. ASSUME NEW lines, Emit(lines), LeafLines(mem, lines, c, span, high, val)
      PROVE  LoadsLeaf(Head(todo).node)
  BY <1>2, <1>3, <1>4, <1>9, LeafLoaded
<1>10. ASSUME NEW last \in {0, 1, 3}, last + 1 <= span, high => last >= 1
       PROVE  LeafLines(mem, bytes(last), c, span, high, val)
  <2> DEFINE lines == bytes(last)
             k == last + 1
  <2>1. k \in Nat /\ (last - 0) + 1 = k /\ k <= span /\ (high => k >= 2)
    BY <1>10
  <2>2. /\ lines = [i \in 1..k |-> lines[i]]
        /\ \A i \in 1..k : lines[i] = <<"ldi", c + ((0 + i) - 1), Literal(e), (0 + i) - 1>>
    BY <2>1 DEF LoadBytes, R
  <2>3. \A i \in 1..k : c + ((0 + i) - 1) = (c + i) - 1
    BY <1>2, <2>1
  <2>4. k >= 2 => 2 \in 1..k /\ (0 + 2) - 1 = 1
    BY <2>1
  <2> HIDE DEF lines, k, mem, c, val, span, high
  <2>5. \A i \in 1..k : lines[i][1] \in Loads /\ lines[i][2] = (c + i) - 1
    BY <2>2, <2>3 DEF Loads
  <2>6. ASSUME k >= 2 PROVE Loaded(mem, lines[2]) = val
    <3>1. lines[2][1] = "ldi" /\ lines[2][3] = Literal(e) /\ lines[2][4] = 1
      BY <2>2, <2>4, <2>6
    <3> QED
      BY <1>5, <3>1 DEF Loaded
  <2>7. LeafLines(mem, lines, c, span, high, val)
    BY <1>2, <1>4, <2>1, <2>2, <2>5, <2>6, LeafLinesMap
  <2> QED
    BY <2>7 DEF lines
<1>11. ASSUME ~high, span = 4
       PROVE  LeafLines(mem, addr, c, span, high, val)
  <2>1. /\ addr = [i \in 1..2 |-> addr[i]] /\ addr[1] = <<"ldiaddr", c + 0, e>>
        /\ addr[2] = <<"ldiaddr", c + 1, e>>
    BY DEF R
  <2> HIDE DEF addr, val, mem, c, span, high
  <2>2. (c + 1) - 1 = c + 0 /\ (c + 2) - 1 = c + 1 /\ \A i \in 1..2 : i = 1 \/ i = 2
    BY <1>2
  <2>3. \A i \in 1..2 : addr[i][1] \in Loads /\ addr[i][2] = (c + i) - 1
    BY <2>1, <2>2 DEF Loads
  <2>4. 2 \in Nat /\ 2 <= span
    BY <1>11
  <2> QED
    BY <1>2, <1>4, <1>11, <2>1, <2>3, <2>4, LeafLinesMap
<1>12. CASE tag \in Byte1 /\ Emit(bytes(0))
  <2>1. LeafLines(mem, bytes(0), c, span, high, val)
    BY <1>4, <1>7, <1>10, <1>12
  <2> HIDE DEF bytes, mem, c, span, high, val
  <2> QED
    BY <1>9, <1>12, <2>1
<1>13. CASE tag \in Byte2 /\ Emit(bytes(1) \o bytes(3))
  <2>1. LeafLines(mem, bytes(1), c, span, high, val) /\ LeafLines(mem, bytes(3), c, span, high, val)
    <3>1. span = 4 /\ 1 \in {0, 1, 3} /\ 3 \in {0, 1, 3} /\ 1 + 1 <= 4 /\ 3 + 1 <= 4 /\ 1 >= 1 /\ 3 >= 1
      BY <1>4, <1>7, <1>13
    <3> HIDE DEF bytes, mem, c, span, high, val
    <3> QED
      BY <1>10, <3>1
  <2> HIDE DEF bytes, mem, c, span, high, val
  <2>2. LeafLines(mem, bytes(1) \o bytes(3), c, span, high, val)
    BY <2>1, LeafLinesConcat
  <2> QED
    BY <1>9, <1>13, <2>2
<1>14. CASE tag \notin Byte1 \cup Byte2 /\ (Emit(bytes(3)) \/ Emit(addr))
  <2>1. span = 4 /\ ~high /\ 3 \in {0, 1, 3} /\ 3 + 1 <= 4
    BY <1>4, <1>14
  <2> HIDE DEF bytes, addr, mem, c, span, high, val
  <2>2. LeafLines(mem, bytes(3), c, span, high, val)
    BY <1>10, <2>1
  <2>3. LeafLines(mem, addr, c, span, high, val)
    BY <1>11, <2>1
  <2> QED
    BY <1>9, <1>14, <2>2, <2>3
<1> QED
  BY <1>6, <1>8, <1>12, <1>13, <1>14

LEMMA CombineConfined ==
  ASSUME WalkInv, KindInv, PlaceInv, HeldInv, IsText(text), BinaryCombine, StraightLine',
         NEW S, NEW V, NEW f, Shaped(S, V), Means(Ran(text').mem, f), S[Current],
         NEW lim \in Int, Saved < lim
  PROVE  Confined(Ran(text), Ran(text'), lim)
<1>1. Adds(f[Current])
  BY CombineAdds
<1>2. SameBut(Ran(text), Ran(text'), {Saved}) /\ Saved \in 0..31
  BY <1>1 DEF Adds
<1>3. \A r \in 0..35 : r >= lim => r \in (0..35) \ {Saved}
  BY <1>2
<1> QED
  BY <1>2, <1>3 DEF SameBut, Confined

-------------------------------------------------------------------------------
(***************************************************************************)
(* The arguments that wait in their registers for the call.                *)
(***************************************************************************)
\* The expression under the ARG node of the i-th argument of the call n.
Arg(as, n, i) == as[as[n].kids[i]].kids[1]

\* Where the arguments of the call n go: two at most, downwards, the second one two
\* registers below the first.
Laid(w, n) ==
  LET kids == ast[n].kids
  IN /\ Len(kids) <= 2
     /\ \A i \in DOMAIN kids : kids[i] \in DOMAIN ast /\ ast[kids[i]].kind = "UNARY" /\ ast[kids[i]].op = "ARG"
     /\ \A i \in 0..Len(kids) : w.at[n][i] \in Int
     /\ w.at[n][0] = AfterArguments
     /\ \A i \in 1..Len(kids) : w.at[n][i] = w.at[n][i - 1] - ArgumentSpan(SizeOf(kids[i]))
     /\ Len(kids) = 2 => w.at[n][1] = w.at[n][2] + 2

\* What the invariant uses of Sum, VarsOf, Span, SizeOf and ArgumentRegister; typed are
\* expressions of one or two bytes, wide are leaves of two.
World(w) ==
  /\ Shaped(w.sum, w.vars)
  /\ \A e \in w.typed : HasType(e) /\ TagOf(e) \in Byte1 \cup Byte2
  /\ \A e \in w.wide : IsLeaf(e) /\ TagOf(e) \in Byte2
  /\ \A e \in Ref(ast) : w.size[e] = SizeOf(e)
  /\ \A e \in Ref(ast) : w.sum[e] => w.span[e] \in Int /\ (IsLeaf(e) => w.span[e] = LeafSpan(e))
  /\ \A n \in DOMAIN ast : w.sum[n] /\ ast[n].kind = "BINARY" =>
       LET l == ast[n].kids[1]
           r == ast[n].kids[2]
       IN w.span[n] >= 1 /\ w.span[n] >= w.span[l] /\ w.span[n] >= w.size[l] + w.span[r]
  /\ \A n \in DOMAIN ast : ast[n].kind = "CALL" /\ ast[n].op # "user" => Laid(w, n)

\* The values of the expressions, and the second bytes of the wide ones.
Lives(w, mem) == Means(mem, w.f) /\ \A e \in w.wide : w.h[e] = HighByte(mem, e)

\* The call of a function of the board, with arguments the generator can compute, that
\* the code of the later ones does not reach.
Passing(w, as, t) ==
  /\ t.step = "call" /\ t.node \in DOMAIN as /\ as[t.node].kind = "CALL" /\ as[t.node].op # "user"
  /\ \A i \in DOMAIN as[t.node].kids :
       LET e == Arg(as, t.node, i)
       IN w.sum[e] /\ e \in w.typed /\ (i # 1 => w.span[e] <= 2)

\* The visits from q on are of the arguments of the call at p that come after the j-th.
Waits(as, ts, p, q, j) ==
  LET kids == as[ts[p].node].kids
  IN /\ j \in 0..Len(kids) /\ p - q = Len(kids) - j
     /\ \A i \in q..(p - 1) : ts[i].step = "argument" /\ ts[i].node = kids[(j + 1) + (i - q)]

\* The code of a part of the j-th argument writes no register from lim on.
Under(w, as, t, c, lim) ==
  /\ t.step = "code" => c + w.span[t.node] <= lim
  /\ t.step = "right" =>
       /\ t.saved < lim
       /\ (t.saved + w.size[as[t.node].kids[1]]) + w.span[as[t.node].kids[2]] <= lim
  /\ t.step = "combine" => t.saved < lim

\* The j-th argument has been computed, is to be, or is being computed.
Over(w, ts, c, p, q, j) == q = 1 /\ c = w.at[ts[p].node][j]
Begun(w, as, ts, c, p, q, j) ==
  /\ q = 2 /\ j >= 1 /\ ts[1].step = "code" /\ ts[1].node = as[ts[p].node].kids[j]
  /\ c = w.at[ts[p].node][j]
Underway(w, as, ts, c, p, q, j) ==
  /\ q >= 2 /\ j >= 1 /\ ts[q - 1].step = "pass" /\ ts[q - 1].node = as[ts[p].node].kids[j]
  /\ Back(ts, c, q - 1) = w.at[ts[p].node][j]
  /\ j # 1 => \A i \in 1..(q - 2) : Under(w, as, ts[i], c, w.at[ts[p].node][j] + 2)

Stage(w, as, ts, c, p, q, j) ==
  /\ Waits(as, ts, p, q, j)
  /\ Over(w, ts, c, p, q, j) \/ Begun(w, as, ts, c, p, q, j) \/ Underway(w, as, ts, c, p, q, j)

\* The i-th argument of the call n is where the function expects it.
Arrived(w, as, n, bank, i) ==
  LET r == w.at[n][i]
      e == Arg(as, n, i)
  IN r \in 0..31 /\ bank[r] = w.f[e] /\ (e \in w.wide => bank[r + 1] = w.h[e])

Got(w, as, ts, c, bank, p, q, j) ==
  LET n == ts[p].node
  IN /\ \A i \in 1..(IF q = 1 THEN j ELSE j - 1) : Arrived(w, as, n, bank, i)
     /\ q = 2 /\ ts[1].step = "pass" /\ Arg(as, n, j) \in w.wide => bank[c + 1] = w.h[Arg(as, n, j)]

\* The arguments of the call at p that were computed wait, and the others will be.
Ready(w, p) ==
  \E q \in 1..p, j \in Nat :
    /\ Stage(w, ast, todo, currentRegisterCt, p, q, j)
    /\ StraightLine /\ Lives(w, Ran(text).mem) =>
         Got(w, ast, todo, currentRegisterCt, Ran(text).regs, p, q, j)

ArgsInv == \A w : World(w) => \A p \in DOMAIN todo : Passing(w, ast, todo[p]) => Ready(w, p)

LEMMA WorldStays ==
  ASSUME Stays
  PROVE  \A w : World(w)' <=> World(w)
<1>1. ast' = ast /\ cells' = cells /\ varType' = varType
  BY DEF Stays, vars, Environment
<1>2. \A e : /\ SizeOf(e)' = SizeOf(e) /\ TagOf(e)' = TagOf(e) /\ (HasType(e)' <=> HasType(e))
             /\ (IsLeaf(e)' <=> IsLeaf(e)) /\ LeafSpan(e)' = LeafSpan(e)
  BY <1>1 DEF SizeOf, HasType, TagOf, TypeOf, IsLeaf, LeafSpan
<1>3. \A w, n : Laid(w, n)' <=> Laid(w, n)
  BY <1>1, <1>2 DEF Laid
<1> QED
  BY <1>1, <1>2, <1>3, ShapeStays DEF World

LEMMA LivesStays ==
  ASSUME Stays
  PROVE  \A w, mem : Lives(w, mem)' <=> Lives(w, mem)
<1>1. ast' = ast
  BY DEF Stays, vars
<1>2. \A mem, e : HighByte(mem, e)' = HighByte(mem, e)
  BY <1>1 DEF HighByte, Literal
<1> QED
  BY <1>2, MeansStays DEF Lives

LEMMA ReadyNext ==
  ASSUME Stays, NEW w, NEW p, NEW q \in 1..p, NEW j \in Nat,
         Stage(w, ast, todo', currentRegisterCt', p, q, j),
         StraightLine' /\ Lives(w, Ran(text').mem) =>
           Got(w, ast, todo', currentRegisterCt', Ran(text').regs, p, q, j)
  PROVE  Ready(w, p)'
<1>1. ast' = ast
  BY DEF Stays, vars
<1>2. Lives(w, Ran(text).mem)' => Lives(w, Ran(text').mem)
  BY LivesStays
<1> QED
  BY <1>1, <1>2 DEF Ready

LEMMA ArgsStep ==
  ASSUME WalkInv, ArgsInv, NEW new, Goes(new),
         \A w : World(w) => \A i \in DOMAIN new : Passing(w, ast, new[i]) => Ready(w, i)',
         \A w : World(w) => \A k \in DOMAIN todo :
           k # 1 /\ Passing(w, ast, todo[k]) /\ Ready(w, k) => Ready(w, (Len(new) + k) - 1)'
  PROVE  ArgsInv'
<1>1. Spliced(todo', new, todo) /\ 1 \in DOMAIN todo /\ Stays /\ ast' = ast
  BY GoesOn
<1>2. ASSUME NEW w, World(w), NEW p \in DOMAIN todo', Passing(w, ast, todo'[p])
      PROVE  Ready(w, p)'
  <2>1. CASE p \in DOMAIN new /\ todo'[p] = new[p]
    BY <1>2, <2>1
  <2>2. CASE \E k \in DOMAIN todo : k # 1 /\ todo'[p] = todo[k] /\ p = (Len(new) + k) - 1
    <3>1. PICK k \in DOMAIN todo : k # 1 /\ todo'[p] = todo[k] /\ p = (Len(new) + k) - 1
      BY <2>2
    <3>2. Passing(w, ast, todo[k])
      BY <1>2, <3>1
    <3>3. Ready(w, k)
      BY <1>2, <3>2 DEF ArgsInv
    <3> QED
      BY <1>2, <3>1, <3>2, <3>3
  <2> QED
    BY <1>1, <2>1, <2>2, SplicedCases
<1> QED
  BY <1>1, <1>2, WorldStays DEF ArgsInv

\* The visits q..p of ts are the visits r..k of us.
Moved(ts, p, q, us, k, r) ==
  /\ p \in Nat /\ q \in Nat /\ k \in Nat /\ r \in Nat /\ q <= p /\ k - r = p - q
  /\ \A i \in q..p : us[(i + r) - q] = ts[i]

LEMMA MovedLast ==
  ASSUME NEW ts, NEW us, NEW p, NEW q, NEW k, NEW r, Moved(ts, p, q, us, k, r)
  PROVE  us[k] = ts[p]
<1>1. (p + r) - q = k /\ p \in q..p
  BY DEF Moved
<1> QED
  BY <1>1 DEF Moved

\* What remains of the arguments when visits are put before them or taken away.
LEMMA WaitsOn ==
  ASSUME NEW as, NEW ts, NEW us, NEW p, NEW q, NEW k, NEW r, NEW j,
         Moved(ts, p, q, us, k, r), Waits(as, ts, p, q, j)
  PROVE  Waits(as, us, k, r, j)
<1>0. /\ p \in Nat /\ q \in Nat /\ k \in Nat /\ r \in Nat /\ q <= p /\ k - r = p - q
      /\ \A i \in q..p : us[(i + r) - q] = ts[i]
  BY DEF Moved
<1>1. us[k] = ts[p]
  BY MovedLast
<1>2. ASSUME NEW i \in r..(k - 1)
      PROVE  us[i].step = "argument" /\ us[i].node = as[us[k].node].kids[(j + 1) + (i - r)]
  <2> DEFINE x == (i + q) - r
  <2>1. x \in q..p /\ x \in q..(p - 1) /\ (x + r) - q = i /\ x - q = i - r
    BY <1>0
  <2>2. us[i] = ts[x]
    BY <1>0, <2>1
  <2>3. ts[x].step = "argument" /\ ts[x].node = as[ts[p].node].kids[(j + 1) + (x - q)]
    BY <2>1 DEF Waits
  <2> HIDE DEF x
  <2> QED
    BY <1>1, <2>1, <2>2, <2>3
<1> QED
  BY <1>0, <1>1, <1>2 DEF Waits

\* The visit at hand returns to one that restores the cursor to what it was.
LEMMA UnderwayReturns ==
  ASSUME NEW w, NEW as, NEW ts, NEW us, NEW c, NEW p \in Nat, NEW q \in Nat, NEW j, q > 2, q <= p,
         \A i \in 2..(q - 2) : ts[i].step # "code",
         \A i \in 2..p : us[i - 1] = ts[i],
         Stage(w, as, ts, c, p, q, j)
  PROVE  Stage(w, as, us, Back(ts, c, 2), p - 1, q - 1, j)
<1> DEFINE d == Back(ts, c, 2)
           lim == w.at[ts[p].node][j] + 2
<1>0. q # 1 /\ q # 2
  OBVIOUS
<1>1. Underway(w, as, ts, c, p, q, j) /\ Waits(as, ts, p, q, j)
  BY <1>0 DEF Stage, Over, Begun
<1>2. Waits(as, us, p - 1, q - 1, j) /\ us[p - 1] = ts[p]
  <2>1. /\ p - 1 \in Nat /\ q - 1 \in Nat /\ (p - 1) - (q - 1) = p - q
        /\ \A i \in q..p : (i + (q - 1)) - q = i - 1 /\ i \in 2..p
    OBVIOUS
  <2>2. \A i \in q..p : us[(i + (q - 1)) - q] = ts[i]
    BY <2>1
  <2> DEFINE k == p - 1
             r == q - 1
  <2>3. Moved(ts, p, q, us, k, r)
    BY <2>1, <2>2 DEF Moved
  <2> HIDE DEF k, r
  <2>4. Waits(as, us, k, r, j)
    BY <1>1, <2>3, WaitsOn
  <2>5. us[k] = ts[p]
    BY <2>3, MovedLast
  <2> QED
    BY <2>4, <2>5 DEF k, r
<1>3. us[(q - 1) - 1] = ts[q - 1]
  BY q - 1 \in 2..p
<1>4. Back(us, d, (q - 1) - 1) = Back(ts, c, q - 1)
  <2>1. CASE q = 3
    BY <2>1 DEF Back
  <2>2. CASE q > 3
    <3> DEFINE x == q - 2
    <3>1. x \in 2..(q - 2) /\ x \in 2..p /\ x # 1 /\ (q - 1) - 1 # 1 /\ q - 1 # 1
          /\ ((q - 1) - 1) - 1 = x - 1 /\ (q - 1) - 1 = x
      BY <2>2
    <3>2. us[x - 1] = ts[x] /\ ts[x].step # "code"
      BY <3>1
    <3> HIDE DEF x, d
    <3> QED
      BY <3>1, <3>2 DEF Back
  <2> QED
    BY <2>1, <2>2
<1>5. ASSUME j # 1, NEW i \in 1..((q - 1) - 2) PROVE Under(w, as, us[i], d, lim)
  <2>1. i + 1 \in 1..(q - 2) /\ i + 1 \in 2..p /\ i + 1 \in 2..(q - 2) /\ (i + 1) - 1 = i
    OBVIOUS
  <2>2. us[i] = ts[i + 1] /\ ts[i + 1].step # "code"
    BY <2>1
  <2>3. Under(w, as, ts[i + 1], c, lim)
    BY <1>1, <1>5, <2>1 DEF Underway
  <2> HIDE DEF d, lim
  <2> QED
    BY <2>2, <2>3 DEF Under
<1>6. q - 1 >= 2
  OBVIOUS
<1>7. Underway(w, as, us, d, p - 1, q - 1, j)
  BY <1>1, <1>2, <1>3, <1>4, <1>5, <1>6 DEF Underway
<1> HIDE DEF d
<1>8. Stage(w, as, us, d, p - 1, q - 1, j)
  BY <1>2, <1>7 DEF Stage
<1> QED
  BY <1>8 DEF d

\* It visits an operand of an operation first.
LEMMA UnderwayCalls ==
  ASSUME NEW w, NEW as, NEW ts, NEW us, NEW c, NEW d, NEW p \in Nat, NEW q \in Nat, NEW j, q > 2, q <= p,
         \A i \in 2..(q - 2) : ts[i].step # "code",
         \A i \in 2..p : us[i + 1] = ts[i],
         us[2].step \in {"right", "combine"}, us[2].saved = Back(ts, c, 2),
         j # 1 => /\ Under(w, as, us[1], d, w.at[ts[p].node][j] + 2)
                  /\ Under(w, as, us[2], d, w.at[ts[p].node][j] + 2),
         Stage(w, as, ts, c, p, q, j)
  PROVE  Stage(w, as, us, d, p + 1, q + 1, j)
<1> DEFINE lim == w.at[ts[p].node][j] + 2
<1>0. q # 1 /\ q # 2
  OBVIOUS
<1>1. Underway(w, as, ts, c, p, q, j) /\ Waits(as, ts, p, q, j)
  BY <1>0 DEF Stage, Over, Begun
<1>2. Waits(as, us, p + 1, q + 1, j) /\ us[p + 1] = ts[p]
  <2>1. /\ p + 1 \in Nat /\ q + 1 \in Nat /\ (p + 1) - (q + 1) = p - q
        /\ \A i \in q..p : (i + (q + 1)) - q = i + 1 /\ i \in 2..p
    OBVIOUS
  <2>2. \A i \in q..p : us[(i + (q + 1)) - q] = ts[i]
    BY <2>1
  <2> DEFINE k == p + 1
             r == q + 1
  <2>3. Moved(ts, p, q, us, k, r)
    BY <2>1, <2>2 DEF Moved
  <2> HIDE DEF k, r
  <2>4. Waits(as, us, k, r, j)
    BY <1>1, <2>3, WaitsOn
  <2>5. us[k] = ts[p]
    BY <2>3, MovedLast
  <2> QED
    BY <2>4, <2>5 DEF k, r
<1>3. us[(q + 1) - 1] = ts[q - 1]
  <2>1. q - 1 \in 2..p /\ (q - 1) + 1 = (q + 1) - 1
    OBVIOUS
  <2> QED
    BY <2>1
<1>4. Back(us, d, (q + 1) - 1) = Back(ts, c, q - 1)
  <2> DEFINE x == q - 2
  <2>1. x \in 1..p /\ (q + 1) - 1 # 1 /\ q - 1 # 1 /\ ((q + 1) - 1) - 1 = x + 1 /\ (q - 1) - 1 = x
    OBVIOUS
  <2>2. CASE x = 1
    <3>1. q - 1 = 2 /\ ((q + 1) - 1) - 1 = 2
      BY <2>2
    <3> HIDE DEF x
    <3>2. Back(us, d, (q + 1) - 1) = us[2].saved
      BY <2>1, <3>1 DEF Back
    <3> QED
      BY <3>1, <3>2
  <2>3. CASE x # 1
    <3>1. x \in 2..(q - 2) /\ x \in 2..p
      BY <2>3
    <3>2. us[x + 1] = ts[x] /\ ts[x].step # "code"
      BY <3>1
    <3> HIDE DEF x
    <3> QED
      BY <2>1, <3>2 DEF Back
  <2> QED
    BY <2>2, <2>3
<1>5. ASSUME j # 1, NEW i \in 1..((q + 1) - 2) PROVE Under(w, as, us[i], d, lim)
  <2>1. CASE i = 1 \/ i = 2
    BY <1>5, <2>1
  <2>2. CASE ~(i = 1 \/ i = 2)
    <3>1. i - 1 \in 1..(q - 2) /\ i - 1 \in 2..p /\ i - 1 \in 2..(q - 2) /\ (i - 1) + 1 = i
      BY <2>2
    <3>2. us[i] = ts[i - 1] /\ ts[i - 1].step # "code"
      BY <3>1
    <3>3. Under(w, as, ts[i - 1], c, lim)
      BY <1>1, <1>5, <3>1 DEF Underway
    <3> HIDE DEF lim
    <3> QED
      BY <3>2, <3>3 DEF Under
  <2> QED
    BY <2>1, <2>2
<1>6. q + 1 >= 2
  OBVIOUS
<1>7. Underway(w, as, us, d, p + 1, q + 1, j)
  BY <1>1, <1>2, <1>3, <1>4, <1>5, <1>6 DEF Underway
<1> QED
  BY <1>2, <1>7 DEF Stage

\* The next argument is begun, its operand is, and it has been passed.
LEMMA ArgumentBegins ==
  ASSUME NEW w, NEW as, NEW ts, NEW us, NEW c, NEW d, NEW p \in Nat, NEW q \in Nat, NEW j \in Nat,
         1 <= q, q < 2, p >= 2, Len(as[ts[p].node].kids) \in Nat,
         us[1].step = "code", us[1].node = ts[1].node, \A i \in 2..p : us[i] = ts[i],
         Stage(w, as, ts, c, p, q, j), d = w.at[ts[p].node][j + 1]
  PROVE  Stage(w, as, us, d, p, q + 1, j + 1)
<1> DEFINE kids == as[ts[p].node].kids
           x == j + 1
           r == q + 1
<1>0. q = 1 /\ r = 2 /\ r \in Nat
  OBVIOUS
<1>1. Waits(as, ts, p, q, j)
  BY DEF Stage
<1>2. p - 1 = Len(kids) - j /\ \A i \in 1..(p - 1) : ts[i].step = "argument" /\ ts[i].node = kids[(j + 1) + (i - 1)]
  BY <1>0, <1>1 DEF Waits
<1>3. x \in Nat /\ x \in 0..Len(kids) /\ p - 2 = Len(kids) - x /\ x >= 1 /\ 2 - 1 = 1
  <2> DEFINE n == Len(kids)
  <2>1. n \in Nat /\ p - 1 = n - j
    BY <1>2
  <2> HIDE DEF n
  <2>2. n - j >= 1
    BY <2>1
  <2>3. x \in Nat /\ x \in 0..n /\ p - 2 = n - x /\ x >= 1 /\ 2 - 1 = 1
    BY <2>1, <2>2
  <2> QED
    BY <2>3 DEF n
<1>4. ts[1].node = kids[x]
  <2>1. 1 \in 1..(p - 1) /\ (j + 1) + (1 - 1) = x
    OBVIOUS
  <2> QED
    BY <1>2, <2>1
<1>5. us[p] = ts[p]
  BY p \in 2..p
<1>6. ASSUME NEW i \in 2..(p - 1)
      PROVE  us[i].step = "argument" /\ us[i].node = kids[(x + 1) + (i - 2)]
  <2>1. i \in 1..(p - 1) /\ i \in 2..p /\ (x + 1) + (i - 2) = (j + 1) + (i - 1)
    OBVIOUS
  <2> HIDE DEF x
  <2> QED
    BY <1>2, <2>1
<1> HIDE DEF x, r
<1>7. Waits(as, us, p, r, x)
  BY <1>0, <1>3, <1>5, <1>6 DEF Waits
<1>8. Begun(w, as, us, d, p, r, x)
  BY <1>0, <1>3, <1>4, <1>5 DEF Begun, x
<1>9. Stage(w, as, us, d, p, r, x)
  BY <1>7, <1>8 DEF Stage
<1> QED
  BY <1>9 DEF x, r

LEMMA OperandBegins ==
  ASSUME NEW w, NEW as, NEW ts, NEW us, NEW c, NEW p \in Nat, NEW q \in Nat, NEW j,
         1 < q, q < 3, p >= 2,
         us[1].step = "code", us[2].step = "pass", us[2].node = ts[1].node, \A i \in 2..p : us[i + 1] = ts[i],
         ts[1].step = "code", Stage(w, as, ts, c, p, q, j),
         j # 1 => c + w.span[us[1].node] <= c + 2
  PROVE  Stage(w, as, us, c, p + 1, q + 1, j)
<1> DEFINE k == p + 1
           r == q + 1
<1>0. q = 2 /\ r = 3 /\ r \in Nat /\ q # 1 /\ q - 1 = 1 /\ r - 1 = 2 /\ r >= 2
  OBVIOUS
<1>1. Begun(w, as, ts, c, p, q, j) /\ Waits(as, ts, p, q, j)
  BY <1>0 DEF Stage, Over, Underway
<1>2. Waits(as, us, k, r, j) /\ us[k] = ts[p]
  <2>1. /\ k \in Nat /\ k - r = p - q /\ q <= p /\ \A i \in q..p : (i + r) - q = i + 1 /\ i \in 2..p
    OBVIOUS
  <2> HIDE DEF k, r
  <2>2. \A i \in q..p : us[(i + r) - q] = ts[i]
    BY <2>1
  <2>3. Moved(ts, p, q, us, k, r)
    BY <1>0, <2>1, <2>2 DEF Moved
  <2>4. Waits(as, us, k, r, j)
    BY <1>1, <2>3, WaitsOn
  <2>5. us[k] = ts[p]
    BY <2>3, MovedLast
  <2> QED
    BY <2>4, <2>5
<1> HIDE DEF k, r
<1>3. us[2].node = as[us[k].node].kids[j] /\ c = w.at[us[k].node][j] /\ j >= 1
  BY <1>1, <1>2 DEF Begun
<1>4. Back(us, c, r - 1) = c
  <2>1. (r - 1) - 1 = 1
    BY <1>0
  <2> QED
    BY <2>1 DEF Back
<1>5. ASSUME j # 1, NEW i \in 1..(r - 2) PROVE Under(w, as, us[i], c, w.at[us[k].node][j] + 2)
  <2>1. i = 1
    BY <1>0
  <2> QED
    BY <1>3, <1>5, <2>1 DEF Under
<1>7. Underway(w, as, us, c, k, r, j)
  BY <1>0, <1>3, <1>4, <1>5 DEF Underway
<1>8. Stage(w, as, us, c, k, r, j)
  BY <1>2, <1>7 DEF Stage
<1> QED
  BY <1>8 DEF k, r

LEMMA ArgumentPassed ==
  ASSUME NEW w, NEW as, NEW ts, NEW us, NEW c, NEW p \in Nat, NEW q \in Nat, NEW j,
         1 < q, q < 3, p >= 2,
         \A i \in 2..p : us[i - 1] = ts[i], ts[1].step = "pass", Stage(w, as, ts, c, p, q, j)
  PROVE  Stage(w, as, us, c, p - 1, q - 1, j)
<1> DEFINE k == p - 1
           r == q - 1
<1>0. q = 2 /\ r = 1 /\ r \in Nat /\ q # 1 /\ q - 1 = 1
  OBVIOUS
<1>1. Underway(w, as, ts, c, p, q, j) /\ Waits(as, ts, p, q, j)
  BY <1>0 DEF Stage, Over, Begun
<1>2. Waits(as, us, k, r, j) /\ us[k] = ts[p]
  <2>1. /\ k \in Nat /\ k - r = p - q /\ q <= p /\ \A i \in q..p : (i + r) - q = i - 1 /\ i \in 2..p
    OBVIOUS
  <2> HIDE DEF k, r
  <2>2. \A i \in q..p : us[(i + r) - q] = ts[i]
    BY <2>1
  <2>3. Moved(ts, p, q, us, k, r)
    BY <1>0, <2>1, <2>2 DEF Moved
  <2>4. Waits(as, us, k, r, j)
    BY <1>1, <2>3, WaitsOn
  <2>5. us[k] = ts[p]
    BY <2>3, MovedLast
  <2> QED
    BY <2>4, <2>5
<1>3. c = w.at[ts[p].node][j]
  <2>1. Back(ts, c, q - 1) = c
    BY <1>0 DEF Back
  <2> QED
    BY <1>1, <2>1 DEF Underway
<1> HIDE DEF k, r
<1>4. Over(w, us, c, k, r, j)
  BY <1>0, <1>2, <1>3 DEF Over
<1>5. Stage(w, as, us, c, k, r, j)
  BY <1>2, <1>4 DEF Stage
<1> QED
  BY <1>5 DEF k, r

\* What is first while the arguments of the call at p are being computed.
LEMMA StageHead ==
  ASSUME NEW w, NEW as, NEW ts, NEW c, NEW p \in Nat, NEW q \in Nat, NEW j \in Nat,
         p >= 2, 1 <= q, q <= p, Len(as[ts[p].node].kids) \in Nat, Stage(w, as, ts, c, p, q, j)
  PROVE  \/ q < 2 /\ ts[1].step = "argument" /\ j + 1 \in 1..Len(as[ts[p].node].kids)
                  /\ ts[1].node = as[ts[p].node].kids[j + 1]
         \/ /\ 1 < q /\ q < 3 /\ j \in 1..Len(as[ts[p].node].kids)
            /\ ts[1].step \in {"code", "pass"} /\ ts[1].node = as[ts[p].node].kids[j]
         \/ /\ q > 2 /\ j \in 1..Len(as[ts[p].node].kids)
            /\ ts[q - 1].step = "pass" /\ ts[q - 1].node = as[ts[p].node].kids[j]
<1> DEFINE kids == as[ts[p].node].kids
           n == Len(kids)
<1>1. /\ n \in Nat /\ j \in 0..n /\ p - q = n - j
      /\ \A i \in q..(p - 1) : ts[i].step = "argument" /\ ts[i].node = kids[(j + 1) + (i - q)]
  BY DEF Stage, Waits
<1>2. CASE q = 1
  <2>1. 1 \in q..(p - 1) /\ (j + 1) + (1 - q) = j + 1 /\ q < 2
    BY <1>2
  <2>2. ts[1].step = "argument" /\ ts[1].node = kids[j + 1]
    BY <1>1, <2>1
  <2>3. j + 1 \in 1..n
    <3>1. p - 1 = n - j
      BY <1>1, <1>2
    <3> HIDE DEF n
    <3> QED
      BY <1>1, <3>1
  <2> QED
    BY <2>1, <2>2, <2>3
<1>3. CASE q # 1
  <2>1. Begun(w, as, ts, c, p, q, j) \/ Underway(w, as, ts, c, p, q, j)
    BY <1>3 DEF Stage, Over
  <2>2. j \in 1..n
    <3>1. j >= 1
      BY <2>1 DEF Begun, Underway
    <3> HIDE DEF n
    <3> QED
      BY <1>1, <3>1
  <2>3. CASE q = 2
    <3>1. q - 1 = 1 /\ 1 < q /\ q < 3
      BY <2>3
    <3>2. ts[1].step \in {"code", "pass"} /\ ts[1].node = kids[j]
      BY <2>1, <3>1 DEF Begun, Underway
    <3> QED
      BY <2>2, <3>1, <3>2
  <2>4. CASE q # 2
    <3>1. q > 2
      BY <1>3, <2>4
    <3>2. ts[q - 1].step = "pass" /\ ts[q - 1].node = kids[j]
      BY <2>1, <2>4 DEF Begun, Underway
    <3> QED
      BY <2>2, <3>1, <3>2
  <2> QED
    BY <2>3, <2>4
<1> QED
  BY <1>2, <1>3

\* A part of the j-th argument is being computed.
InSum(w, p, q, j) ==
  /\ Expects(w.sum, ast, todo[q - 1]) /\ Placed(w.sum, w.vars, ast, todo, currentRegisterCt, q - 1)
  /\ Operand(ast, todo[q - 1]) = Arg(ast, todo[p].node, j)
  /\ Summing(w.sum, todo[1]) /\ \A i \in 2..(q - 2) : todo[i].step # "code"

LEMMA PartOfArgument ==
  ASSUME WalkInv, PlaceInv, NEW w, World(w), NEW p \in DOMAIN todo, Passing(w, ast, todo[p]),
         NEW q \in Nat, NEW j, q > 2, q <= p, j \in 1..Len(ast[todo[p].node].kids),
         DOMAIN ast[todo[p].node].kids = 1..Len(ast[todo[p].node].kids),
         todo[q - 1].step = "pass", todo[q - 1].node = ast[todo[p].node].kids[j]
  PROVE  InSum(w, p, q, j)
<1> DEFINE k == q - 1
           t == todo[k]
<1>1. Len(todo) \in Nat /\ DOMAIN todo = 1..Len(todo)
  BY LenProperties DEF WalkInv, GenTypeOK
<1>2. k \in DOMAIN todo /\ k \in Nat /\ 1 \in 1..(k - 1) /\ k - 1 = q - 2
  BY <1>1
<1>3. Operand(ast, t) = Arg(ast, todo[p].node, j)
  BY DEF Operand, Arg
<1>4. w.sum[Arg(ast, todo[p].node, j)]
  BY DEF Passing
<1>5. Expects(w.sum, ast, t)
  BY <1>3, <1>4 DEF Expects, Holding
<1> HIDE DEF k
<1>6. Shaped(w.sum, w.vars)
  BY DEF World
<1>7. Placed(w.sum, w.vars, ast, todo, currentRegisterCt, k)
  BY <1>2, <1>5, <1>6 DEF PlaceInv
<1>8. Summing(w.sum, todo[1])
  BY <1>2, <1>7 DEF Placed, Beneath
<1>9. ASSUME NEW i \in 2..(q - 2) PROVE todo[i].step # "code"
  <2>1. i \in 1..(k - 1) /\ i # 1
    BY <1>2
  <2> QED
    BY <1>7, <2>1 DEF Placed
<1>10. k = q - 1
  BY DEF k
<1> QED
  BY <1>3, <1>5, <1>7, <1>8, <1>9, <1>10 DEF InSum

\* The call at p, its place among the visits and the number of its arguments.
LEMMA CallAt ==
  ASSUME TypeInv, GrammarInv, WalkInv, NEW w, World(w), NEW p \in DOMAIN todo, p # 1, Passing(w, ast, todo[p])
  PROVE  /\ p \in Nat /\ p >= 2 /\ todo[p].node \in DOMAIN ast /\ Laid(w, todo[p].node)
         /\ Len(ast[todo[p].node].kids) \in Nat
         /\ DOMAIN ast[todo[p].node].kids = 1..Len(ast[todo[p].node].kids)
<1>1. Len(todo) \in Nat /\ DOMAIN todo = 1..Len(todo)
  BY LenProperties DEF WalkInv, GenTypeOK
<1>2. p \in Nat /\ p >= 2
  BY <1>1
<1>3. todo[p].node \in DOMAIN ast /\ Laid(w, todo[p].node)
  BY DEF Passing, World
<1> QED
  BY <1>2, <1>3, Children

\* The visit is neither of an argument nor of a part of one.
Outside(t) ==
  /\ t.step \notin {"argument", "pass", "right", "combine"}
  /\ t.step = "code" =>
       /\ t.node \in DOMAIN ast /\ ast[t.node].kind \notin {"CONSTANT", "BINARY"}
       /\ ast[t.node].kind = "UNARY" => ast[t.node].op # "ARG"

LEMMA NoneOutside ==
  ASSUME TypeInv, GrammarInv, WalkInv, PlaceInv, NEW w, World(w), NEW p \in DOMAIN todo, p # 1,
         Passing(w, ast, todo[p]), Ready(w, p), Outside(todo[1])
  PROVE  FALSE
<1>1. PICK q \in 1..p, j \in Nat : Stage(w, ast, todo, currentRegisterCt, p, q, j)
  BY DEF Ready
<1> DEFINE kids == ast[todo[p].node].kids
<1>2. /\ p \in Nat /\ p >= 2 /\ Laid(w, todo[p].node) /\ Len(kids) \in Nat
      /\ DOMAIN kids = 1..Len(kids)
  BY CallAt
<1>3. q \in Nat /\ 1 <= q /\ q <= p
  BY <1>2
<1>4. \/ todo[1].step = "argument"
      \/ /\ j \in 1..Len(kids) /\ todo[1].step \in {"code", "pass"} /\ todo[1].node = kids[j]
      \/ /\ q > 2 /\ j \in 1..Len(kids) /\ todo[q - 1].step = "pass" /\ todo[q - 1].node = kids[j]
  BY <1>1, <1>2, <1>3, StageHead
<1>5. CASE j \in 1..Len(kids) /\ todo[1].step \in {"code", "pass"} /\ todo[1].node = kids[j]
  <2>1. ast[todo[1].node].kind = "UNARY" /\ ast[todo[1].node].op = "ARG"
    BY <1>2, <1>5 DEF Laid
  <2> QED
    BY <1>5, <2>1 DEF Outside
<1>6. CASE q > 2 /\ j \in 1..Len(kids) /\ todo[q - 1].step = "pass" /\ todo[q - 1].node = kids[j]
  <2>1. InSum(w, p, q, j)
    BY <1>2, <1>3, <1>6, PartOfArgument
  <2>2. Summing(w.sum, todo[1])
    BY <2>1 DEF InSum
  <2>3. Shaped(w.sum, w.vars)
    BY DEF World
  <2> QED
    BY <2>2, <2>3 DEF Summing, Outside, Shaped
<1> QED
  BY <1>4, <1>5, <1>6 DEF Outside

\* A visit that is not of an argument, and does not call a function.
LEMMA OutsideArgs ==
  ASSUME TypeInv, GrammarInv, WalkInv, PlaceInv, ArgsInv, NEW new, Goes(new), Outside(todo[1]),
         todo[1].step = "code" => ast[todo[1].node].kind # "CALL"
  PROVE  ArgsInv'
<1>1. Head(todo) = todo[1] /\ Leads(ast, Head(todo), new)
  BY GoesOn DEF Goes
<1>2. \A i \in DOMAIN new : new[i].step # "call"
  BY <1>1 DEF Leads
<1>3. \A w : World(w) => \A i \in DOMAIN new : Passing(w, ast, new[i]) => Ready(w, i)'
  BY <1>2 DEF Passing
<1>4. \A w : World(w) => \A k \in DOMAIN todo :
        k # 1 /\ Passing(w, ast, todo[k]) /\ Ready(w, k) => Ready(w, (Len(new) + k) - 1)'
  BY NoneOutside
<1> QED
  BY <1>3, <1>4, ArgsStep

LEMMA CutOutside ==
  ASSUME WalkInv, KindInv, NEW new, Goes(new),
         NEW step, step \notin {"argument", "pass", "right", "combine", "code"}, Doing(step)
  PROVE  Outside(todo[1]) /\ todo[1].step # "code"
<1>1. Head(todo) = todo[1]
  BY GoesOn
<1>2. Head(todo).step = step
  BY HeadKinds
<1> QED
  BY <1>1, <1>2 DEF Outside

LEMMA CodeOutside ==
  ASSUME WalkInv, NEW new, Goes(new), NEW kinds, DoingKind("code", kinds), kinds \cap {"CONSTANT", "BINARY"} = {},
         ast[Current].kind = "UNARY" => ast[Current].op # "ARG"
  PROVE  Outside(todo[1]) /\ todo[1].node = Current /\ ast[Current].kind \in kinds
<1>1. Head(todo) = todo[1]
  BY GoesOn
<1>2. Head(todo).node = Current /\ Head(todo).step = "code"
  BY CodeKind
<1>3. Current \in DOMAIN ast /\ ast[Current].kind \in kinds
  BY VisitedNode
<1> QED
  BY <1>1, <1>2, <1>3 DEF Outside

\* What OutsideArgs uses.
Aside == Outside(todo[1]) /\ (todo[1].step = "code" => ast[todo[1].node].kind # "CALL")

LEMMA CodeAside ==
  ASSUME WalkInv, NEW new, Goes(new), NEW kinds, DoingKind("code", kinds),
         kinds \cap {"CONSTANT", "BINARY", "CALL", "UNARY"} = {}
  PROVE  Aside
<1>1. Current \in DOMAIN ast /\ ast[Current].kind \in kinds
  BY VisitedNode
<1>2. kinds \cap {"CONSTANT", "BINARY"} = {} /\ ast[Current].kind # "UNARY" /\ ast[Current].kind # "CALL"
  BY <1>1
<1>3. Outside(todo[1]) /\ todo[1].node = Current
  BY <1>2, CodeOutside
<1> QED
  BY <1>2, <1>3 DEF Aside

LEMMA OtherReturnersAside ==
  ASSUME WalkInv, KindInv, OtherReturners, ~Pass, NEW new, Goes(new)
  PROVE  Aside
<1>1. ASSUME NEW step \in {"increment", "call", "store", "end if", "end while",
                            "end foreach", "end loop"}, Doing(step)
      PROVE  Aside
  <2>1. step \notin {"argument", "pass", "right", "combine", "code"}
    OBVIOUS
  <2> QED
    BY <1>1, <2>1, CutOutside DEF Aside
<1>2. CASE VisitLIST
  <2>1. DoingKind("code", {"EXPRLIST"})
    BY <1>2 DEF VisitLIST
  <2> QED
    BY <2>1, CodeAside
<1>3. CASE VisitOther
  <2> DEFINE kinds == {"GET", "EXPRSET", "EXPRRANGE", "BREAK", "RETURN", "SWITCH"}
  <2>1. DoingKind("code", kinds)
    BY <1>3 DEF VisitOther
  <2>2. kinds \cap {"CONSTANT", "BINARY", "CALL", "UNARY"} = {}
    OBVIOUS
  <2> HIDE DEF kinds
  <2> QED
    BY <2>1, <2>2, CodeAside
<1>4. ASSUME Increment1 \/ Call \/ Store \/ EndIf \/ EndWhile \/ EndForeach \/ EndLoop
      PROVE  \E step \in {"increment", "call", "store", "end if", "end while",
                          "end foreach", "end loop"} : Doing(step)
  BY <1>4 DEF Increment1, Call, Store, EndIf, EndWhile, EndForeach, EndLoop
<1> QED
  BY <1>1, <1>2, <1>3, <1>4 DEF OtherReturners

LEMMA OtherCallersAside ==
  ASSUME WalkInv, KindInv, OtherCallers, NEW new, Goes(new), VisitUnary => ast[Current].op # "ARG"
  PROVE  Aside
<1>1. CASE VisitUnary
  <2>1. DoingKind("code", {"UNARY"}) /\ ast[Current].op # "ARG"
    BY <1>1 DEF VisitUnary
  <2>2. Outside(todo[1]) /\ todo[1].node = Current /\ ast[Current].kind \in {"UNARY"}
    BY <2>1, CodeOutside
  <2> QED
    BY <2>2 DEF Aside
<1>2. CASE VisitAFF
  <2>1. DoingKind("code", {"AFF"})
    BY <1>2 DEF VisitAFF
  <2> QED
    BY <2>1, CodeAside
<1>3. CASE VisitControl
  <2>1. DoingKind("code", Governing)
    BY <1>3 DEF VisitControl, Governing
  <2>2. Governing \cap {"CONSTANT", "BINARY", "CALL", "UNARY"} = {}
    BY DEF Governing, Conditionals
  <2> QED
    BY <2>1, <2>2, CodeAside
<1>4. CASE VisitLOOP
  <2>1. DoingKind("code", {"LOOP"})
    BY <1>4 DEF VisitLOOP
  <2> QED
    BY <2>1, CodeAside
<1>5. CASE Control \/ Else
  <2>1. \E step \in {"control", "else"} : Doing(step)
    BY <1>5 DEF Control, Else
  <2>2. PICK step \in {"control", "else"} : Doing(step)
    BY <2>1
  <2>3. step \notin {"argument", "pass", "right", "combine", "code"}
    OBVIOUS
  <2> QED
    BY <2>2, <2>3, CutOutside DEF Aside
<1> QED
  BY <1>1, <1>2, <1>3, <1>4, <1>5 DEF OtherCallers

LEMMA ListsAside ==
  ASSUME WalkInv, KindInv, DataVisit \/ VisitInside, NEW new, Goes(new)
  PROVE  Aside
<1>1. CASE DataVisit
  <2>1. ASSUME NEW step, step = "data" PROVE Doing(step) /\ step \notin {"argument", "pass", "right", "combine", "code"}
    BY <1>1, <2>1 DEF DataVisit
  <2> QED
    BY <2>1, CutOutside DEF Aside
<1>2. CASE VisitInside
  <2>1. DoingKind("code", {"EXPR", "SEQ"})
    BY <1>2 DEF VisitInside
  <2> QED
    BY <2>1, CodeAside
<1> QED
  BY <1>1, <1>2

\* The steps that are not of an argument or of the visit of a call.
LEMMA AsideArgs ==
  ASSUME TypeInv, GrammarInv, TreeInv, WalkInv, KindInv, PlaceInv, ArgsInv,
         \/ OtherReturners /\ ~Pass
         \/ OtherCallers /\ (VisitUnary => ast[Current].op # "ARG")
         \/ DataVisit \/ VisitInside
  PROVE  ArgsInv'
<1>1. \E new : Goes(new)
  BY OtherReturnersGo, OtherCallersGo, OtherListsGo DEF OtherLists
<1>2. PICK new : Goes(new)
  BY <1>1
<1>3. Aside
  BY <1>2, OtherReturnersAside, OtherCallersAside, ListsAside
<1> QED
  BY <1>2, <1>3, OutsideArgs DEF Aside

\* All the arguments of the call at p are visited before it.
Queued(as, us, p) ==
  LET kids == as[us[p].node].kids
  IN /\ Len(kids) \in Nat /\ p = Len(kids) + 1
     /\ \A i \in 1..Len(kids) : us[i].step = "argument" /\ us[i].node = kids[i]

\* The call begins with its first argument.
LEMMA CallBegins ==
  ASSUME NEW w, NEW as, NEW us, NEW c, NEW p \in Nat, NEW q \in Nat, NEW j \in Nat,
         1 <= q, q < 2, j < 1, Queued(as, us, p), c = w.at[us[p].node][j]
  PROVE  Stage(w, as, us, c, p, q, j)
<1>1. q = 1 /\ j = 0
  OBVIOUS
<1> DEFINE kids == as[us[p].node].kids
           n == Len(kids)
<1>2. n \in Nat /\ p = n + 1 /\ \A i \in 1..n : us[i].step = "argument" /\ us[i].node = kids[i]
  BY DEF Queued
<1> HIDE DEF n
<1>3. j \in 0..n /\ p - q = n - j
  BY <1>1, <1>2
<1>4. ASSUME NEW i \in q..(p - 1)
      PROVE  us[i].step = "argument" /\ us[i].node = kids[(j + 1) + (i - q)]
  <2>1. i \in 1..n /\ (j + 1) + (i - q) = i
    BY <1>1, <1>2
  <2> QED
    BY <1>2, <2>1
<1>5. Waits(as, us, p, q, j)
  BY <1>3, <1>4 DEF Waits, n
<1>6. Over(w, us, c, p, q, j)
  BY <1>1 DEF Over
<1> QED
  BY <1>5, <1>6 DEF Stage

LEMMA NothingGot ==
  ASSUME NEW w, NEW as, NEW ts, NEW c, NEW bank, NEW p, NEW q \in Nat, NEW j \in Nat, 1 <= q, q < 2, j < 1
  PROVE  Got(w, as, ts, c, bank, p, q, j)
<1>1. q = 1 /\ j = 0 /\ q # 2 /\ 1..0 = {}
  OBVIOUS
<1> QED
  BY <1>1 DEF Got

\* The visits of the arguments, then the call.
Spread(new) ==
  LET kids == ast[Current].kids
  IN /\ Len(kids) \in Nat /\ DOMAIN new = 1..(Len(kids) + 1) /\ Len(new) = Len(kids) + 1
     /\ \A i \in 1..Len(kids) : new[i].step = "argument" /\ new[i].node = kids[i]
     /\ new[Len(kids) + 1].step = "call" /\ new[Len(kids) + 1].node = Current

LEMMA VisitCallSpreads ==
  ASSUME TypeInv, GrammarInv, WalkInv, KindInv, VisitCall
  PROVE  \E new : Goes(new) /\ Spread(new)
<1> DEFINE nodes == ast[Current].kids
           args == [i \in DOMAIN nodes |-> Task("argument", nodes[i], 0)]
           then == Task("call", Current, currentRegisterCt)
           last == <<then>>
           new == args \o last
<1>1. DoingKind("code", {"CALL"}) /\ Stays /\ Continue(new)
  BY DEF VisitCall, Kid
<1>2. /\ Current \in DOMAIN ast /\ ast[Current].kind \in {"CALL"}
      /\ phase = "generating" /\ todo # <<>> /\ currentRegisterCt \in Int
  BY <1>1, VisitedNode
<1>3. nodes \in Seq(Ref(ast))
  BY <1>2, Children
<1>20. Len(nodes) \in Nat /\ DOMAIN nodes = 1..Len(nodes)
  BY <1>2, Children
<1>4. "argument" \in Steps /\ "call" \in Steps /\ Current \in Ref(ast)
  BY <1>2 DEF Steps, Ref
<1> HIDE DEF nodes
<1>5. args \in Seq(Tasks(ast)) /\ \A i \in 1..Len(args) : args[i].step = "argument"
  BY <1>3, <1>4, TasksInTurn
<1>6. Len(args) = Len(nodes)
  BY <1>3, <1>4, TasksInTurn
<1>7. \A i \in DOMAIN nodes : args[i] = Task("argument", nodes[i], 0)
  OBVIOUS
<1>8. then \in Tasks(ast) /\ then.step = "call" /\ then.node = Current
  BY <1>2, <1>4, ThenTask
<1> HIDE DEF args, then
<1>9. \A i \in 1..Len(nodes) : args[i].node = nodes[i]
  <2>1. \A e : Task("argument", e, 0).node = e
    BY DEF Task
  <2> QED
    BY <1>7, <1>20, <2>1
<1>10. last \in Seq(Tasks(ast)) /\ Len(last) = 1 /\ last[1] = then
  BY <1>8
<1> HIDE DEF last
<1>11. /\ new \in Seq(Tasks(ast)) /\ Len(new) = Len(args) + Len(last)
       /\ \A i \in 1..(Len(args) + Len(last)) :
            new[i] = IF i <= Len(args) THEN args[i] ELSE last[i - Len(args)]
  BY <1>5, <1>10, ConcatProperties
<1> HIDE DEF new
<1> DEFINE n == Len(nodes)
           p == n + 1
<1>12. n \in Nat /\ DOMAIN new = 1..p /\ Len(new) = p /\ p \in Nat
  BY <1>6, <1>10, <1>11, <1>20, LenProperties
<1>13. \A i \in 1..n : new[i].step = "argument" /\ new[i].node = nodes[i]
  <2>1. \A i \in 1..n : i \in 1..(Len(args) + Len(last)) /\ i <= Len(args) /\ i \in 1..Len(args)
    BY <1>6, <1>10, <1>12
  <2> QED
    BY <1>5, <1>9, <1>11, <2>1
<1>14. new[p] = then
  <2>1. p \in 1..(Len(args) + Len(last)) /\ ~(p <= Len(args)) /\ p - Len(args) = 1
    BY <1>6, <1>10, <1>12
  <2> QED
    BY <1>10, <1>11, <2>1
<1>15. Spread(new)
  BY <1>8, <1>12, <1>13, <1>14 DEF Spread, nodes
<1>16. NoSum(Head(todo)) /\ Head(todo).node = Current /\ Head(todo).step = "code"
  BY <1>1, CodeKind
<1>17. \A i \in DOMAIN new : Kinds(ast, new[i]) /\ new[i].step \in {"data", "code", "argument", "call"}
  <2>1. \A i \in DOMAIN new : i = p \/ i \in 1..n
    BY <1>12
  <2> QED
    BY <1>2, <1>8, <1>13, <1>14, <2>1 DEF Kinds
<1>18. Len(new) # 0 /\ new[Len(new)].node = Head(todo).node
  BY <1>8, <1>12, <1>14, <1>16
<1>19. Goes(new)
  BY <1>1, <1>2, <1>11, <1>16, <1>17, <1>18, TurnGoes
<1> QED
  BY <1>15, <1>19

LEMMA VisitCallArgs ==
  ASSUME TypeInv, GrammarInv, WalkInv, KindInv, PlaceInv, ArgsInv, VisitCall
  PROVE  ArgsInv'
<1> DEFINE kids == ast[Current].kids
           n == Len(kids)
           p == n + 1
<1>1. PICK new : Goes(new) /\ Spread(new)
  BY VisitCallSpreads
<1>2. /\ n \in Nat /\ DOMAIN new = 1..p /\ p \in Nat
      /\ \A i \in 1..n : new[i].step = "argument" /\ new[i].node = kids[i]
      /\ new[p].step = "call" /\ new[p].node = Current
  BY <1>1 DEF Spread
<1>3. DoingKind("code", {"CALL"}) /\ Stays /\ currentRegisterCt' = AfterArguments
  BY DEF VisitCall, MoveTo
<1>4. Current \in DOMAIN ast /\ ast[Current].kind \in {"CALL"}
  BY <1>3, VisitedNode
<1>5. \A i \in DOMAIN new : todo'[i] = new[i]
  BY <1>1, <1>2, GoesOn DEF Spliced
<1>6. ASSUME NEW w, World(w), NEW i \in DOMAIN new, Passing(w, ast, new[i])
      PROVE  Ready(w, i)'
  <2> DEFINE us == todo'
  <2>1. i = p \/ i \in 1..n
    BY <1>2
  <2>2. i = p
    BY <1>2, <1>6, <2>1 DEF Passing
  <2>3. us[i].node = Current
    BY <1>2, <1>5, <2>2
  <2>4. \A k \in 1..n : us[k].step = "argument" /\ us[k].node = kids[k]
    <3>1. \A k \in 1..n : k \in DOMAIN new
      BY <1>2
    <3> QED
      BY <1>2, <1>5, <3>1
  <2>5. Queued(ast, us, i)
    BY <1>2, <2>2, <2>3, <2>4 DEF Queued
  <2>6. Laid(w, Current)
    BY <1>2, <1>6, <2>2 DEF Passing, World
  <2>7. currentRegisterCt' = w.at[us[i].node][0]
    BY <1>3, <2>3, <2>6 DEF Laid
  <2> HIDE DEF us
  <2>8. ASSUME NEW q \in Nat, NEW j \in Nat, q = 1, j = 0 PROVE Ready(w, i)'
    <3>1. i \in Nat /\ q \in 1..i /\ 1 <= q /\ q < 2 /\ j < 1
      BY <1>2, <2>2, <2>8
    <3>2. Stage(w, ast, us, currentRegisterCt', i, q, j)
      BY <2>5, <2>7, <2>8, <3>1, CallBegins
    <3>3. Got(w, ast, us, currentRegisterCt', Ran(text').regs, i, q, j)
      BY <3>1, NothingGot
    <3> QED
      BY <1>3, <3>1, <3>2, <3>3, ReadyNext DEF us
  <2> QED
    BY <2>8
<1>7. Outside(todo[1])
  <2>1. {"CALL"} \cap {"CONSTANT", "BINARY"} = {} /\ ast[Current].kind # "UNARY"
    BY <1>4
  <2> QED
    BY <1>1, <1>3, <2>1, CodeOutside
<1>8. \A w : World(w) => \A k \in DOMAIN todo :
        k # 1 /\ Passing(w, ast, todo[k]) /\ Ready(w, k) => Ready(w, (Len(new) + k) - 1)'
  BY <1>7, NoneOutside
<1>9. \A w : World(w) => \A i \in DOMAIN new : Passing(w, ast, new[i]) => Ready(w, i)'
  BY <1>6
<1> QED
  BY <1>1, <1>8, <1>9, ArgsStep

\* What becomes of the visits before the call at k.
LEMMA Shifted ==
  ASSUME WalkInv, NEW new, Goes(new), NEW k \in DOMAIN todo
  PROVE  /\ \A i \in 2..k : todo'[(Len(new) + i) - 1] = todo[i]
         /\ \A i \in DOMAIN new : todo'[i] = new[i]
         /\ Len(new) \in Nat
<1>1. Spliced(todo', new, todo) /\ DOMAIN todo = 1..Len(todo) /\ Len(todo) \in Nat
  BY GoesOn
<1>2. \A i \in 2..k : i \in 2..Len(todo)
  BY <1>1
<1> QED
  BY <1>1, <1>2 DEF Spliced

\* An argument is computed: it will be the last of those that are, and the registers
\* of the others are as they were.
LEMMA GotBegins ==
  ASSUME NEW w, NEW as, NEW ts, NEW us, NEW c, NEW d, NEW bank, NEW p, NEW q \in Nat, NEW j \in Nat,
         1 <= q, q < 2, us[p].node = ts[p].node, us[1].step = "code",
         Got(w, as, ts, c, bank, p, q, j)
  PROVE  Got(w, as, us, d, bank, p, q + 1, j + 1)
<1>1. q = 1 /\ q + 1 # 1 /\ (j + 1) - 1 = j
  OBVIOUS
<1>2. \A i \in 1..j : Arrived(w, as, ts[p].node, bank, i)
  BY <1>1 DEF Got
<1> QED
  BY <1>1, <1>2 DEF Got

\* A part of it is visited first.
LEMMA GotStill ==
  ASSUME NEW w, NEW as, NEW ts, NEW us, NEW c, NEW d, NEW bank, NEW p, NEW k, NEW q \in Nat, NEW r \in Nat,
         NEW j, q > 1, r > 2, us[k].node = ts[p].node, Got(w, as, ts, c, bank, p, q, j)
  PROVE  Got(w, as, us, d, bank, k, r, j)
<1>1. q # 1 /\ r # 1 /\ r # 2
  OBVIOUS
<1> QED
  BY <1>1 DEF Got

\* It is where it belongs.
LEMMA GotPassed ==
  ASSUME NEW w, NEW as, NEW ts, NEW us, NEW c, NEW d, NEW bank, NEW p, NEW k, NEW q \in Nat, NEW r \in Nat,
         NEW j \in Nat, 1 < q, q < 3, r < 2, 1 <= r, us[k].node = ts[p].node,
         Arrived(w, as, ts[p].node, bank, j), Got(w, as, ts, c, bank, p, q, j)
  PROVE  Got(w, as, us, d, bank, k, r, j)
<1>1. q # 1 /\ r = 1 /\ r # 2 /\ \A i \in 1..j : i = j \/ i \in 1..(j - 1)
  OBVIOUS
<1>2. \A i \in 1..(j - 1) : Arrived(w, as, ts[p].node, bank, i)
  BY <1>1 DEF Got
<1>3. \A i \in 1..j : Arrived(w, as, ts[p].node, bank, i)
  BY <1>1, <1>2
<1> QED
  BY <1>1, <1>3 DEF Got

LEMMA ArgumentGoes ==
  ASSUME WalkInv, KindInv, Argument
  PROVE  \E new : Goes(new) /\ Len(new) = 1 /\ new[1].step = "code" /\ new[1].node = Current
<1>1. Doing("argument") /\ Stays /\ Continue(<<Visit(Current)>>)
  BY DEF Argument
<1>2. Current \in Ref(ast) /\ phase = "generating" /\ todo # <<>>
  BY <1>1, CutVisit
<1>3. Head(todo).node = Current /\ NoSum(Head(todo))
  <2>1. Doing("argument") => Current = Head(todo).node /\ NoSum(Head(todo))
    BY HeadKinds
  <2> QED
    BY <1>1, <2>1
<1> DEFINE t == Visit(Current)
           new == <<t>>
<1>4. t \in Tasks(ast) /\ t.step = "code" /\ t.node = Current
  BY <1>2, VisitTask, CodeTask
<1>5. Continue(new)
  BY <1>1
<1> HIDE DEF t
<1>6. new \in Seq(Tasks(ast)) /\ DOMAIN new = {1} /\ new[1] = t /\ Len(new) = 1
  BY <1>4
<1> HIDE DEF new
<1>7. \A i \in DOMAIN new : Kinds(ast, new[i]) /\ new[i].step \in {"data", "code", "argument", "call"}
  BY <1>4, <1>6 DEF Kinds
<1>8. Len(new) # 0 /\ new[Len(new)].node = Head(todo).node
  BY <1>3, <1>4, <1>6
<1>9. \A i \in DOMAIN new : new[i].step # "call"
  BY <1>4, <1>6
<1>10. Goes(new)
  BY <1>1, <1>2, <1>3, <1>5, <1>6, <1>7, <1>8, <1>9, TurnGoes
<1> QED
  BY <1>4, <1>6, <1>10

\* No new call.
LEMMA NoCalls ==
  ASSUME WalkInv, NEW new, Goes(new), todo[1].step # "code" \/ todo[1].node \notin DOMAIN ast \/ ast[todo[1].node].kind # "CALL"
  PROVE  \A w : World(w) => \A i \in DOMAIN new : Passing(w, ast, new[i]) => Ready(w, i)'
<1>1. Head(todo) = todo[1] /\ Leads(ast, Head(todo), new)
  BY GoesOn DEF Goes
<1>2. \A i \in DOMAIN new : new[i].step # "call"
  BY <1>1 DEF Leads
<1> QED
  BY <1>2 DEF Passing

\* Of the call at p and the arguments of it that wait, and what was computed of them.
Along(w, p, q, j) ==
  /\ World(w) /\ p \in DOMAIN todo /\ Passing(w, ast, todo[p])
  /\ p \in Nat /\ p >= 2 /\ q \in Nat /\ 1 <= q /\ q <= p /\ j \in Nat
  /\ todo[p].node \in DOMAIN ast /\ Laid(w, todo[p].node)
  /\ Len(ast[todo[p].node].kids) \in Nat
  /\ DOMAIN ast[todo[p].node].kids = 1..Len(ast[todo[p].node].kids)
  /\ Stage(w, ast, todo, currentRegisterCt, p, q, j)
  /\ StraightLine /\ Lives(w, Ran(text).mem) =>
       Got(w, ast, todo, currentRegisterCt, Ran(text).regs, p, q, j)

LEMMA AlongStep ==
  ASSUME TypeInv, GrammarInv, WalkInv, ArgsInv, NEW new, Goes(new),
         todo[1].step # "code" \/ todo[1].node \notin DOMAIN ast \/ ast[todo[1].node].kind # "CALL",
         \A w, p, q, j : Along(w, p, q, j) => Ready(w, (Len(new) + p) - 1)'
  PROVE  ArgsInv'
<1>1. ASSUME NEW w, World(w), NEW k \in DOMAIN todo, k # 1, Passing(w, ast, todo[k]), Ready(w, k)
      PROVE  Ready(w, (Len(new) + k) - 1)'
  <2>1. /\ k \in Nat /\ k >= 2 /\ todo[k].node \in DOMAIN ast /\ Laid(w, todo[k].node)
        /\ Len(ast[todo[k].node].kids) \in Nat
        /\ DOMAIN ast[todo[k].node].kids = 1..Len(ast[todo[k].node].kids)
    BY <1>1, CallAt
  <2>2. PICK q \in 1..k, j \in Nat :
           /\ Stage(w, ast, todo, currentRegisterCt, k, q, j)
           /\ StraightLine /\ Lives(w, Ran(text).mem) =>
                Got(w, ast, todo, currentRegisterCt, Ran(text).regs, k, q, j)
    BY <1>1 DEF Ready
  <2>3. q \in Nat /\ 1 <= q /\ q <= k
    BY <2>1
  <2>4. Along(w, k, q, j)
    BY <1>1, <2>1, <2>2, <2>3 DEF Along
  <2> QED
    BY <2>4
<1>2. \A w : World(w) => \A k \in DOMAIN todo :
        k # 1 /\ Passing(w, ast, todo[k]) /\ Ready(w, k) => Ready(w, (Len(new) + k) - 1)'
  BY <1>1
<1>3. \A w : World(w) => \A i \in DOMAIN new : Passing(w, ast, new[i]) => Ready(w, i)'
  BY NoCalls
<1> QED
  BY <1>2, <1>3, ArgsStep

\* Where the visit at hand is, by what it does.
LEMMA AlongHead ==
  ASSUME WalkInv, PlaceInv, NEW w, NEW p, NEW q, NEW j, Along(w, p, q, j)
  PROVE  \/ q < 2 /\ todo[1].step = "argument" /\ j + 1 \in 1..Len(ast[todo[p].node].kids)
                  /\ todo[1].node = ast[todo[p].node].kids[j + 1]
         \/ /\ 1 < q /\ q < 3 /\ j \in 1..Len(ast[todo[p].node].kids)
            /\ todo[1].step \in {"code", "pass"} /\ todo[1].node = ast[todo[p].node].kids[j]
         \/ q > 2 /\ j \in 1..Len(ast[todo[p].node].kids) /\ InSum(w, p, q, j)
<1>1. /\ World(w) /\ p \in DOMAIN todo /\ Passing(w, ast, todo[p])
      /\ p \in Nat /\ p >= 2 /\ q \in Nat /\ 1 <= q /\ q <= p /\ j \in Nat
      /\ Len(ast[todo[p].node].kids) \in Nat
      /\ DOMAIN ast[todo[p].node].kids = 1..Len(ast[todo[p].node].kids)
      /\ Stage(w, ast, todo, currentRegisterCt, p, q, j)
  BY DEF Along
<1>2. \/ q < 2 /\ todo[1].step = "argument" /\ j + 1 \in 1..Len(ast[todo[p].node].kids)
               /\ todo[1].node = ast[todo[p].node].kids[j + 1]
      \/ /\ 1 < q /\ q < 3 /\ j \in 1..Len(ast[todo[p].node].kids)
         /\ todo[1].step \in {"code", "pass"} /\ todo[1].node = ast[todo[p].node].kids[j]
      \/ /\ q > 2 /\ j \in 1..Len(ast[todo[p].node].kids)
         /\ todo[q - 1].step = "pass" /\ todo[q - 1].node = ast[todo[p].node].kids[j]
  BY <1>1, StageHead
<1>3. ASSUME q > 2, j \in 1..Len(ast[todo[p].node].kids),
             todo[q - 1].step = "pass", todo[q - 1].node = ast[todo[p].node].kids[j]
      PROVE  InSum(w, p, q, j)
  BY <1>1, <1>3, PartOfArgument
<1> QED
  BY <1>2, <1>3

LEMMA SumHead ==
  ASSUME NEW w, NEW p, NEW q, NEW j, InSum(w, p, q, j)
  PROVE  todo[1].step \in {"code", "right", "combine"} /\ w.sum[todo[1].node]
BY DEF InSum, Summing

LEMMA ArgumentArgs ==
  ASSUME TypeInv, GrammarInv, WalkInv, KindInv, PlaceInv, ArgsInv, Argument
  PROVE  ArgsInv'
<1>1. PICK new : Goes(new) /\ Len(new) = 1 /\ new[1].step = "code" /\ new[1].node = Current
  BY ArgumentGoes
<1>2. /\ Doing("argument") /\ Stays /\ text' = text
      /\ currentRegisterCt' = currentRegisterCt - ArgumentSpan(SizeOf(Current))
  BY DEF Argument, MoveTo
<1>3. Head(todo) = todo[1] /\ Current = todo[1].node /\ todo[1].step = "argument"
  BY <1>1, <1>2, GoesOn, CutVisit
<1>4. ASSUME NEW w, NEW p, NEW q, NEW j, Along(w, p, q, j) PROVE Ready(w, (Len(new) + p) - 1)'
  <2> DEFINE us == todo'
             d == currentRegisterCt'
             n == todo[p].node
  <2>1. q < 2 /\ j + 1 \in 1..Len(ast[n].kids) /\ todo[1].node = ast[n].kids[j + 1]
    BY <1>3, <1>4, AlongHead, SumHead
  <2>2. /\ World(w) /\ p \in DOMAIN todo
        /\ p \in Nat /\ p >= 2 /\ q \in Nat /\ 1 <= q /\ q <= p /\ j \in Nat
        /\ Laid(w, n) /\ Len(ast[n].kids) \in Nat
        /\ Stage(w, ast, todo, currentRegisterCt, p, q, j)
        /\ StraightLine /\ Lives(w, Ran(text).mem) =>
             Got(w, ast, todo, currentRegisterCt, Ran(text).regs, p, q, j)
    BY <1>4 DEF Along
  <2>3. us[1].step = "code" /\ us[1].node = todo[1].node /\ \A i \in 2..p : us[i] = todo[i]
    <3>1. /\ \A i \in 2..p : us[(Len(new) + i) - 1] = todo[i]
          /\ \A i \in DOMAIN new : us[i] = new[i]
      BY <1>1, <2>2, Shifted
    <3>2. 1 \in DOMAIN new /\ \A i \in 2..p : (Len(new) + i) - 1 = i
      BY <1>1, GoesOn, LenProperties
    <3> QED
      BY <1>1, <1>3, <3>1, <3>2
  <2>4. us[p] = todo[p]
    BY <2>2, <2>3
  <2>5. d = w.at[n][j + 1]
    <3>1. currentRegisterCt = w.at[n][j]
      <4>1. q # 2 /\ ~(q >= 2)
        BY <2>1, <2>2
      <4> QED
        BY <2>2, <4>1 DEF Stage, Over, Begun, Underway
    <3>2. (j + 1) - 1 = j
      BY <2>2
    <3>3. w.at[n][j + 1] = w.at[n][j] - ArgumentSpan(SizeOf(ast[n].kids[j + 1]))
      BY <2>1, <2>2, <3>2 DEF Laid
    <3> QED
      BY <1>2, <1>3, <2>1, <3>1, <3>3
  <2> HIDE DEF us, d
  <2>6. Stage(w, ast, us, d, p, q + 1, j + 1)
    BY <2>1, <2>2, <2>3, <2>5, ArgumentBegins DEF n
  <2>7. ASSUME StraightLine', Lives(w, Ran(text').mem)
        PROVE  Got(w, ast, us, d, Ran(text').regs, p, q + 1, j + 1)
    <3>1. StraightLine /\ Ran(text') = Ran(text)
      BY <1>2, <2>7 DEF StraightLine
    <3>2. Got(w, ast, todo, currentRegisterCt, Ran(text).regs, p, q, j)
      BY <2>2, <2>7, <3>1
    <3>3. Got(w, ast, us, d, Ran(text).regs, p, q + 1, j + 1)
      BY <2>1, <2>2, <2>3, <2>4, <3>2, GotBegins
    <3> QED
      BY <3>1, <3>3
  <2> DEFINE r == q + 1
             k == j + 1
  <2>8. r \in 1..p /\ k \in Nat /\ (Len(new) + p) - 1 = p
    BY <1>1, <2>1, <2>2
  <2> HIDE DEF r, k
  <2>9. Ready(w, p)'
    BY <1>2, <2>6, <2>7, <2>8, ReadyNext DEF us, d, r, k
  <2> QED
    BY <2>8, <2>9
<1>5. todo[1].step # "code"
  BY <1>3
<1>6. \A w, p, q, j : Along(w, p, q, j) => Ready(w, (Len(new) + p) - 1)'
  BY <1>4
<1> QED
  BY <1>1, <1>5, <1>6, AlongStep

LEMMA EmptyEmitted ==
  ASSUME IsText(text), Emit(<<>>)
  PROVE  text' = text
<1>1. text \in Seq(Range(text))
  BY DEF IsText
<1>2. text \o <<>> = text
  BY <1>1, ConcatEmptySeq
<1> QED
  BY <1>2 DEF Emit

\* A visit of one child, then the rest of the visit.
Then2(new, e, step, n, saved) ==
  /\ Len(new) = 2 /\ new[1].step = "code" /\ new[1].node = e
  /\ new[2].step = step /\ new[2].node = n /\ new[2].saved = saved

LEMMA TwoThen ==
  ASSUME phase = "generating", todo # <<>>, Stays, NEW t, t = Head(todo), t.node = Current,
         Current \in DOMAIN ast, NEW e \in Ref(ast), NEW step \in {"right", "combine", "pass"}, NEW saved \in Int,
         Continue(<<Visit(e), Task(step, Current, saved)>>),
         step = "combine" => ast[Current].kind = "BINARY",
         step = "pass" => ast[Current].kind = "UNARY",
         step \in {"right", "pass"} => e = Kid(1), step = "combine" => e = Kid(2)
  PROVE  \E new : Goes(new) /\ Then2(new, e, step, Current, saved)
<1> DEFINE new == <<Visit(e), Task(step, Current, saved)>>
<1>1. step \in Steps /\ step \notin {"call", "increment", "store"}
  BY DEF Steps
<1>2. Goes(new) /\ Two(new, Visit(e), Task(step, Current, saved)) /\ Len(new) = 2
  BY <1>1, TwoGo DEF Kid
<1>3. Visit(e).step = "code" /\ Visit(e).node = e
  BY CodeTask
<1>4. /\ Task(step, Current, saved).step = step /\ Task(step, Current, saved).node = Current
      /\ Task(step, Current, saved).saved = saved
  BY DEF Task
<1> DEFINE first == Visit(e)
           then == Task(step, Current, saved)
<1> HIDE DEF first, then, new
<1>5. new[1] = first /\ new[2] = then
  BY <1>2 DEF Two, first, then
<1>6. Then2(new, e, step, Current, saved)
  BY <1>2, <1>3, <1>4, <1>5 DEF Then2, first, then
<1> QED
  BY <1>2, <1>6

\* What is then first.
LEMMA ShiftedTwo ==
  ASSUME WalkInv, NEW new, Goes(new), NEW e, NEW step, NEW n, NEW saved, Then2(new, e, step, n, saved),
         NEW p \in DOMAIN todo
  PROVE  /\ todo'[1].step = "code" /\ todo'[1].node = e
         /\ todo'[2].step = step /\ todo'[2].node = n /\ todo'[2].saved = saved
         /\ \A i \in 2..p : todo'[i + 1] = todo[i]
         /\ (Len(new) + p) - 1 = p + 1
<1>1. /\ \A i \in 2..p : todo'[(Len(new) + i) - 1] = todo[i]
      /\ \A i \in DOMAIN new : todo'[i] = new[i]
  BY Shifted
<1>2. DOMAIN new = 1..Len(new) /\ DOMAIN todo = 1..Len(todo) /\ Len(todo) \in Nat
  BY GoesOn DEF Spliced
<1>3. Len(new) = 2
  BY DEF Then2
<1>4. 1 \in DOMAIN new /\ 2 \in DOMAIN new /\ p \in Nat
  BY <1>2, <1>3
<1>5. \A i \in 2..p : (Len(new) + i) - 1 = i + 1
  BY <1>3
<1>6. (Len(new) + p) - 1 = p + 1
  BY <1>3, <1>4
<1> QED
  BY <1>1, <1>4, <1>5, <1>6 DEF Then2

LEMMA OperandArgs ==
  ASSUME TypeInv, GrammarInv, WalkInv, KindInv, PlaceInv, ArgsInv, IsText(text),
         VisitUnary, ast[Current].op = "ARG"
  PROVE  ArgsInv'
<1>1. /\ DoingKind("code", {"UNARY"}) /\ Stays /\ currentRegisterCt' = currentRegisterCt
      /\ HasType(Kid(1)) /\ Emit(IF TagOf(Kid(1)) \in Byte1 \cup Byte2 THEN <<>> ELSE <<Bad("ARG")>>)
      /\ Continue(<<Visit(Kid(1)), Task("pass", Current, 0)>>)
  BY DEF VisitUnary
<1>2. /\ Current \in DOMAIN ast /\ ast[Current].kind = "UNARY"
      /\ phase = "generating" /\ todo # <<>> /\ currentRegisterCt \in Int
  BY <1>1, VisitedNode
<1>3. Head(todo).node = Current /\ Head(todo).step = "code"
  BY <1>1, CodeKind
<1>4. Kid(1) \in Ref(ast)
  BY <1>2, Operands DEF Kid
<1>5. PICK new : Goes(new) /\ Then2(new, Kid(1), "pass", Current, 0)
  BY <1>1, <1>2, <1>3, <1>4, TwoThen
<1>6. Head(todo) = todo[1]
  BY <1>5, GoesOn
<1>7. ASSUME NEW w, NEW p, NEW q, NEW j, Along(w, p, q, j) PROVE Ready(w, (Len(new) + p) - 1)'
  <2> DEFINE us == todo'
             c == currentRegisterCt
             n == todo[p].node
  <2>1. /\ World(w) /\ p \in DOMAIN todo /\ Passing(w, ast, todo[p])
        /\ p \in Nat /\ p >= 2 /\ q \in Nat /\ 1 <= q /\ q <= p /\ j \in Nat
        /\ DOMAIN ast[n].kids = 1..Len(ast[n].kids)
        /\ Stage(w, ast, todo, c, p, q, j)
        /\ StraightLine /\ Lives(w, Ran(text).mem) =>
             Got(w, ast, todo, c, Ran(text).regs, p, q, j)
    BY <1>7 DEF Along
  <2>2. 1 < q /\ q < 3 /\ j \in 1..Len(ast[n].kids) /\ todo[1].node = ast[n].kids[j]
    <3>1. ~w.sum[todo[1].node]
      BY <1>2, <1>3, <1>6, <2>1 DEF World, Shaped
    <3> QED
      BY <1>3, <1>6, <1>7, <3>1, AlongHead, SumHead
  <2>3. /\ us[1].step = "code" /\ us[1].node = Kid(1) /\ us[2].step = "pass" /\ us[2].node = todo[1].node
        /\ \A i \in 2..p : us[i + 1] = todo[i]
        /\ (Len(new) + p) - 1 = p + 1
    BY <1>3, <1>5, <1>6, <2>1, ShiftedTwo
  <2>4. Kid(1) = Arg(ast, n, j)
    BY <1>3, <1>6, <2>2 DEF Arg, Kid
  <2>5. Kid(1) \in w.typed /\ w.sum[Kid(1)] /\ (j # 1 => w.span[Kid(1)] <= 2)
    BY <2>1, <2>2, <2>4 DEF Passing
  <2>6. text' = text
    <3>1. TagOf(Kid(1)) \in Byte1 \cup Byte2
      BY <2>1, <2>5 DEF World
    <3> QED
      BY <1>1, <3>1, EmptyEmitted
  <2>7. us[p + 1] = todo[p]
    BY <2>1, <2>3
  <2>8. j # 1 => c + w.span[us[1].node] <= c + 2
    <3>1. w.span[Kid(1)] \in Int
      BY <1>4, <2>1, <2>5 DEF World
    <3> QED
      BY <1>2, <2>3, <2>5, <3>1
  <2> HIDE DEF us, c
  <2>9. Stage(w, ast, us, c, p + 1, q + 1, j)
    BY <1>3, <1>6, <2>1, <2>2, <2>3, <2>8, OperandBegins
  <2> DEFINE r == q + 1
             k == p + 1
  <2>10. r \in 1..k /\ r > 2 /\ q > 1 /\ r \in Nat /\ (Len(new) + p) - 1 = k /\ us[k] = todo[p]
    BY <2>1, <2>2, <2>3, <2>7
  <2> HIDE DEF r, k
  <2>11. ASSUME StraightLine', Lives(w, Ran(text').mem)
         PROVE  Got(w, ast, us, c, Ran(text').regs, k, r, j)
    <3>1. StraightLine /\ Ran(text') = Ran(text)
      BY <2>6, <2>11 DEF StraightLine
    <3>2. Got(w, ast, todo, c, Ran(text).regs, p, q, j)
      BY <2>1, <2>11, <3>1
    <3>3. Got(w, ast, us, c, Ran(text).regs, k, r, j)
      BY <2>1, <2>10, <3>2, GotStill
    <3> QED
      BY <3>1, <3>3
  <2>12. Ready(w, k)'
    <3>1. Stage(w, ast, us, c, k, r, j) /\ currentRegisterCt' = c
      BY <1>1, <2>9 DEF r, k, c
    <3> QED
      BY <1>1, <2>1, <2>10, <2>11, <3>1, ReadyNext DEF us
  <2> QED
    BY <2>10, <2>12
<1>8. todo[1].node \in DOMAIN ast /\ ast[todo[1].node].kind # "CALL"
  BY <1>2, <1>3, <1>6
<1>9. \A w, p, q, j : Along(w, p, q, j) => Ready(w, (Len(new) + p) - 1)'
  BY <1>7
<1> QED
  BY <1>5, <1>8, <1>9, AlongStep

LEMMA GoesBack ==
  ASSUME WalkInv, Goes(<<>>)
  PROVE  \E new : Goes(new) /\ Len(new) = 0
<1> DEFINE new == <<>>
<1>1. Goes(new) /\ Len(new) = 0
  OBVIOUS
<1> HIDE DEF new
<1> QED
  BY <1>1

LEMMA ShiftedBack ==
  ASSUME WalkInv, NEW new, Goes(new), Len(new) = 0, NEW p \in DOMAIN todo
  PROVE  /\ \A i \in 2..p : todo'[i - 1] = todo[i]
         /\ (Len(new) + p) - 1 = p - 1
<1>1. \A i \in 2..p : todo'[(Len(new) + i) - 1] = todo[i]
  BY Shifted
<1>2. DOMAIN todo = 1..Len(todo) /\ Len(todo) \in Nat
  BY GoesOn
<1>3. p \in Nat
  BY <1>2
<1>4. \A i \in 2..p : (Len(new) + i) - 1 = i - 1
  OBVIOUS
<1>5. (Len(new) + p) - 1 = p - 1
  BY <1>3
<1> QED
  BY <1>1, <1>4, <1>5

\* The operand of a visit that goes on now is under the cursor.
LEMMA UnderCursor ==
  ASSUME HeldInv, StraightLine, NEW w, World(w), Lives(w, Ran(text).mem), 1 \in DOMAIN todo,
         Expects(w.sum, ast, todo[1])
  PROVE  Recorded(register, Ran(text).regs, Operand(ast, todo[1]), currentRegisterCt, w.f[Operand(ast, todo[1])])
<1>1. Shaped(w.sum, w.vars) /\ Means(Ran(text).mem, w.f)
  BY DEF World, Lives
<1>2. Held(w.f, ast, todo, currentRegisterCt, register, Ran(text).regs, 1)
  BY <1>1 DEF HeldInv
<1> QED
  BY <1>2 DEF Held

LEMMA MovesKeepMemory ==
  ASSUME NEW m, IsMachine(m), NEW i, i[1] \in {"mov", "movw", "bad"}
  PROVE  Execute(m, i).mem = m.mem
<1>1. CASE i[1] = "mov"
  <2> DEFINE val == m.regs[i[3]]
  <2>1. Execute(m, i) = [m EXCEPT !.regs[i[2]] = val]
    BY <1>1 DEF Execute
  <2> HIDE DEF val
  <2>2. Execute(m, i) = WithRegs(m, Put(m, i[2], val))
    BY <2>1, OneRegister
  <2> QED
    BY <2>2 DEF WithRegs
<1>2. CASE i[1] = "movw"
  <2> DEFINE low == m.regs[i[3]]
             high == m.regs[i[3] + 1]
             n == WithRegs(m, Put(m, i[2], low))
  <2>1. Execute(m, i) = [m EXCEPT !.regs[i[2]] = low, !.regs[i[2] + 1] = high]
    BY <1>2 DEF Execute
  <2> HIDE DEF low, high
  <2>2. [m EXCEPT !.regs[i[2]] = low] = n
    BY OneRegister
  <2>3. [m EXCEPT !.regs[i[2]] = low, !.regs[i[2] + 1] = high] = [n EXCEPT !.regs[i[2] + 1] = high]
    BY <2>2
  <2>4. IsMachine(n) /\ n.mem = m.mem
    <3>1. n.mem = m.mem
      BY DEF WithRegs
    <3> QED
      BY <3>1, PutMachine
  <2> HIDE DEF n
  <2>5. Execute(m, i) = WithRegs(n, Put(n, i[2] + 1, high))
    BY <2>1, <2>3, <2>4, OneRegister
  <2> QED
    BY <2>4, <2>5 DEF WithRegs
<1>3. CASE i[1] = "bad"
  BY <1>3 DEF Execute
<1> QED
  BY <1>1, <1>2, <1>3

\* At most one instruction, that moves a register.
LEMMA PassEmits ==
  ASSUME Pass, IsText(text)
  PROVE  /\ StraightLine' => StraightLine
         /\ Ran(text').mem = Ran(text).mem
         /\ RegisterOf(Kid(1)) = currentRegisterCt /\ TagOf(Kid(1)) \in Byte1 \cup Byte2 => Emit(<<>>)
<1> DEFINE c == currentRegisterCt
           from == RegisterOf(Kid(1))
           tag == TagOf(Kid(1))
           a == <<"mov", c, from>>
           b == <<"movw", c, from>>
           d == Bad("ARG")
<1>1. Emit(IF tag \in Byte1 \cup Byte2 \cup {"STRING"} /\ c = from THEN <<>> ELSE
           CASE tag \in Byte1 -> <<a>>
             [] tag \in Byte2 \cup {"STRING"} -> <<b>>
             [] OTHER -> <<d>>)
  BY DEF Pass
<1>2. Byte1 \cap Byte2 = {} /\ "STRING" \notin Byte1
  BY DEF Byte1, Byte2
<1> HIDE DEF c, from, tag, a, b, d
<1>3. CASE tag \in Byte1 \cup Byte2 \cup {"STRING"} /\ c = from
  <2>1. Emit(<<>>)
    BY <1>1, <1>3
  <2>2. text' = text
    BY <2>1, EmptyEmitted
  <2>3. StraightLine' => StraightLine
    BY <2>2 DEF StraightLine
  <2> QED
    BY <2>1, <2>2, <2>3 DEF c, from, tag
<1>4. ASSUME NEW i, i[1] \in {"mov", "movw", "bad"}, Emit(<<i>>)
      PROVE  (StraightLine' => StraightLine) /\ Ran(text').mem = Ran(text).mem
  <2>1. IsText(<<i>>)
    BY OneLine
  <2>2. StraightLine' => StraightLine
    BY <1>4, <2>1, EmittedStraight
  <2>3. Ran(text') = Execute(Ran(text), i)
    BY <1>4, RanOne DEF Emit
  <2> QED
    BY <1>4, <2>2, <2>3, RanMachine, MovesKeepMemory
<1>5. CASE ~(tag \in Byte1 \cup Byte2 \cup {"STRING"} /\ c = from)
  <2>1. Emit(<<a>>) \/ Emit(<<b>>) \/ Emit(<<d>>)
    BY <1>1, <1>2, <1>5
  <2>2. a[1] \in {"mov", "movw", "bad"} /\ b[1] \in {"mov", "movw", "bad"} /\ d[1] \in {"mov", "movw", "bad"}
    BY DEF a, b, d, Bad
  <2>3. ~(from = c /\ tag \in Byte1 \cup Byte2)
    BY <1>5
  <2> QED
    BY <1>4, <2>1, <2>2, <2>3 DEF c, from, tag
<1> QED
  BY <1>3, <1>5

LEMMA PassArgs ==
  ASSUME TypeInv, GrammarInv, WalkInv, KindInv, PlaceInv, HeldInv, ArgsInv, IsText(text), Pass
  PROVE  ArgsInv'
<1>1. Doing("pass") /\ Stays /\ currentRegisterCt' = currentRegisterCt /\ Continue(<<>>)
  BY DEF Pass
<1>2. PICK new : Goes(new) /\ Len(new) = 0
  BY OtherReturnersGo, GoesBack DEF OtherReturners
<1>3. Head(todo) = todo[1] /\ Current = todo[1].node /\ todo[1].step = "pass" /\ 1 \in DOMAIN todo
  BY <1>1, <1>2, GoesOn, CutVisit
<1>4. ASSUME NEW w, NEW p, NEW q, NEW j, Along(w, p, q, j) PROVE Ready(w, (Len(new) + p) - 1)'
  <2> DEFINE us == todo'
             c == currentRegisterCt
             n == todo[p].node
             e == Arg(ast, n, j)
  <2>1. /\ World(w) /\ p \in DOMAIN todo /\ Passing(w, ast, todo[p])
        /\ p \in Nat /\ p >= 2 /\ q \in Nat /\ 1 <= q /\ q <= p /\ j \in Nat
        /\ DOMAIN ast[n].kids = 1..Len(ast[n].kids)
        /\ Stage(w, ast, todo, c, p, q, j)
        /\ StraightLine /\ Lives(w, Ran(text).mem) =>
             Got(w, ast, todo, c, Ran(text).regs, p, q, j)
    BY <1>4 DEF Along
  <2>2. 1 < q /\ q < 3 /\ j \in 1..Len(ast[n].kids) /\ todo[1].node = ast[n].kids[j]
    BY <1>3, <1>4, AlongHead, SumHead
  <2>3. (\A i \in 2..p : us[i - 1] = todo[i]) /\ (Len(new) + p) - 1 = p - 1
    BY <1>2, <2>1, ShiftedBack
  <2>4. us[p - 1] = todo[p]
    BY <2>1, <2>3
  <2>5. Operand(ast, todo[1]) = e /\ Kid(1) = e
    BY <1>3, <2>2 DEF Operand, Arg, Kid
  <2>6. e \in w.typed /\ w.sum[e]
    BY <2>1, <2>2 DEF Passing
  <2>7. TagOf(e) \in Byte1 \cup Byte2
    BY <2>1, <2>6 DEF World
  <2>8. Expects(w.sum, ast, todo[1])
    BY <1>3, <2>5, <2>6 DEF Expects, Holding
  <2>9. c = w.at[n][j]
    <3>1. q = 2
      BY <2>1, <2>2
    <3>2. q # 1 /\ q - 1 = 1
      BY <3>1
    <3>3. Underway(w, ast, todo, c, p, q, j)
      BY <1>3, <2>1, <3>2 DEF Stage, Over, Begun
    <3>4. Back(todo, c, q - 1) = w.at[n][j]
      BY <3>3 DEF Underway
    <3> HIDE DEF c
    <3> QED
      BY <3>2, <3>4 DEF Back
  <2> HIDE DEF us
  <2>10. Stage(w, ast, us, c, p - 1, q - 1, j)
    BY <1>3, <2>1, <2>2, <2>3, ArgumentPassed
  <2> DEFINE r == q - 1
             k == p - 1
  <2>11. r \in 1..k /\ r < 2 /\ 1 <= r /\ r \in Nat /\ (Len(new) + p) - 1 = k /\ us[k] = todo[p]
    BY <2>1, <2>2, <2>3, <2>4
  <2> HIDE DEF r, k
  <2>12. ASSUME StraightLine', Lives(w, Ran(text').mem)
         PROVE  Got(w, ast, us, c, Ran(text').regs, k, r, j)
    <3>1. StraightLine /\ Lives(w, Ran(text).mem)
      BY <2>12, PassEmits
    <3>3. Recorded(register, Ran(text).regs, e, c, w.f[e])
      BY <1>3, <2>1, <2>5, <2>8, <3>1, UnderCursor
    <3>4. text' = text
      <4>1. RegisterOf(Kid(1)) = c
        BY <2>5, <3>3 DEF Recorded, RegisterOf
      <4> QED
        BY <2>5, <2>7, <4>1, PassEmits, EmptyEmitted
    <3>5. Got(w, ast, todo, c, Ran(text).regs, p, q, j)
      BY <2>1, <3>1
    <3>6. Arrived(w, ast, n, Ran(text).regs, j)
      <4>1. e \in w.wide => Ran(text).regs[c + 1] = w.h[e]
        <5>1. q = 2
          BY <2>1, <2>2
        <5> QED
          BY <1>3, <3>5, <5>1 DEF Got
      <4> QED
        BY <2>9, <3>3, <4>1 DEF Arrived, Recorded
    <3>7. Got(w, ast, us, c, Ran(text).regs, k, r, j)
      BY <2>1, <2>2, <2>11, <3>5, <3>6, GotPassed
    <3> QED
      BY <3>4, <3>7
  <2>13. Ready(w, k)'
    <3>1. Stage(w, ast, us, c, k, r, j) /\ currentRegisterCt' = c
      BY <1>1, <2>10 DEF r, k
    <3> QED
      BY <1>1, <2>1, <2>11, <2>12, <3>1, ReadyNext DEF us
  <2> QED
    BY <2>11, <2>13
<1>5. \A w, p, q, j : Along(w, p, q, j) => Ready(w, (Len(new) + p) - 1)'
  BY <1>4
<1>6. todo[1].step # "code"
  BY <1>3
<1> QED
  BY <1>2, <1>5, <1>6, AlongStep

\* The visit is of a part of an argument, if it is of a leaf or an operation.
LEMMA InsideArgument ==
  ASSUME WalkInv, PlaceInv, NEW w, NEW p, NEW q, NEW j, Along(w, p, q, j),
         todo[1].step \in {"code", "right", "combine"},
         todo[1].node \in DOMAIN ast => ast[todo[1].node].kind # "UNARY"
  PROVE  q > 2 /\ j \in 1..Len(ast[todo[p].node].kids) /\ InSum(w, p, q, j)
<1>1. Laid(w, todo[p].node) /\ DOMAIN ast[todo[p].node].kids = 1..Len(ast[todo[p].node].kids)
  BY DEF Along
<1>2. \A i \in 1..Len(ast[todo[p].node].kids) :
        ast[todo[p].node].kids[i] \in DOMAIN ast /\ ast[ast[todo[p].node].kids[i]].kind = "UNARY"
  BY <1>1 DEF Laid
<1> QED
  BY <1>2, AlongHead

\* What the operation at hand leads to is under the same limit.
StaysUnder ==
  \A w, lim : World(w) /\ lim \in Int /\ w.sum[Current] /\ Under(w, ast, todo[1], currentRegisterCt, lim) =>
    /\ Under(w, ast, todo'[1], currentRegisterCt', lim)
    /\ Under(w, ast, todo'[2], currentRegisterCt', lim)

LEMMA CallerArgs ==
  ASSUME TypeInv, GrammarInv, WalkInv, KindInv, PlaceInv, ArgsInv, NEW new, Goes(new),
         NEW e, NEW step \in {"right", "combine"}, NEW saved, Then2(new, e, step, Current, saved),
         saved = Back(todo, currentRegisterCt, 2), text' = text,
         Current \in DOMAIN ast, ast[Current].kind = "BINARY", todo[1].step \in {"code", "right"}, StaysUnder
  PROVE  ArgsInv'
<1>1. Head(todo) = todo[1] /\ Current = todo[1].node /\ Stays
  BY GoesOn DEF Current
<1>2. ASSUME NEW w, NEW p, NEW q, NEW j, Along(w, p, q, j) PROVE Ready(w, (Len(new) + p) - 1)'
  <2> DEFINE us == todo'
             c == currentRegisterCt
             d == currentRegisterCt'
             n == todo[p].node
             lim == w.at[n][j] + 2
  <2>1. /\ World(w) /\ p \in DOMAIN todo
        /\ p \in Nat /\ p >= 2 /\ q \in Nat /\ 1 <= q /\ q <= p /\ j \in Nat
        /\ Laid(w, n)
        /\ Stage(w, ast, todo, c, p, q, j)
        /\ StraightLine /\ Lives(w, Ran(text).mem) =>
             Got(w, ast, todo, c, Ran(text).regs, p, q, j)
    BY <1>2 DEF Along
  <2>2. q > 2 /\ j \in 1..Len(ast[n].kids) /\ InSum(w, p, q, j)
    BY <1>1, <1>2, InsideArgument
  <2>3. /\ us[2].step = step /\ us[2].saved = saved
        /\ \A i \in 2..p : us[i + 1] = todo[i]
        /\ (Len(new) + p) - 1 = p + 1
    BY <2>1, ShiftedTwo
  <2>4. us[p + 1] = todo[p]
    BY <2>1, <2>3
  <2>5. w.sum[Current] /\ \A i \in 2..(q - 2) : todo[i].step # "code"
    BY <1>1, <2>2, SumHead DEF InSum
  <2>6. lim \in Int
    <3>1. w.at[n][j] \in Int
      <4>1. j \in 0..Len(ast[n].kids)
        BY <2>1 DEF Stage, Waits
      <4> QED
        BY <2>1, <4>1 DEF Laid
    <3> QED
      BY <3>1
  <2>7. ASSUME j # 1 PROVE Under(w, ast, us[1], d, lim) /\ Under(w, ast, us[2], d, lim)
    <3>1. Underway(w, ast, todo, c, p, q, j)
      BY <2>1, <2>2 DEF Stage, Over, Begun
    <3>2. 1 \in 1..(q - 2)
      BY <2>1, <2>2
    <3>3. Under(w, ast, todo[1], c, lim)
      BY <2>7, <3>1, <3>2 DEF Underway
    <3> HIDE DEF lim
    <3> QED
      BY <2>1, <2>5, <2>6, <3>3 DEF StaysUnder
  <2>8. us[2].step \in {"right", "combine"} /\ us[2].saved = Back(todo, c, 2)
    BY <2>3
  <2> HIDE DEF us, c, d
  <2>9. Stage(w, ast, us, d, p + 1, q + 1, j)
    BY <2>1, <2>2, <2>3, <2>5, <2>7, <2>8, UnderwayCalls
  <2> DEFINE r == q + 1
             k == p + 1
  <2>10. r \in 1..k /\ r > 2 /\ q > 1 /\ r \in Nat /\ (Len(new) + p) - 1 = k /\ us[k] = todo[p]
    BY <2>1, <2>2, <2>3, <2>4
  <2> HIDE DEF r, k
  <2>11. ASSUME StraightLine', Lives(w, Ran(text').mem)
         PROVE  Got(w, ast, us, d, Ran(text').regs, k, r, j)
    <3>1. StraightLine /\ Ran(text') = Ran(text)
      BY <2>11 DEF StraightLine
    <3>2. Got(w, ast, todo, c, Ran(text).regs, p, q, j)
      BY <2>1, <2>11, <3>1
    <3>3. Got(w, ast, us, d, Ran(text).regs, k, r, j)
      BY <2>1, <2>10, <3>2, GotStill
    <3> QED
      BY <3>1, <3>3
  <2>12. Ready(w, k)'
    <3>1. Stage(w, ast, us, d, k, r, j)
      BY <2>9 DEF r, k
    <3> QED
      BY <1>1, <2>1, <2>10, <2>11, <3>1, ReadyNext DEF us, d
  <2> QED
    BY <2>10, <2>12
<1>3. todo[1].node \in DOMAIN ast /\ ast[todo[1].node].kind # "CALL"
  BY <1>1
<1>4. \A w, p, q, j : Along(w, p, q, j) => Ready(w, (Len(new) + p) - 1)'
  BY <1>2
<1> QED
  BY <1>3, <1>4, AlongStep

\* What World says of the operation at hand.
LEMMA SpanOfOperation ==
  ASSUME TypeInv, GrammarInv, Current \in DOMAIN ast, ast[Current].kind = "BINARY", NEW w, World(w), w.sum[Current]
  PROVE  /\ Kid(1) \in Ref(ast) /\ Kid(2) \in Ref(ast) /\ Current \in Ref(ast)
         /\ Kid(1) = ast[Current].kids[1] /\ Kid(2) = ast[Current].kids[2]
         /\ w.sum[Kid(1)] /\ w.sum[Kid(2)]
         /\ w.span[Current] \in Int /\ w.span[Kid(1)] \in Int /\ w.span[Kid(2)] \in Int
         /\ w.size[Kid(1)] = SizeOf(Kid(1)) /\ SizeOf(Kid(1)) \in Int
         /\ w.span[Current] >= 1 /\ w.span[Current] >= w.span[Kid(1)]
         /\ w.span[Current] >= w.size[Kid(1)] + w.span[Kid(2)]
<1>1. /\ Kid(1) \in Ref(ast) /\ Kid(2) \in Ref(ast) /\ Kid(1) = ast[Current].kids[1] /\ Kid(2) = ast[Current].kids[2]
  BY Operands DEF Kid
<1>2. Current \in Ref(ast)
  BY DEF Ref
<1>3. Shaped(w.sum, w.vars)
  BY DEF World
<1>4. w.sum[Kid(1)] /\ w.sum[Kid(2)]
  BY <1>1, <1>3 DEF Shaped
<1>5. w.span[Current] \in Int /\ w.span[Kid(1)] \in Int /\ w.span[Kid(2)] \in Int
  BY <1>1, <1>2, <1>4 DEF World
<1>6. w.size[Kid(1)] = SizeOf(Kid(1)) /\ SizeOf(Kid(1)) \in Int
  <2>1. SizeOf(Kid(1)) \in -1..4
    BY <1>1, Sizes
  <2>2. SizeOf(Kid(1)) \in Int
    BY <2>1
  <2> QED
    BY <1>1, <2>2 DEF World
<1>7. /\ w.span[Current] >= 1 /\ w.span[Current] >= w.span[ast[Current].kids[1]]
      /\ w.span[Current] >= w.size[ast[Current].kids[1]] + w.span[ast[Current].kids[2]]
  BY DEF World
<1> QED
  BY <1>1, <1>2, <1>4, <1>5, <1>6, <1>7

LEMMA VisitBinaryArgs ==
  ASSUME TypeInv, GrammarInv, WalkInv, KindInv, PlaceInv, ArgsInv, VisitBinary
  PROVE  ArgsInv'
<1> DEFINE c == currentRegisterCt
<1>1. /\ DoingKind("code", {"BINARY"}) /\ Continue(<<Visit(Kid(1)), Task("right", Current, c)>>) /\ Stays
      /\ currentRegisterCt' = c /\ text' = text
  BY DEF VisitBinary
<1>2. /\ Current \in DOMAIN ast /\ ast[Current].kind = "BINARY"
      /\ phase = "generating" /\ todo # <<>> /\ c \in Int
  BY <1>1, VisitedNode
<1>3. Kid(1) \in Ref(ast)
  BY <1>2, Operands DEF Kid
<1>4. Head(todo).node = Current /\ Head(todo).step = "code"
  BY <1>1 DEF DoingKind, Doing, Current
<1>5. PICK new : Goes(new) /\ Then2(new, Kid(1), "right", Current, c)
  BY <1>1, <1>2, <1>3, <1>4, TwoThen
<1>6. todo[1] = Head(todo) /\ 1 \in DOMAIN todo
  BY <1>5, GoesOn
<1>7. c = Back(todo, c, 2)
  <2>1. 2 - 1 = 1
    OBVIOUS
  <2> QED
    BY <1>4, <1>6, <2>1 DEF Back
<1>8. StaysUnder
  <2>1. ASSUME NEW w, NEW lim, World(w), lim \in Int, w.sum[Current], Under(w, ast, todo[1], c, lim)
        PROVE  Under(w, ast, todo'[1], c, lim) /\ Under(w, ast, todo'[2], c, lim)
    <3> DEFINE n == Current
               l == ast[n].kids[1]
               r == ast[n].kids[2]
    <3>1. /\ Kid(1) = l /\ Kid(2) = r
          /\ w.span[n] \in Int /\ w.span[l] \in Int /\ w.span[r] \in Int /\ w.size[l] \in Int
          /\ w.span[n] >= 1 /\ w.span[n] >= w.span[l] /\ w.span[n] >= w.size[l] + w.span[r]
      BY <1>2, <2>1, SpanOfOperation
    <3>2. /\ todo'[1].step = "code" /\ todo'[1].node = l
          /\ todo'[2].step = "right" /\ todo'[2].node = n /\ todo'[2].saved = c
      BY <1>5, <1>6, <3>1, ShiftedTwo
    <3>3. c + w.span[n] <= lim
      BY <1>4, <1>6, <2>1 DEF Under
    <3>4. c + w.span[l] <= lim /\ c < lim /\ (c + w.size[l]) + w.span[r] <= lim
      <4> DEFINE a == w.span[n]
                 b == w.span[l]
                 d == w.span[r]
                 f == w.size[l]
      <4>1. a \in Int /\ b \in Int /\ d \in Int /\ f \in Int /\ a >= 1 /\ a >= b /\ a >= f + d /\ c + a <= lim
        BY <3>1, <3>3
      <4> HIDE DEF a, b, d, f
      <4>2. c + b <= lim /\ c < lim /\ (c + f) + d <= lim
        BY <1>2, <2>1, <4>1
      <4> QED
        BY <4>2 DEF a, b, d, f
    <3>5. Under(w, ast, todo'[1], c, lim)
      BY <3>2, <3>4 DEF Under
    <3>6. Under(w, ast, todo'[2], c, lim)
      BY <3>2, <3>4 DEF Under
    <3> QED
      BY <3>5, <3>6
  <2> QED
    BY <1>1, <2>1 DEF StaysUnder
<1> HIDE DEF c
<1>9. c = Back(todo, currentRegisterCt, 2)
  BY <1>7 DEF c
<1>10. ASSUME NEW step, step = "right" PROVE step \in {"right", "combine"} /\ Then2(new, Kid(1), step, Current, c)
  BY <1>5, <1>10
<1> QED
  BY <1>1, <1>2, <1>4, <1>5, <1>6, <1>8, <1>9, <1>10, CallerArgs

LEMMA BinaryRightArgs ==
  ASSUME TypeInv, GrammarInv, WalkInv, KindInv, PlaceInv, ArgsInv, BinaryRight
  PROVE  ArgsInv'
<1> DEFINE c == currentRegisterCt
<1>1. /\ Doing("right") /\ Continue(<<Visit(Kid(2)), Task("combine", Current, Saved)>>) /\ Stays
      /\ currentRegisterCt' = c + SizeOf(Kid(1)) /\ text' = text
  BY DEF BinaryRight, MoveTo
<1>2. /\ phase = "generating" /\ todo # <<>> /\ Head(todo).step = "right"
      /\ Suits(ast, Head(todo)) /\ Current = Head(todo).node
      /\ Current \in Ref(ast) /\ Saved \in Int /\ c \in Int /\ Saved = Head(todo).saved
  BY <1>1, CutVisit
<1>3. Current \in DOMAIN ast /\ ast[Current].kind = "BINARY"
  BY <1>2 DEF Suits
<1>4. Kid(2) \in Ref(ast)
  BY <1>3, Operands DEF Kid
<1>5. PICK new : Goes(new) /\ Then2(new, Kid(2), "combine", Current, Saved)
  BY <1>1, <1>2, <1>3, <1>4, TwoThen
<1>6. todo[1] = Head(todo) /\ 1 \in DOMAIN todo /\ 2 - 1 = 1
  BY <1>5, GoesOn
<1>7. Saved = Back(todo, currentRegisterCt, 2)
  BY <1>2, <1>6 DEF Back
<1>8. StaysUnder
  <2>1. ASSUME NEW w, NEW lim, World(w), lim \in Int, w.sum[Current], Under(w, ast, todo[1], c, lim)
        PROVE  Under(w, ast, todo'[1], currentRegisterCt', lim) /\ Under(w, ast, todo'[2], currentRegisterCt', lim)
    <3> DEFINE n == Current
               l == ast[n].kids[1]
               r == ast[n].kids[2]
    <3>1. /\ Kid(1) = l /\ Kid(2) = r /\ w.size[l] = SizeOf(l)
          /\ w.span[r] \in Int /\ w.size[l] \in Int
      BY <1>3, <2>1, SpanOfOperation
    <3>2. /\ todo'[1].step = "code" /\ todo'[1].node = r
          /\ todo'[2].step = "combine" /\ todo'[2].node = n /\ todo'[2].saved = Saved
      BY <1>5, <1>6, <3>1, ShiftedTwo
    <3>3. c = Saved
      <4>1. Expects(w.sum, ast, todo[1])
        BY <1>2, <1>6, <2>1 DEF Expects, Holding
      <4>2. Placed(w.sum, w.vars, ast, todo, c, 1)
        BY <1>6, <2>1, <4>1 DEF PlaceInv, World
      <4>3. Back(todo, c, 1) = Saved
        BY <1>2, <1>6, <4>2 DEF Placed
      <4> QED
        BY <4>3 DEF Back
    <3>4. Saved < lim /\ (Saved + w.size[l]) + w.span[r] <= lim
      BY <1>2, <1>6, <2>1 DEF Under
    <3>5. currentRegisterCt' + w.span[r] <= lim
      <4>1. currentRegisterCt' = Saved + w.size[l]
        BY <1>1, <3>1, <3>3
      <4> QED
        BY <3>4, <4>1
    <3>6. Under(w, ast, todo'[1], currentRegisterCt', lim)
      BY <3>2, <3>5 DEF Under
    <3>7. Under(w, ast, todo'[2], currentRegisterCt', lim)
      BY <3>2, <3>4 DEF Under
    <3> QED
      BY <3>6, <3>7
  <2> QED
    BY <2>1 DEF StaysUnder
<1>9. ASSUME NEW step, step = "combine" PROVE step \in {"right", "combine"} /\ Then2(new, Kid(2), step, Current, Saved)
  BY <1>5, <1>9
<1> QED
  BY <1>1, <1>2, <1>3, <1>5, <1>6, <1>7, <1>8, <1>9, CallerArgs

\* What the visit at hand leaves when it returns, if it is of a part of an argument.
Leaves ==
  StraightLine' =>
    /\ StraightLine
    /\ \A w : World(w) /\ w.sum[todo[1].node] /\ Lives(w, Ran(text').mem) =>
         /\ Ran(text').mem = Ran(text).mem
         /\ \A lim \in Int : Under(w, ast, todo[1], currentRegisterCt, lim) =>
              Confined(Ran(text), Ran(text'), lim)
         /\ todo[1].node \in w.wide => Ran(text').regs[currentRegisterCt' + 1] = w.h[todo[1].node]

\* The arguments that were computed are not disturbed by a part of the next one.
LEMMA ArrivedStays ==
  ASSUME NEW w, NEW n, Laid(w, n), Len(ast[n].kids) \in Nat, NEW j, j \in 1..Len(ast[n].kids),
         NEW i, i \in 1..(j - 1), NEW m, NEW mm, Confined(m, mm, w.at[n][j] + 2),
         Arrived(w, ast, n, m.regs, i)
  PROVE  Arrived(w, ast, n, mm.regs, i)
<1> DEFINE len == Len(ast[n].kids)
<1>1. len <= 2
  BY DEF Laid
<1>2. len = 2 /\ j = 2 /\ i = 1
  <2>1. len \in Nat /\ j \in 1..len /\ i \in 1..(j - 1)
    OBVIOUS
  <2> HIDE DEF len
  <2> QED
    BY <1>1, <2>1
<1>3. w.at[n][1] = w.at[n][2] + 2
  BY <1>2 DEF Laid
<1>4. w.at[n][i] = w.at[n][j] + 2
  BY <1>2, <1>3
<1> DEFINE r == w.at[n][i]
<1>5. r \in 0..31 /\ m.regs[r] = w.f[Arg(ast, n, i)]
      /\ (Arg(ast, n, i) \in w.wide => m.regs[r + 1] = w.h[Arg(ast, n, i)])
  BY DEF Arrived
<1>6. Confined(m, mm, r)
  BY <1>4
<1> HIDE DEF r
<1>7. r \in 0..35 /\ r + 1 \in 0..35 /\ r >= r /\ r + 1 >= r
  BY <1>5
<1>8. mm.regs[r] = m.regs[r] /\ mm.regs[r + 1] = m.regs[r + 1]
  BY <1>6, <1>7 DEF Confined
<1>9. r = w.at[n][i]
  BY DEF r
<1> QED
  BY <1>5, <1>8, <1>9 DEF Arrived

\* The visit at hand leaves what waits, and the second byte of a wide argument it ends.
Spares(w, n, j, q, d, m, mm) ==
  /\ j # 1 => Confined(m, mm, w.at[n][j] + 2)
  /\ q < 4 /\ Arg(ast, n, j) \in w.wide => mm.regs[d + 1] = w.h[Arg(ast, n, j)]

LEMMA GotReturns ==
  ASSUME NEW w, NEW ts, NEW us, NEW c, NEW d, NEW m, NEW mm, NEW p, NEW k, NEW j,
         Laid(w, ts[p].node), Len(ast[ts[p].node].kids) \in Nat, j \in 1..Len(ast[ts[p].node].kids),
         NEW q \in Nat, NEW r \in Nat, q > 2, r > 1, r < 3 => q < 4,
         us[k].node = ts[p].node, Spares(w, ts[p].node, j, q, d, m, mm),
         Got(w, ast, ts, c, m.regs, p, q, j)
  PROVE  Got(w, ast, us, d, mm.regs, k, r, j)
<1> DEFINE n == ts[p].node
<1>1. q # 1 /\ r # 1 /\ (r = 2 => q < 4)
  OBVIOUS
<1>2. \A i \in 1..(j - 1) : Arrived(w, ast, n, m.regs, i)
  BY <1>1 DEF Got
<1>3. \A i \in 1..(j - 1) : Arrived(w, ast, n, mm.regs, i)
  <2>0. /\ Laid(w, n) /\ Len(ast[n].kids) \in Nat /\ j \in 1..Len(ast[n].kids)
        /\ j # 1 => Confined(m, mm, w.at[n][j] + 2)
    BY DEF Spares
  <2> HIDE DEF n
  <2>1. CASE j = 1
    BY <2>1
  <2>2. CASE j # 1
    BY <1>2, <2>0, <2>2, ArrivedStays
  <2> QED
    BY <2>1, <2>2
<1> QED
  BY <1>1, <1>3 DEF Got, Spares

LEMMA ReturnArgs ==
  ASSUME TypeInv, GrammarInv, WalkInv, KindInv, PlaceInv, ArgsInv, NEW new, Goes(new), Len(new) = 0,
         currentRegisterCt' = Back(todo, currentRegisterCt, 2), todo[1].step \in {"code", "combine"},
         todo[1].node \in DOMAIN ast => ast[todo[1].node].kind \notin {"UNARY", "CALL"}, Leaves
  PROVE  ArgsInv'
<1>1. Stays
  BY GoesOn
<1>2. ASSUME NEW w, NEW p, NEW q, NEW j, Along(w, p, q, j) PROVE Ready(w, (Len(new) + p) - 1)'
  <2> DEFINE us == todo'
             c == currentRegisterCt
             d == currentRegisterCt'
             n == todo[p].node
             e == Arg(ast, n, j)
             len == Len(ast[n].kids)
             lim == w.at[n][j] + 2
  <2>1. /\ World(w) /\ p \in DOMAIN todo
        /\ p \in Nat /\ p >= 2 /\ q \in Nat /\ 1 <= q /\ q <= p /\ j \in Nat
        /\ Laid(w, n) /\ len \in Nat
        /\ Stage(w, ast, todo, c, p, q, j)
        /\ StraightLine /\ Lives(w, Ran(text).mem) =>
             Got(w, ast, todo, c, Ran(text).regs, p, q, j)
    BY <1>2 DEF Along
  <2>2. q > 2 /\ j \in 1..len /\ InSum(w, p, q, j)
    BY <1>2, InsideArgument
  <2>3. (\A i \in 2..p : us[i - 1] = todo[i]) /\ (Len(new) + p) - 1 = p - 1
    BY <2>1, ShiftedBack
  <2>4. us[p - 1] = todo[p]
    BY <2>1, <2>3
  <2>5. w.sum[todo[1].node] /\ \A i \in 2..(q - 2) : todo[i].step # "code"
    BY <2>2, SumHead DEF InSum
  <2>6. d = Back(todo, c, 2)
    OBVIOUS
  <2>7. q = 3 => todo[1].node = e
    <3>1. ASSUME q = 3 PROVE todo[1].node = e
      <4>1. q - 1 = 2 /\ 2 - 1 = 1
        BY <3>1
      <4>2. Placed(w.sum, w.vars, ast, todo, c, 2) /\ Operand(ast, todo[2]) = e
        BY <2>2, <4>1 DEF InSum
      <4> QED
        BY <4>1, <4>2 DEF Placed
    <3> QED
      BY <3>1
  <2>8. lim \in Int
    <3>1. w.at[n][j] \in Int
      <4>1. j \in 0..len
        BY <2>1 DEF Stage, Waits
      <4> QED
        BY <2>1, <4>1 DEF Laid
    <3> QED
      BY <3>1
  <2>9. j # 1 => Under(w, ast, todo[1], c, lim)
    <3>1. ASSUME j # 1 PROVE Under(w, ast, todo[1], c, lim)
      <4>1. Underway(w, ast, todo, c, p, q, j)
        BY <2>1, <2>2 DEF Stage, Over, Begun
      <4>2. 1 \in 1..(q - 2)
        BY <2>1, <2>2
      <4> QED
        BY <3>1, <4>1, <4>2 DEF Underway
    <3> QED
      BY <3>1
  <2> HIDE DEF us, c, d, lim
  <2>10. Stage(w, ast, us, d, p - 1, q - 1, j)
    BY <2>1, <2>2, <2>3, <2>5, <2>6, UnderwayReturns
  <2> DEFINE r == q - 1
             k == p - 1
  <2>11. r \in 1..k /\ r \in Nat /\ r = q - 1 /\ (Len(new) + p) - 1 = k /\ us[k].node = n /\ todo[p].node = n
    BY <2>1, <2>2, <2>3, <2>4
  <2> HIDE DEF r, k, n, e, len
  <2>12. ASSUME StraightLine', Lives(w, Ran(text').mem)
         PROVE  Got(w, ast, us, d, Ran(text').regs, k, r, j)
    <3> DEFINE m == Ran(text)
               mm == Ran(text')
    <3>1. /\ StraightLine /\ mm.mem = m.mem
          /\ \A x \in Int : Under(w, ast, todo[1], c, x) => Confined(m, mm, x)
          /\ todo[1].node \in w.wide => mm.regs[d + 1] = w.h[todo[1].node]
      BY <2>1, <2>5, <2>12 DEF Leaves, c, d
    <3>2. j # 1 => Confined(m, mm, w.at[n][j] + 2)
      BY <2>8, <2>9, <3>1 DEF lim
    <3>3. q < 4 /\ Arg(ast, n, j) \in w.wide => mm.regs[d + 1] = w.h[Arg(ast, n, j)]
      BY <2>1, <2>2, <2>7, <3>1 DEF e
    <3>4. Lives(w, m.mem)
      BY <2>12, <3>1
    <3>5. Got(w, ast, todo, c, m.regs, p, q, j)
      BY <2>1, <3>1, <3>4
    <3>6. /\ Laid(w, todo[p].node) /\ Len(ast[todo[p].node].kids) \in Nat
          /\ j \in 1..Len(ast[todo[p].node].kids)
          /\ q \in Nat /\ r \in Nat /\ q > 2 /\ r > 1 /\ (r < 3 => q < 4) /\ us[k].node = todo[p].node
      BY <2>1, <2>2, <2>11 DEF len, n
    <3>8. Spares(w, todo[p].node, j, q, d, m, mm)
      BY <2>11, <3>2, <3>3 DEF Spares
    <3> HIDE DEF m, mm
    <3>7. Got(w, ast, us, d, mm.regs, k, r, j)
      BY <3>5, <3>6, <3>8, GotReturns
    <3> QED
      BY <3>7 DEF mm
  <2>13. Ready(w, k)'
    <3>1. Stage(w, ast, us, d, k, r, j)
      BY <2>10 DEF r, k
    <3> QED
      BY <1>1, <2>1, <2>11, <2>12, <3>1, ReadyNext DEF us, d
  <2> QED
    BY <2>11, <2>13
<1>3. todo[1].step # "code" \/ todo[1].node \notin DOMAIN ast \/ ast[todo[1].node].kind # "CALL"
  OBVIOUS
<1>4. \A w, p, q, j : Along(w, p, q, j) => Ready(w, (Len(new) + p) - 1)'
  BY <1>2
<1> QED
  BY <1>3, <1>4, AlongStep

LEMMA LeafLeaves ==
  ASSUME TypeInv, WalkInv, IsText(text), VisitVAR \/ VisitCONSTANT, NEW new, Goes(new)
  PROVE  Leaves
<1> DEFINE e == todo[1].node
           c == currentRegisterCt
           m == Ran(text)
           mm == Ran(text')
           span == LeafSpan(e)
<1>1. Head(todo) = todo[1] /\ Current = e /\ Stays
  BY GoesOn DEF Current
<1>2. todo[1].step = "code" /\ e \in Ref(ast) /\ IsLeaf(e) /\ c \in Int /\ currentRegisterCt' = c
  <2>1. CASE VisitVAR
    <3>1. Doing("code") /\ Current \in Vars /\ currentRegisterCt' = c
      BY <2>1 DEF VisitVAR
    <3> QED
      BY <1>1, <3>1, CutVisit DEF IsLeaf
  <2>2. CASE VisitCONSTANT
    <3>1. DoingKind("code", {"CONSTANT"}) /\ currentRegisterCt' = c
      BY <2>2 DEF VisitCONSTANT
    <3>2. Doing("code")
      BY <3>1 DEF DoingKind
    <3> QED
      BY <1>1, <3>1, <3>2, CutVisit, VisitedNode DEF IsLeaf
  <2> QED
    BY <2>1, <2>2
<1>3. ASSUME StraightLine' PROVE StraightLine /\ LoadsLeaf(e)
  BY <1>1, <1>3, VarValued, ConstantValued, VarLoads, ConstantLoads
<1>4. StraightLine' => Confined(m, mm, c + span) /\ (TagOf(e) \in Byte2 => mm.regs[c + 1] = HighByte(m.mem, e))
  BY <1>3 DEF LoadsLeaf
<1> HIDE DEF e, m, mm
<1>5. ASSUME StraightLine', NEW w, World(w), w.sum[e], Lives(w, mm.mem)
      PROVE  /\ mm.mem = m.mem
             /\ \A lim \in Int : Under(w, ast, todo[1], c, lim) => Confined(m, mm, lim)
             /\ e \in w.wide => mm.regs[currentRegisterCt' + 1] = w.h[e]
  <2>1. mm.mem = m.mem
    BY <1>4, <1>5 DEF Confined
  <2>2. w.span[e] \in Int /\ w.span[e] = span
    BY <1>2, <1>5 DEF World
  <2>3. ASSUME NEW lim \in Int, Under(w, ast, todo[1], c, lim) PROVE Confined(m, mm, lim)
    <3>1. c + span <= lim /\ span \in Int
      BY <1>2, <2>2, <2>3 DEF Under, e
    <3> HIDE DEF span
    <3>2. \A r \in 0..35 : r >= lim => r >= c + span
      BY <1>2, <3>1
    <3> QED
      BY <1>4, <1>5, <3>2 DEF Confined
  <2>4. ASSUME e \in w.wide PROVE mm.regs[currentRegisterCt' + 1] = w.h[e]
    <3>1. TagOf(e) \in Byte2
      BY <1>5, <2>4 DEF World
    <3>2. w.h[e] = HighByte(mm.mem, e)
      BY <1>5, <2>4 DEF Lives
    <3> QED
      BY <1>2, <1>4, <1>5, <2>1, <3>1, <3>2
  <2> QED
    BY <2>1, <2>3, <2>4
<1> QED
  BY <1>3, <1>5 DEF Leaves, e, m, mm

LEMMA CombineLeaves ==
  ASSUME TypeInv, GrammarInv, TreeInv, WalkInv, KindInv, PlaceInv, HeldInv, IsText(text), BinaryCombine,
         NEW new, Goes(new)
  PROVE  Leaves
<1> DEFINE n == todo[1].node
           m == Ran(text)
           mm == Ran(text')
<1>1. Head(todo) = todo[1] /\ Current = n /\ Stays
  BY GoesOn DEF Current
<1>2. todo[1].step = "combine" /\ n \in DOMAIN ast /\ ast[n].kind = "BINARY" /\ Saved = todo[1].saved
      /\ Saved \in Int
  <2>1. Doing("combine")
    BY DEF BinaryCombine
  <2>2. todo[1].step = "combine" /\ Saved = todo[1].saved /\ Saved \in Int
    BY <1>1, <2>1, CutVisit
  <2>3. Head(todo).node \in DOMAIN ast /\ ast[Head(todo).node].kind = "BINARY"
    <3>1. Suits(ast, Head(todo)) /\ Kinds(ast, Head(todo)) /\ Head(todo).step = "combine"
      BY <2>1, HeadKinds
    <3> QED
      BY <3>1 DEF Kinds, Suits
  <2> QED
    BY <1>1, <2>2, <2>3
<1>3. n \notin Vars
  BY <1>2, KidsBelow
<1>4. StraightLine' => StraightLine
  BY CombineValued
<1>5. ASSUME StraightLine', NEW w, World(w), w.sum[n], Lives(w, mm.mem), NEW lim \in Int, Saved < lim
      PROVE  Confined(m, mm, lim)
  <2>1. Shaped(w.sum, w.vars) /\ Means(Ran(text').mem, w.f) /\ w.sum[Current]
    BY <1>1, <1>5 DEF World, Lives
  <2> QED
    BY <1>5, <2>1, CombineConfined
<1> HIDE DEF n, m, mm
<1>6. ASSUME StraightLine', NEW w, World(w), w.sum[n], Lives(w, mm.mem)
      PROVE  /\ mm.mem = m.mem
             /\ \A lim \in Int : Under(w, ast, todo[1], currentRegisterCt, lim) => Confined(m, mm, lim)
             /\ n \notin w.wide
  <2>1. Saved + 1 \in Int /\ Saved < Saved + 1
    BY <1>2
  <2>2. mm.mem = m.mem
    BY <1>5, <1>6, <2>1 DEF Confined
  <2>3. ASSUME NEW lim \in Int, Under(w, ast, todo[1], currentRegisterCt, lim) PROVE Confined(m, mm, lim)
    <3>1. Saved < lim
      BY <1>2, <2>3 DEF Under
    <3> QED
      BY <1>5, <1>6, <3>1
  <2>4. n \notin w.wide
    BY <1>2, <1>3, <1>6 DEF World, IsLeaf
  <2> QED
    BY <2>2, <2>3, <2>4
<1> QED
  BY <1>4, <1>6 DEF Leaves, n, m, mm

LEMMA ReturnersArgs ==
  ASSUME TypeInv, GrammarInv, TreeInv, WalkInv, KindInv, PlaceInv, HeldInv, ArgsInv, IsText(text), Returners
  PROVE  ArgsInv'
<1>1. PICK new : Goes(new) /\ Len(new) = 0
  BY ReturnersGo, GoesBack
<1>2. Head(todo) = todo[1] /\ Current = todo[1].node
  BY <1>1, GoesOn DEF Current
<1>3. /\ todo[1].step \in {"code", "combine"}
      /\ todo[1].node \in DOMAIN ast => ast[todo[1].node].kind \notin {"UNARY", "CALL"}
      /\ currentRegisterCt' = Back(todo, currentRegisterCt, 2)
      /\ Leaves
  <2>0. 2 - 1 = 1
    OBVIOUS
  <2>1. CASE VisitVAR
    <3>1. Current \in Vars /\ todo[1].step = "code" /\ currentRegisterCt' = currentRegisterCt
      BY <1>2, <2>1 DEF VisitVAR, Doing
    <3>2. todo[1].node \notin DOMAIN ast
      BY <1>2, <3>1, KidsBelow
    <3> QED
      BY <1>1, <2>0, <2>1, <3>1, <3>2, LeafLeaves DEF Back
  <2>2. CASE VisitCONSTANT
    <3>1. DoingKind("code", {"CONSTANT"}) /\ currentRegisterCt' = currentRegisterCt
      BY <2>2 DEF VisitCONSTANT
    <3>2. ast[Current].kind = "CONSTANT" /\ todo[1].step = "code"
      BY <1>2, <3>1 DEF DoingKind, Doing
    <3> QED
      BY <1>1, <1>2, <2>0, <2>2, <3>1, <3>2, LeafLeaves DEF Back
  <2>3. CASE BinaryCombine
    <3>1. currentRegisterCt' = Saved /\ todo[1].step = "combine"
      BY <1>2, <2>3 DEF BinaryCombine, MoveTo, Doing
    <3>2. currentRegisterCt' = todo[1].saved /\ todo[1].step # "code"
      BY <1>2, <3>1 DEF Saved
    <3>3. ast[todo[1].node].kind = "BINARY"
      BY <1>1, <1>2, <2>3, HeadKinds DEF Kinds, BinaryCombine, Doing
    <3>4. Leaves
      BY <1>1, <2>3, CombineLeaves
    <3> QED
      BY <2>0, <3>1, <3>2, <3>3, <3>4 DEF Back
  <2> QED
    BY <2>1, <2>2, <2>3 DEF Returners
<1> QED
  BY <1>1, <1>3, ReturnArgs

\* The visits keep the arguments where they are.
LEMMA WalksArgs ==
  ASSUME TypeInv, GrammarInv, TreeInv, WalkInv, KindInv, PlaceInv, HeldInv, ArgsInv, IsText(text), Proceeds
  PROVE  ArgsInv'
<1>1. CASE Returners
  BY <1>1, ReturnersArgs
<1>2. CASE OtherReturners
  BY <1>2, PassArgs, AsideArgs
<1>3. CASE Callers
  BY <1>3, VisitBinaryArgs, BinaryRightArgs DEF Callers
<1>4. CASE OtherCallers
  BY <1>4, OperandArgs, AsideArgs
<1>5. CASE OtherLists
  BY <1>5, VisitCallArgs, ArgumentArgs, AsideArgs DEF OtherLists
<1> QED
  BY <1>1, <1>2, <1>3, <1>4, <1>5 DEF Proceeds

-------------------------------------------------------------------------------
(***************************************************************************)
(* The whole of the generator.                                             *)
(***************************************************************************)
LEMMA NoneCalls == Unbegun(todo) => ArgsInv
<1> SUFFICES ASSUME Unbegun(todo), NEW w, NEW p \in DOMAIN todo, Passing(w, ast, todo[p]) PROVE FALSE
  BY DEF ArgsInv
<1> QED
  BY DEF Unbegun, Passing

LEMMA NoneCallsNext == Unbegun(todo)' => ArgsInv'
BY NoneCalls, PTL

LEMMA NothingCalls ==
  ASSUME todo' = <<>>
  PROVE  ArgsInv'
<1>1. Unbegun(todo)'
  BY NothingUnbegun
<1> QED
  BY <1>1, NoneCallsNext

LEMMA StatementWithoutCall ==
  ASSUME NextStatement
  PROVE  ArgsInv'
<1>1. Unbegun(todo)'
  BY NextUnbegun
<1> QED
  BY <1>1, NoneCallsNext

LEMMA ArgumentsStay ==
  ASSUME TypeInv, GrammarInv, TreeInv, WalkInv, IsText(text), ValueInv, ArgsInv, Generate
  PROVE  ArgsInv'
<1>0. KindInv /\ PlaceInv /\ HeldInv
  BY DEF ValueInv
<1>1. CASE Throw
  BY <1>1, NothingCalls DEF Throw
<1>2. CASE NextStatement
  BY <1>2, StatementWithoutCall
<1>3. CASE Output
  BY <1>3, NothingCalls DEF Output, genVars
<1>4. CASE Proceeds
  BY <1>0, <1>4, WalksArgs
<1> QED
  BY <1>1, <1>2, <1>3, <1>4, GenerateProceeds

LEMMA SameArgs ==
  ASSUME ArgsInv, UNCHANGED allVars
  PROVE  ArgsInv'
<1>1. UNCHANGED vars /\ ast' = ast /\ todo' = todo /\ text' = text
      /\ currentRegisterCt' = currentRegisterCt
  BY DEF allVars, vars, genVars
<1>2. Stays
  BY <1>1 DEF Stays
<1>3. StraightLine' <=> StraightLine
  BY <1>1 DEF StraightLine
<1>4. ASSUME NEW w, World(w)', NEW p \in DOMAIN todo, Passing(w, ast, todo[p]) PROVE Ready(w, p)'
  <2>1. World(w)
    BY <1>2, <1>4, WorldStays
  <2>2. Ready(w, p)
    BY <1>4, <2>1 DEF ArgsInv
  <2>3. PICK q \in 1..p, j \in Nat :
          /\ Stage(w, ast, todo, currentRegisterCt, p, q, j)
          /\ StraightLine /\ Lives(w, Ran(text).mem) =>
               Got(w, ast, todo, currentRegisterCt, Ran(text).regs, p, q, j)
    BY <2>2 DEF Ready
  <2> QED
    BY <1>1, <1>2, <1>3, <2>3, ReadyNext
<1> QED
  BY <1>1, <1>4 DEF ArgsInv

-------------------------------------------------------------------------------
(***************************************************************************)
(* Span satisfies the equation that defines it, and is a number.           *)
(***************************************************************************)
SpanStep(F, e) ==
  IF e \in Vars THEN SizeOf(e)
  ELSE IF ast[e].kind = "CONSTANT"
  THEN IF TagOf(e) \in Byte1 THEN 1 ELSE 4
  ELSE IF ast[e].kind = "BINARY"
  THEN LET l == ast[e].kids[1]
           r == ast[e].kids[2]
       IN IF F[l] > SizeOf(l) + F[r] THEN F[l] ELSE SizeOf(l) + F[r]
  ELSE 0

SpanOn(k, F) == F = [e \in Vars \cup 1..k |-> SpanStep(F, e)]

LEMMA SpanExists ==
  ASSUME TypeInv, GrammarInv, TreeInv
  PROVE  \E F : F = [e \in Vars \cup DOMAIN ast |-> SpanStep(F, e)]
<1> DEFINE T == {k \in Nat : k <= Len(ast) => \E F : SpanOn(k, F)}
<1>0. Len(ast) \in Nat /\ DOMAIN ast = 1..Len(ast)
  BY TypeOKDef DEF TypeInv
<1>1. 0 \in T
  <2> DEFINE F == [e \in Vars \cup 1..0 |-> SizeOf(e)]
  <2>1. \A e \in Vars \cup 1..0 : e \in Vars
    OBVIOUS
  <2>2. SpanOn(0, F)
    BY <2>1 DEF SpanOn, SpanStep
  <2> QED
    BY <2>2
<1>2. ASSUME NEW k \in Nat, k \in T PROVE k + 1 \in T
  <2>0. SUFFICES ASSUME k + 1 <= Len(ast) PROVE \E F : SpanOn(k + 1, F)
    OBVIOUS
  <2>1. PICK F : SpanOn(k, F)
    BY <1>0, <1>2, <2>0
  <2>2. k + 1 \in DOMAIN ast /\ k + 1 \notin Vars /\ (k + 1) - 1 = k
    BY <1>0, <2>0, KidsBelow
  <2> DEFINE W == [e \in Vars \cup 1..(k + 1) |-> IF e = k + 1 THEN SpanStep(F, k + 1) ELSE F[e]]
  <2>3. \A e \in Vars \cup 1..k : e # k + 1 /\ e \in Vars \cup 1..(k + 1) /\ W[e] = F[e]
    BY <2>2
  <2>4. ASSUME NEW e \in Vars \cup 1..(k + 1) PROVE W[e] = SpanStep(W, e)
    <3>1. ASSUME e \notin Vars, ast[e].kind = "BINARY", NEW i \in {1, 2}
          PROVE  W[ast[e].kids[i]] = F[ast[e].kids[i]]
      <4>1. e \in DOMAIN ast /\ e - 1 <= k
        BY <1>0, <2>0, <3>1
      <4>2. ast[e].kids[i] \in Vars \cup 1..(e - 1)
        BY <3>1, <4>1, KidsBelow
      <4>3. ast[e].kids[i] \in Vars \cup 1..k
        <5> DEFINE d == ast[e].kids[i]
        <5>1. d \in Vars \cup 1..(e - 1) /\ e \in Int
          BY <1>0, <4>1, <4>2
        <5> HIDE DEF d
        <5>2. d \in Vars \cup 1..k
          BY <4>1, <5>1
        <5> QED
          BY <5>2 DEF d
      <4> QED
        BY <2>3, <4>3
    <3>2. SpanStep(W, e) = SpanStep(F, e)
      <4> HIDE DEF W
      <4> QED
        BY <3>1 DEF SpanStep
    <3>3. e # k + 1 => e \in Vars \cup 1..k
      OBVIOUS
    <3>4. e # k + 1 => F[e] = SpanStep(F, e)
      BY <2>1, <3>3 DEF SpanOn
    <3>5. W[e] = IF e = k + 1 THEN SpanStep(F, k + 1) ELSE F[e]
      OBVIOUS
    <3> HIDE DEF W
    <3> QED
      BY <3>2, <3>4, <3>5
  <2>5. W = [e \in Vars \cup 1..(k + 1) |-> W[e]]
    OBVIOUS
  <2> HIDE DEF W
  <2>6. SpanOn(k + 1, W)
    BY <2>4, <2>5 DEF SpanOn
  <2> QED
    BY <2>6
<1>3. Nat \subseteq T
  <2> HIDE DEF T
  <2> QED
    BY <1>1, <1>2, Induction
<1>4. Len(ast) <= Len(ast) /\ Len(ast) \in T
  <2> HIDE DEF T
  <2> QED
    BY <1>0, <1>3
<1>5. PICK F : SpanOn(Len(ast), F)
  BY <1>4
<1> QED
  BY <1>0, <1>5 DEF SpanOn

LEMMA SpanIs ==
  ASSUME TypeInv, GrammarInv, TreeInv
  PROVE  \A e \in Ref(ast) : Span[e] = SpanStep(Span, e)
<1> DEFINE F == CHOOSE F : F = [e \in Vars \cup DOMAIN ast |-> SpanStep(F, e)]
<1>1. F = [e \in Vars \cup DOMAIN ast |-> SpanStep(F, e)]
  BY SpanExists, Zenon
<1>2. Span = F
  BY Zenon DEF Span, SpanStep
<1> HIDE DEF F
<1> QED
  BY <1>1, <1>2, Places DEF Ref

\* A sum of two operands writes a register at least.
Spans(e) == Span[e] \in Int /\ (Sum[e] /\ e \notin Vars => Span[e] >= 1)

LEMMA SpansAll ==
  ASSUME TypeInv, GrammarInv, TreeInv
  PROVE  \A e \in Ref(ast) : Spans(e)
<1> DEFINE T == {k \in Nat : k <= Len(ast) => \A e \in Vars \cup 1..k : Spans(e)}
<1>0. Len(ast) \in Nat /\ DOMAIN ast = 1..Len(ast)
  BY TypeOKDef DEF TypeInv
<1>1. ASSUME NEW e \in Vars PROVE Spans(e)
  <2>1. e \in Ref(ast)
    BY DEF Ref
  <2>2. Span[e] = SizeOf(e)
    BY <2>1, SpanIs DEF SpanStep
  <2> QED
    BY <2>1, <2>2, Sizes DEF Spans
<1>2. ASSUME NEW k \in Nat, k \in T PROVE k + 1 \in T
  <2>0. SUFFICES ASSUME k + 1 <= Len(ast) PROVE \A e \in Vars \cup 1..(k + 1) : Spans(e)
    OBVIOUS
  <2>1. \A e \in Vars \cup 1..k : Spans(e)
    BY <1>0, <1>2, <2>0
  <2> DEFINE n == k + 1
  <2>2. n \in DOMAIN ast /\ n \notin Vars /\ n - 1 = k /\ n \in Ref(ast)
    BY <1>0, <2>0, KidsBelow DEF Ref
  <2> HIDE DEF n
  <2>3. Span[n] = SpanStep(Span, n) /\ (Sum[n] <=> SumStep(Sum, n))
    BY <2>2, SpanIs, SumIs
  <2>4. ASSUME ast[n].kind = "BINARY" PROVE Spans(n)
    <3> DEFINE l == ast[n].kids[1]
               r == ast[n].kids[2]
    <3>1. l \in Vars \cup 1..k /\ r \in Vars \cup 1..k
      BY <2>2, <2>4, KidsBelow
    <3>2. l \in Ref(ast) /\ SizeOf(l) \in Int
      <4>1. l \in Ref(ast)
        BY <2>2, <2>4, Operands
      <4> QED
        BY <4>1, Sizes
    <3>3. Spans(l) /\ Spans(r)
      BY <2>1, <3>1
    <3>4. Span[n] = IF Span[l] > SizeOf(l) + Span[r] THEN Span[l] ELSE SizeOf(l) + Span[r]
      BY <2>2, <2>3, <2>4 DEF SpanStep
    <3>5. Sum[n] => Sum[l] /\ SizeOf(l) > 0
      BY <2>2, <2>3, <2>4 DEF SumStep
    <3>6. l \in Vars => Span[l] = SizeOf(l)
      BY <3>2, SpanIs DEF SpanStep
    <3> HIDE DEF l, r
    <3>7. Span[l] \in Int /\ Span[r] \in Int /\ (Sum[n] => Span[l] >= 1)
      BY <3>2, <3>3, <3>5, <3>6 DEF Spans
    <3>8. Span[n] \in Int /\ Span[n] >= Span[l]
      BY <3>2, <3>4, <3>7
    <3> QED
      BY <3>7, <3>8 DEF Spans
  <2>5. ASSUME ast[n].kind # "BINARY" PROVE Spans(n)
    <3>1. Span[n] \in 0..4 /\ (ast[n].kind = "CONSTANT" => Span[n] >= 1)
      BY <2>2, <2>3, <2>5 DEF SpanStep
    <3>2. Sum[n] => ast[n].kind = "CONSTANT"
      BY <2>2, <2>3, <2>5 DEF SumStep
    <3> QED
      BY <3>1, <3>2 DEF Spans
  <2>6. \A e \in Vars \cup 1..(k + 1) : e \in Vars \cup 1..k \/ e = n
    BY DEF n
  <2> QED
    BY <2>1, <2>4, <2>5, <2>6
<1>3. 0 \in T
  <2>1. \A e \in Vars \cup 1..0 : e \in Vars
    OBVIOUS
  <2> QED
    BY <1>1, <2>1
<1>4. Nat \subseteq T
  <2> HIDE DEF T
  <2> QED
    BY <1>2, <1>3, Induction
<1>5. Len(ast) <= Len(ast) /\ Len(ast) \in T
  <2> HIDE DEF T
  <2> QED
    BY <1>0, <1>4
<1> QED
  BY <1>0, <1>5 DEF Ref

-------------------------------------------------------------------------------
(***************************************************************************)
(* The arguments are where the function expects them.                      *)
(***************************************************************************)
\* The register of the k-th argument of the call n, if A has the ones before it.
RegisterStep(n, A, k) ==
  IF k = 0 THEN AfterArguments
  ELSE A[k - 1] - ArgumentSpan(SizeOf(ast[n].kids[k]))

LEMMA ArgumentRegisterIs ==
  ASSUME NEW n, NEW i \in 0..2
  PROVE  ArgumentRegister(n, i) =
           LET first  == AfterArguments - ArgumentSpan(SizeOf(ast[n].kids[1]))
               second == first - ArgumentSpan(SizeOf(ast[n].kids[2]))
           IN IF i = 0 THEN AfterArguments ELSE IF i = 1 THEN first ELSE second
<1> DEFINE s1 == ArgumentSpan(SizeOf(ast[n].kids[1]))
           s2 == ArgumentSpan(SizeOf(ast[n].kids[2]))
           first == AfterArguments - s1
           second == first - s2
           W == [k \in 0..i |-> IF k = 0 THEN AfterArguments ELSE IF k = 1 THEN first ELSE second]
           A == CHOOSE A : A = [k \in 0..i |-> RegisterStep(n, A, k)]
<1>1. W = [k \in 0..i |-> RegisterStep(n, W, k)]
  <2>1. ASSUME NEW k \in 0..i PROVE W[k] = RegisterStep(n, W, k)
    <3>1. k = 0 \/ k = 1 \/ k = 2
      OBVIOUS
    <3>2. CASE k = 0
      BY <3>2 DEF RegisterStep
    <3>3. CASE k = 1
      <4>1. W[0] = AfterArguments /\ k - 1 = 0
        BY <3>3
      <4> QED
        BY <3>3, <4>1 DEF RegisterStep
    <3>4. CASE k = 2
      <4>1. W[1] = first /\ k - 1 = 1
        BY <3>4
      <4> QED
        BY <3>4, <4>1 DEF RegisterStep
    <3> QED
      BY <3>1, <3>2, <3>3, <3>4
  <2>2. W = [k \in 0..i |-> W[k]]
    OBVIOUS
  <2> HIDE DEF W
  <2> QED
    BY <2>1, <2>2
<1>2. A = [k \in 0..i |-> RegisterStep(n, A, k)]
  <2> HIDE DEF W
  <2>1. \E V : V = [k \in 0..i |-> RegisterStep(n, V, k)]
    BY <1>1, Zenon
  <2> QED
    BY <2>1, Zenon
<1>3. ArgumentRegister(n, i) = A[i]
  BY Zenon DEF ArgumentRegister, RegisterStep
<1> HIDE DEF A, W
<1>4. \A k \in 0..i : A[k] = RegisterStep(n, A, k)
  BY <1>2
<1>5. A[0] = AfterArguments
  BY <1>4 DEF RegisterStep
<1>6. i # 0 => A[1] = first
  <2>1. i # 0 => 1 \in 0..i /\ 1 - 1 = 0 /\ 1 # 0
    OBVIOUS
  <2> QED
    BY <1>4, <1>5, <2>1 DEF RegisterStep
<1>7. i = 2 => A[2] = second
  <2>1. i = 2 => 2 \in 0..i /\ 2 - 1 = 1 /\ 2 # 0
    OBVIOUS
  <2> QED
    BY <1>4, <1>6, <2>1 DEF RegisterStep
<1>8. i = 0 \/ i = 1 \/ i = 2
  OBVIOUS
<1> QED
  BY <1>3, <1>5, <1>6, <1>7, <1>8

\* What the operators of CodeGenerator say of the sketch, over the memory mem.
WorldOf(mem) ==
  [sum |-> Sum, vars |-> VarsOf, span |-> Span,
   typed |-> {e \in Ref(ast) : HasType(e) /\ TagOf(e) \in Byte1 \cup Byte2},
   wide |-> {e \in Ref(ast) : IsLeaf(e) /\ TagOf(e) \in Byte2},
   size |-> [e \in Ref(ast) |-> SizeOf(e)],
   at |-> [n \in DOMAIN ast |-> [i \in 0..Len(ast[n].kids) |-> ArgumentRegister(n, i)]],
   f |-> Meaning(mem), h |-> [e \in Ref(ast) |-> HighByte(mem, e)]]

LEMMA CallsLaid ==
  ASSUME TypeInv, GrammarInv, ArgInv, NEW w, NEW n \in DOMAIN ast, ast[n].kind = "CALL", ast[n].op # "user",
         \A i \in 0..Len(ast[n].kids) : w.at[n][i] = ArgumentRegister(n, i)
  PROVE  Laid(w, n)
<1> DEFINE kids == ast[n].kids
           len == Len(kids)
           S(i) == ArgumentSpan(SizeOf(kids[i]))
<1>1. /\ len \in Nat /\ DOMAIN kids = 1..len /\ \A i \in 1..len : kids[i] \in Ref(ast)
  BY Children
<1>2. /\ len <= 2
      /\ \A i \in DOMAIN kids :
           /\ kids[i] \in DOMAIN ast /\ ast[kids[i]].kind = "UNARY" /\ ast[kids[i]].op = "ARG"
           /\ i # 1 => Sized(cells, ast[kids[i]].type)
  BY DEF ArgInv, ArgsGood
<1>3. \A i \in 1..len : S(i) \in Int
  <2>1. ASSUME NEW i \in 1..len PROVE S(i) \in Int
    <3>1. SizeOf(kids[i]) \in Int
      BY <1>1, Sizes
    <3> QED
      BY <3>1 DEF ArgumentSpan
  <2> QED
    BY <2>1
<1>4. ASSUME len = 2 PROVE S(2) = 2
  <2>1. 2 \in DOMAIN kids /\ 2 # 1
    BY <1>1, <1>4
  <2>2. kids[2] \in DOMAIN ast /\ Sized(cells, ast[kids[2]].type)
    BY <1>2, <2>1
  <2>3. TypeOf(kids[2]) = ast[kids[2]].type
    BY <2>2, Places, VarsAssumption DEF TypeOf
  <2>4. SizeOf(kids[2]) \in 1..2
    <3>1. Len(cells) \in Nat /\ DOMAIN cells = 1..Len(cells)
      BY TypeOKDef DEF TypeInv
    <3>2. 0 \notin DOMAIN cells
      BY <3>1
    <3> QED
      BY <2>2, <2>3, <3>2 DEF Sized, SizeOf, TagOf, HasType, NullType
  <2> QED
    BY <2>4 DEF ArgumentSpan
<1>5. \A i \in 0..len : w.at[n][i] = IF i = 0 THEN 26 ELSE IF i = 1 THEN 26 - S(1) ELSE (26 - S(1)) - S(2)
  <2>1. ASSUME NEW i \in 0..len
        PROVE  ArgumentRegister(n, i) = IF i = 0 THEN 26 ELSE IF i = 1 THEN 26 - S(1) ELSE (26 - S(1)) - S(2)
    <3>1. i \in 0..2
      BY <1>1, <1>2
    <3> QED
      BY <3>1, ArgumentRegisterIs DEF AfterArguments
  <2> QED
    BY <2>1
<1>11. len \in Nat /\ len <= 2
  BY <1>1, <1>2
<1> HIDE DEF S, len
<1>6. w.at[n][0] = 26 /\ (len >= 1 => w.at[n][1] = 26 - S(1)) /\ (len >= 2 => w.at[n][2] = (26 - S(1)) - S(2))
  BY <1>5, <1>11
<1>7. len = 0 \/ len = 1 \/ len = 2
  BY <1>11
<1>8. \A i \in 0..len : w.at[n][i] \in Int
  BY <1>3, <1>6, <1>7
<1>9. \A i \in 1..len : w.at[n][i] = w.at[n][i - 1] - S(i)
  <2>1. ASSUME NEW i \in 1..len PROVE w.at[n][i] = w.at[n][i - 1] - S(i)
    <3>1. i = 1 \/ i = 2
      BY <1>7
    <3>2. CASE i = 1
      BY <1>6, <1>7, <3>2
    <3>3. CASE i = 2
      <4>1. i - 1 = 1 /\ len = 2
        BY <1>7, <3>3
      <4> QED
        BY <1>6, <3>3, <4>1
    <3> QED
      BY <3>1, <3>2, <3>3
  <2> QED
    BY <2>1
<1>10. len = 2 => w.at[n][1] = w.at[n][2] + 2
  BY <1>3, <1>4, <1>6
<1> QED
  BY <1>2, <1>6, <1>8, <1>9, <1>10 DEF Laid, S, len, AfterArguments

LEMMA TheWorld ==
  ASSUME TypeInv, GrammarInv, TreeInv, ArgInv, NEW mem
  PROVE  World(WorldOf(mem)) /\ Lives(WorldOf(mem), mem)
<1> DEFINE w == WorldOf(mem)
<1>1. /\ w.sum = Sum /\ w.vars = VarsOf /\ w.span = Span /\ w.f = Meaning(mem)
      /\ w.typed = {e \in Ref(ast) : HasType(e) /\ TagOf(e) \in Byte1 \cup Byte2}
      /\ w.wide = {e \in Ref(ast) : IsLeaf(e) /\ TagOf(e) \in Byte2}
  BY DEF WorldOf
<1>2. w.size = [e \in Ref(ast) |-> SizeOf(e)] /\ w.h = [e \in Ref(ast) |-> HighByte(mem, e)]
      /\ w.at = [n \in DOMAIN ast |-> [i \in 0..Len(ast[n].kids) |-> ArgumentRegister(n, i)]]
  BY DEF WorldOf
<1> HIDE DEF w
<1>3. Lives(w, mem)
  BY <1>1, <1>2, MeaningMeans DEF Lives
<1>4. Shaped(w.sum, w.vars)
  BY <1>1, SumShape
<1>5. \A e \in Ref(ast) : w.sum[e] => w.span[e] \in Int /\ (IsLeaf(e) => w.span[e] = LeafSpan(e))
  <2>1. ASSUME NEW e \in Ref(ast) PROVE Span[e] \in Int /\ (IsLeaf(e) => Span[e] = LeafSpan(e))
    <3>1. Span[e] = SpanStep(Span, e)
      BY SpanIs
    <3>2. IsLeaf(e) => Span[e] = LeafSpan(e)
      BY <3>1 DEF SpanStep, IsLeaf, LeafSpan
    <3> QED
      BY <3>2, SpansAll DEF Spans
  <2> QED
    BY <1>1, <2>1
<1>6. ASSUME NEW n \in DOMAIN ast, w.sum[n], ast[n].kind = "BINARY"
      PROVE  LET l == ast[n].kids[1]
                 r == ast[n].kids[2]
             IN w.span[n] >= 1 /\ w.span[n] >= w.span[l] /\ w.span[n] >= w.size[l] + w.span[r]
  <2> DEFINE l == ast[n].kids[1]
             r == ast[n].kids[2]
  <2>1. n \in Ref(ast) /\ n \notin Vars
    BY KidsBelow DEF Ref
  <2>2. l \in Ref(ast) /\ r \in Ref(ast)
    BY <1>6, Operands
  <2>3. Span[n] = IF Span[l] > SizeOf(l) + Span[r] THEN Span[l] ELSE SizeOf(l) + Span[r]
    BY <1>6, <2>1, SpanIs DEF SpanStep
  <2>4. Span[n] >= 1
    BY <1>1, <1>6, <2>1, SpansAll DEF Spans
  <2> HIDE DEF l, r
  <2>5. Span[l] \in Int /\ Span[r] \in Int /\ SizeOf(l) \in Int
    BY <2>2, SpansAll, Sizes DEF Spans
  <2>6. Span[n] >= Span[l] /\ Span[n] >= SizeOf(l) + Span[r]
    BY <2>3, <2>5
  <2>7. w.size[l] = SizeOf(l)
    BY <1>2, <2>2
  <2> QED
    BY <1>1, <2>4, <2>6, <2>7 DEF l, r
<1>7. ASSUME NEW n \in DOMAIN ast, ast[n].kind = "CALL", ast[n].op # "user" PROVE Laid(w, n)
  <2>1. \A i \in 0..Len(ast[n].kids) : w.at[n][i] = ArgumentRegister(n, i)
    BY <1>2
  <2> QED
    BY <1>7, <2>1, CallsLaid
<1>8. World(w)
  BY <1>1, <1>2, <1>4, <1>5, <1>6, <1>7 DEF World
<1> QED
  BY <1>3, <1>8 DEF w

LEMMA ArgumentsHere ==
  ASSUME ValuesInv, ArgInv, ArgsInv
  PROVE  ArgumentsArrive
<1>1. /\ TypeInv /\ GrammarInv /\ TreeInv /\ WalkInv /\ KindInv
      /\ Machine = Ran(text)
  BY DEF ValuesInv, JumpsInv, CompilerInv, ValueInv, Machine, Ran
<1> DEFINE n == Current
           len == Len(ast[n].kids)
           m == Ran(text)
           w == WorldOf(m.mem)
<1>2. World(w) /\ Lives(w, m.mem)
  BY <1>1, TheWorld
<1>3. /\ w.sum = Sum /\ w.span = Span /\ w.f = Meaning(m.mem)
      /\ w.typed = {e \in Ref(ast) : HasType(e) /\ TagOf(e) \in Byte1 \cup Byte2}
      /\ w.wide = {e \in Ref(ast) : IsLeaf(e) /\ TagOf(e) \in Byte2}
      /\ w.h = [e \in Ref(ast) |-> HighByte(m.mem, e)]
      /\ w.at = [x \in DOMAIN ast |-> [i \in 0..Len(ast[x].kids) |-> ArgumentRegister(x, i)]]
  BY DEF WorldOf
<1>4. ASSUME Doing("call"), ast[n].op # "user", StraightLine,
             \A i \in 1..len : Passable(ArgumentOf(n, i)) /\ (i > 1 => Span[ArgumentOf(n, i)] <= 2)
      PROVE  \A i \in 1..len : Arrives(n, i)
  <2>1. n \in DOMAIN ast /\ ast[n].kind = "CALL" /\ todo # <<>> /\ Head(todo).step = "call" /\ Head(todo).node = n
    <3>1. Suits(ast, Head(todo)) /\ Kinds(ast, Head(todo)) /\ todo # <<>> /\ Head(todo).step = "call"
          /\ Head(todo).node = n
      BY <1>1, <1>4, HeadKinds
    <3> QED
      BY <3>1 DEF Suits, Kinds
  <2>2. todo[1].step = "call" /\ todo[1].node = n /\ 1 \in DOMAIN todo
    BY <1>1, <2>1 DEF WalkInv, GenTypeOK
  <2>3. len \in Nat /\ DOMAIN ast[n].kids = 1..len
    BY <1>1, <2>1, Children
  <2>4. Laid(w, n)
    BY <1>2, <1>4, <2>1 DEF World
  <2>5. ASSUME NEW i \in 1..len PROVE Arg(ast, n, i) = ArgumentOf(n, i) /\ Arg(ast, n, i) \in Ref(ast)
    <3>1. ast[n].kids[i] \in DOMAIN ast /\ ast[ast[n].kids[i]].kind = "UNARY"
      BY <2>3, <2>4 DEF Laid
    <3>2. ast[ast[n].kids[i]].kids[1] \in Ref(ast)
      BY <1>1, <3>1, Operands
    <3> QED
      BY <3>2 DEF Arg, ArgumentOf
  <2> HIDE DEF n, len, m, w
  <2>6. \A i \in 1..len : /\ w.sum[Arg(ast, n, i)] /\ Arg(ast, n, i) \in w.typed
                          /\ i # 1 => w.span[Arg(ast, n, i)] <= 2
    <3>1. \A i \in 1..len : i # 1 => i > 1
      BY <2>3
    <3> QED
      BY <1>3, <1>4, <2>5, <3>1 DEF Passable
  <2>7. Passing(w, ast, todo[1])
    BY <1>4, <2>1, <2>2, <2>3, <2>6 DEF Passing
  <2>8. PICK q \in 1..1, j \in Nat :
          Stage(w, ast, todo, currentRegisterCt, 1, q, j) /\ Got(w, ast, todo, currentRegisterCt, m.regs, 1, q, j)
    BY <1>2, <1>4, <2>2, <2>7 DEF ArgsInv, Ready, m
  <2>9. j = len
    <3>1. 1 - q = len - j
      BY <2>2, <2>8 DEF Stage, Waits, len
    <3> QED
      BY <2>3, <3>1
  <2>10. q = 1
    OBVIOUS
  <2>11. \A i \in 1..len : Arrived(w, ast, n, m.regs, i)
    BY <2>2, <2>8, <2>9, <2>10 DEF Got
  <2>12. ASSUME NEW i \in 1..len PROVE Arrives(n, i)
    <3> DEFINE r == ArgumentRegister(n, i)
               e == ArgumentOf(n, i)
    <3>1. i \in 0..Len(ast[n].kids)
      BY <2>3 DEF len
    <3>2. w.at[n][i] = r
      BY <1>3, <2>1, <3>1
    <3>3. m.regs[r] = w.f[e] /\ (e \in w.wide => m.regs[r + 1] = w.h[e])
      BY <2>5, <2>11, <3>2 DEF Arrived
    <3>4. e \in Ref(ast)
      BY <2>5
    <3>5. w.f[e] = Meaning(m.mem)[e] /\ (e \in w.wide <=> IsLeaf(e) /\ TagOf(e) \in Byte2)
          /\ w.h[e] = HighByte(m.mem, e)
      BY <1>3, <3>4
    <3> QED
      BY <1>1, <3>3, <3>5 DEF Arrives, m
  <2> QED
    BY <2>12
<1> HIDE DEF m, w
<1> QED
  BY <1>4 DEF ArgumentsArrive

\* The inductive invariant of the arguments.
ArgumentsInv == ValuesInv /\ ArgInv /\ ArgsInv

LEMMA InitArgumentsInv == GenInit => ArgumentsInv
<1> SUFFICES ASSUME GenInit PROVE ArgumentsInv
  OBVIOUS
<1>1. Unbegun(todo)
  BY NothingUnbegun DEF GenInit
<1>2. ArgInv
  BY DEF GenInit, Init, ArgInv
<1> QED
  BY <1>1, <1>2, NoneCalls, InitValuesInv DEF ArgumentsInv

LEMMA NextArgumentsInv == ArgumentsInv /\ [CompilerNext]_allVars => ArgumentsInv'
<1> SUFFICES ASSUME ValuesInv, ArgInv, ArgsInv, [CompilerNext]_allVars
             PROVE  ValuesInv' /\ ArgInv' /\ ArgsInv'
  BY DEF ArgumentsInv
<1>1. ValuesInv'
  BY NextValuesInv
<1>2. /\ TypeInv /\ DeclInv /\ GrammarInv /\ TreeInv /\ WalkInv /\ IsText(text) /\ ValueInv
      /\ TypeInv' /\ DeclInv'
  BY <1>1 DEF ValuesInv, JumpsInv, CompilerInv, JumpInv
<1>3. CASE UNCHANGED allVars
  <2>1. ast' = ast /\ cells' = cells
    BY <1>3 DEF allVars, vars
  <2>2. ArgInv'
    BY <2>1, SameArguments
  <2> QED
    BY <1>1, <1>3, <2>2, SameArgs
<1>4. CASE Next /\ UNCHANGED genVars
  <2>1. phase \in {"definitions", "body", "main"}
    BY <1>4, FrontEndPhases
  <2>2. todo' = <<>>
    BY <1>2, <1>4, <2>1 DEF WalkInv, GenTypeOK, genVars
  <2> QED
    BY <1>1, <1>2, <1>4, <2>2, NothingCalls, NextArgs
<1>5. CASE Generate
  BY <1>1, <1>2, <1>5, GenerateArgs, ArgumentsStay
<1> QED
  BY <1>1, <1>3, <1>4, <1>5 DEF CompilerNext

\* When a function of the board is called, each of its arguments is in the
\* registers where the function expects it, both bytes of a variable or a constant
\* of two, whatever was parsed and generated before: the later arguments do not
\* overwrite the earlier ones, if their code stays within two registers, and the
\* moves of visit(ExprUnary) from where a value was computed lose none of it.
THEOREM ArgumentsAreInPlace == CompilerSpec => []ArgumentsArrive
<1>1. GenInit => ArgumentsInv
  BY InitArgumentsInv
<1>2. ArgumentsInv /\ [CompilerNext]_allVars => ArgumentsInv'
  BY NextArgumentsInv
<1>3. ArgumentsInv => ArgumentsArrive
  BY ArgumentsHere DEF ArgumentsInv
<1> QED
  BY <1>1, <1>2, <1>3, PTL DEF CompilerSpec
===============================================================================
