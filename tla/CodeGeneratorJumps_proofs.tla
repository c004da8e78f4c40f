----------------------- MODULE CodeGeneratorJumps_proofs -----------------------
(***************************************************************************)
(* Proofs about CodeGenerator: JumpsResolved holds for every set of        *)
(* variables, every language and every bound.                              *)
(*                                                                         *)
(* A label is made of the identifier of a statement, so a jump has one     *)
(* target because an object of the AST has one place (TreeInv, which the   *)
(* productions establish) and is therefore visited once (OnceInv).         *)
(***************************************************************************)
EXTENDS CodeGenerator_proofs, FiniteSetTheorems, WellFoundedInduction

-------------------------------------------------------------------------------
(***************************************************************************)
(* The AST is a forest.                                                    *)
(***************************************************************************)
\* The same object, other than the one ExprVAR of a variable.
Same(d, e) == d = e /\ d \notin Vars

IsStatement(as, e) == e \in DOMAIN as /\ as[e].kind \in StmKinds

\* The children that are statements: the bodies.
BodyOf(node) ==
  {i \in DOMAIN node.kids : node.kind \in {"SEQ", "LOOP"} \/ (node.kind \in Governing /\ i >= 2)}

\* Children are created before their parent.
KidsOlder ==
  \A n \in DOMAIN ast : \A i \in DOMAIN ast[n].kids :
    ast[n].kids[i] \in Vars \/ ast[n].kids[i] \in 1..(n - 1)

OneParent ==
  \A m, n \in DOMAIN ast : \A i \in DOMAIN ast[m].kids, j \in DOMAIN ast[n].kids :
    Same(ast[m].kids[i], ast[n].kids[j]) => m = n /\ i = j

\* No object has a parent and still waits on the stack ...
ValuesLoose ==
  \A k \in DOMAIN stack, n \in DOMAIN ast :
    \A j \in DOMAIN stack[k].nodes, i \in DOMAIN ast[n].kids :
      ~Same(stack[k].nodes[j], ast[n].kids[i])

\* ... nor waits twice.
ValuesDiffer ==
  \A k, l \in DOMAIN stack : \A i \in DOMAIN stack[k].nodes, j \in DOMAIN stack[l].nodes :
    Same(stack[k].nodes[i], stack[l].nodes[j]) => k = l /\ i = j

BodiesAreStatements ==
  /\ \A k \in DOMAIN stack : stack[k].sort # "expr" =>
       \A j \in DOMAIN stack[k].nodes : IsStatement(ast, stack[k].nodes[j])
  /\ \A n \in DOMAIN ast : \A i \in BodyOf(ast[n]) : IsStatement(ast, ast[n].kids[i])

\* The statements of the program are at the root, each of them once.
ProgramLoose ==
  /\ phase \in {"definitions", "body", "main"} => program = <<>>
  /\ \A j \in DOMAIN program : IsStatement(ast, program[j])
  /\ \A i, j \in DOMAIN program : program[i] = program[j] => i = j
  /\ \A j \in DOMAIN program, n \in DOMAIN ast : \A i \in DOMAIN ast[n].kids :
       program[j] # ast[n].kids[i]

TreeInv ==
  KidsOlder /\ OneParent /\ ValuesLoose /\ ValuesDiffer /\ BodiesAreStatements /\ ProgramLoose

\* One of the k values of the right-hand side.
Taken(k, e) == \E i \in 1..k : \E j \in DOMAIN stack[i].nodes : e = stack[i].nodes[j]
TakenStatement(k, e) ==
  \E i \in 1..k : stack[i].sort # "expr" /\ \E j \in DOMAIN stack[i].nodes : e = stack[i].nodes[j]

\* What TypeInv says of children and of the values on the stack.
LEMMA Places ==
  ASSUME TypeInv
  PROVE  /\ Len(ast) \in Nat /\ DOMAIN ast = 1..Len(ast)
         /\ Len(stack) \in Nat /\ DOMAIN stack = 1..Len(stack)
         /\ \A k \in DOMAIN stack :
              /\ Len(stack[k].nodes) \in Nat \ {0}
              /\ DOMAIN stack[k].nodes = 1..Len(stack[k].nodes)
              /\ 1 \in DOMAIN stack[k].nodes
              /\ \A j \in DOMAIN stack[k].nodes : stack[k].nodes[j] \in Vars \cup 1..Len(ast)
         /\ \A n \in DOMAIN ast :
              /\ Len(ast[n].kids) \in Nat /\ DOMAIN ast[n].kids = 1..Len(ast[n].kids)
              /\ \A i \in DOMAIN ast[n].kids : ast[n].kids[i] \in Vars \cup 1..Len(ast)
<1>1. /\ Len(ast) \in Nat /\ DOMAIN ast = 1..Len(ast)
      /\ Len(stack) \in Nat /\ DOMAIN stack = 1..Len(stack)
      /\ ast \in Seq(NodeSet(Len(cells), Len(ast))) /\ stack \in Seq(ItemSet(Len(ast)))
  BY TypeOKDef DEF TypeInv
<1> DEFINE V == Vars \cup 1..Len(ast)
<1>2. ASSUME NEW k \in DOMAIN stack
      PROVE  /\ Len(stack[k].nodes) \in Nat \ {0}
             /\ DOMAIN stack[k].nodes = 1..Len(stack[k].nodes)
             /\ 1 \in DOMAIN stack[k].nodes
             /\ \A j \in DOMAIN stack[k].nodes : stack[k].nodes[j] \in V
  <2> DEFINE s == stack[k].nodes
  <2>1. s \in Seq(V) /\ s # <<>>
    <3>1. stack[k] \in ItemSet(Len(ast))
      BY <1>1, ElementOfSeq
    <3> QED
      BY <1>2, <3>1 DEF ItemSet, TypeInv, Shape
  <2> HIDE DEF s, V
  <2>2. /\ Len(s) \in Nat /\ DOMAIN s = 1..Len(s) /\ \A j \in 1..Len(s) : s[j] \in V
        /\ Len(s) # 0
    BY <2>1, LenProperties, ElementOfSeq, EmptySeq
  <2>3. 1 \in 1..Len(s)
    BY <2>2
  <2> QED
    BY <2>2, <2>3 DEF s
<1>3. ASSUME NEW n \in DOMAIN ast
      PROVE  /\ Len(ast[n].kids) \in Nat /\ DOMAIN ast[n].kids = 1..Len(ast[n].kids)
             /\ \A i \in DOMAIN ast[n].kids : ast[n].kids[i] \in V
  <2> DEFINE s == ast[n].kids
  <2>1. s \in Seq(V)
    <3>1. ast[n] \in NodeSet(Len(cells), Len(ast))
      BY <1>1, ElementOfSeq
    <3> QED
      BY <3>1 DEF NodeSet
  <2> HIDE DEF s, V
  <2>2. Len(s) \in Nat /\ DOMAIN s = 1..Len(s) /\ \A j \in 1..Len(s) : s[j] \in V
    BY <2>1, LenProperties, ElementOfSeq
  <2> QED
    BY <2>2 DEF s
<1> QED
  BY <1>1, <1>2, <1>3

\* A reduction that takes each value it uses from the right-hand side, once, and
\* leaves on the stack what has no parent yet.
LEMMA TreeStep ==
  ASSUME TypeInv, TreeInv, NEW k \in 0..Len(stack), AstGrows, StackPops(k),
         Parsing, program' = program, phase' = phase,
         \A n \in (Len(ast) + 1)..Len(ast') : \A i \in DOMAIN ast'[n].kids :
            \/ ast'[n].kids[i] \in Vars
            \/ Taken(k, ast'[n].kids[i])
            \/ ast'[n].kids[i] \in (Len(ast) + 1)..(n - 1),
         \A m, n \in (Len(ast) + 1)..Len(ast') :
            \A i \in DOMAIN ast'[m].kids, j \in DOMAIN ast'[n].kids :
               Same(ast'[m].kids[i], ast'[n].kids[j]) => m = n /\ i = j,
         \A n \in (Len(ast) + 1)..Len(ast') : \A i \in BodyOf(ast'[n]) :
            TakenStatement(k, ast'[n].kids[i]),
         \A j \in DOMAIN stack'[1].nodes :
            \/ stack'[1].nodes[j] \in Vars
            \/ Taken(k, stack'[1].nodes[j])
            \/ stack'[1].nodes[j] \in (Len(ast) + 1)..Len(ast'),
         \A i, j \in DOMAIN stack'[1].nodes :
            Same(stack'[1].nodes[i], stack'[1].nodes[j]) => i = j,
         \A j \in DOMAIN stack'[1].nodes, n \in (Len(ast) + 1)..Len(ast') :
            \A i \in DOMAIN ast'[n].kids : ~Same(stack'[1].nodes[j], ast'[n].kids[i]),
         stack'[1].sort # "expr" =>
            \A j \in DOMAIN stack'[1].nodes :
               \/ TakenStatement(k, stack'[1].nodes[j])
               \/ IsStatement(ast', stack'[1].nodes[j])
  PROVE  TreeInv'
<1> DEFINE Old == 1..Len(ast)
           New == (Len(ast) + 1)..Len(ast')
           Below == (k + 1)..Len(stack)
<1>1. /\ Len(ast) \in Nat /\ Len(ast') \in Nat /\ DOMAIN ast = Old /\ DOMAIN ast' = Old \cup New
      /\ Old \cap New = {} /\ \A n \in Old : ast'[n] = ast[n]
  BY Places DEF AstGrows
<1>2. /\ DOMAIN stack = 1..Len(stack) /\ 1..k \subseteq DOMAIN stack /\ Below \subseteq DOMAIN stack
      /\ (1..k) \cap Below = {}
  BY Places
<1>3. \A l \in DOMAIN stack' : l = 1 \/ (k + l - 1 \in Below /\ stack'[l] = stack[k + l - 1])
  BY DEF StackPops
<1>4. \A l, m \in DOMAIN stack' : k + l - 1 = k + m - 1 => l = m
  BY <1>2 DEF StackPops
<1>5. \A l \in DOMAIN stack : \A j \in DOMAIN stack[l].nodes : stack[l].nodes[j] \in Vars \cup Old
  BY Places
<1>6. \A n \in Old : \A i \in DOMAIN ast[n].kids : ast[n].kids[i] \in Vars \cup Old
  BY <1>1, Places
<1> HIDE DEF Old, Below
<1>7. ASSUME NEW e, Taken(k, e), e \notin Vars
      PROVE  /\ e \in Old
             /\ \A n \in Old : \A i \in DOMAIN ast[n].kids : ast[n].kids[i] # e
             /\ \A l \in Below : \A j \in DOMAIN stack[l].nodes : stack[l].nodes[j] # e
  <2>1. PICK i \in 1..k : \E j \in DOMAIN stack[i].nodes : e = stack[i].nodes[j]
    BY <1>7 DEF Taken
  <2>2. PICK j \in DOMAIN stack[i].nodes : e = stack[i].nodes[j]
    BY <2>1
  <2>3. i \in DOMAIN stack /\ i \notin Below
    BY <1>2
  <2>4. \A l \in DOMAIN stack : \A q \in DOMAIN stack[l].nodes : stack[l].nodes[q] = e => l = i
    BY <1>7, <2>2, <2>3 DEF TreeInv, ValuesDiffer, Same
  <2>5. \A n \in DOMAIN ast : \A q \in DOMAIN ast[n].kids : ast[n].kids[q] # e
    BY <1>7, <2>2, <2>3 DEF TreeInv, ValuesLoose, Same
  <2> QED
    BY <1>1, <1>2, <1>5, <1>7, <2>2, <2>3, <2>4, <2>5
<1>8. \A e : IsStatement(ast, e) => IsStatement(ast', e)
  BY <1>1 DEF IsStatement
<1>9. ASSUME NEW e, TakenStatement(k, e) PROVE IsStatement(ast', e)
  <2>1. IsStatement(ast, e)
    BY <1>2, <1>9 DEF TakenStatement, TreeInv, BodiesAreStatements
  <2> QED
    BY <1>8, <2>1
<1>10. KidsOlder'
  <2>1. ASSUME NEW n \in DOMAIN ast', NEW i \in DOMAIN ast'[n].kids
        PROVE  ast'[n].kids[i] \in Vars \/ ast'[n].kids[i] \in 1..(n - 1)
    <3>1. CASE n \in Old
      BY <1>1, <2>1, <3>1 DEF TreeInv, KidsOlder
    <3>2. CASE n \in New
      <4>1. Old \subseteq 1..(n - 1) /\ (Len(ast) + 1)..(n - 1) \subseteq 1..(n - 1)
        BY <1>1, <3>2 DEF Old
      <4> QED
        BY <1>7, <2>1, <3>2, <4>1
    <3> QED
      BY <1>1, <3>1, <3>2
  <2> QED
    BY <2>1 DEF KidsOlder
<1>11. OneParent'
  <2>1. ASSUME NEW m \in Old, NEW n \in New, NEW i \in DOMAIN ast'[m].kids,
               NEW j \in DOMAIN ast'[n].kids, ast'[m].kids[i] = ast'[n].kids[j],
               ast'[m].kids[i] \notin Vars
        PROVE  FALSE
    <3>1. ast'[n].kids[j] \in Old
      BY <1>1, <1>6, <2>1
    <3>2. Taken(k, ast'[n].kids[j])
      BY <1>1, <2>1, <3>1 DEF Old
    <3> QED
      BY <1>1, <1>7, <2>1, <3>2
  <2>2. ASSUME NEW m \in DOMAIN ast', NEW n \in DOMAIN ast', NEW i \in DOMAIN ast'[m].kids,
               NEW j \in DOMAIN ast'[n].kids, ast'[m].kids[i] = ast'[n].kids[j],
               ast'[m].kids[i] \notin Vars
        PROVE  m = n /\ i = j
    <3>1. CASE m \in Old /\ n \in Old
      BY <1>1, <2>2, <3>1 DEF TreeInv, OneParent, Same
    <3>2. CASE m \in New /\ n \in New
      BY <2>2, <3>2 DEF Same
    <3> QED
      BY <1>1, <2>1, <2>2, <3>1, <3>2
  <2> QED
    BY <2>2 DEF OneParent, Same
<1>12. ValuesLoose'
  <2>1. ASSUME NEW l \in DOMAIN stack', NEW n \in DOMAIN ast', NEW j \in DOMAIN stack'[l].nodes,
               NEW i \in DOMAIN ast'[n].kids, stack'[l].nodes[j] = ast'[n].kids[i],
               stack'[l].nodes[j] \notin Vars
        PROVE  FALSE
    <3>1. CASE l = 1 /\ n \in New
      BY <2>1, <3>1 DEF Same
    <3>2. CASE l = 1 /\ n \in Old
      <4>1. stack'[1].nodes[j] \in Old
        BY <1>1, <1>6, <2>1, <3>2
      <4>2. Taken(k, stack'[1].nodes[j])
        BY <1>1, <2>1, <3>2, <4>1
      <4> QED
        BY <1>1, <1>7, <2>1, <3>2, <4>2
    <3>3. CASE k + l - 1 \in Below /\ stack'[l] = stack[k + l - 1] /\ n \in Old
      BY <1>1, <1>2, <2>1, <3>3 DEF TreeInv, ValuesLoose, Same
    <3>4. CASE k + l - 1 \in Below /\ stack'[l] = stack[k + l - 1] /\ n \in New
      <4>1. ast'[n].kids[i] \in Old
        BY <1>2, <1>5, <2>1, <3>4
      <4>2. Taken(k, ast'[n].kids[i])
        BY <1>1, <2>1, <3>4, <4>1 DEF Old
      <4> QED
        BY <1>7, <2>1, <3>4, <4>2
    <3> QED
      BY <1>1, <1>3, <3>1, <3>2, <3>3, <3>4
  <2> QED
    BY <2>1 DEF ValuesLoose, Same
<1>13. ValuesDiffer'
  <2>1. ASSUME NEW m \in DOMAIN stack', m # 1, NEW i \in DOMAIN stack'[1].nodes,
               NEW j \in DOMAIN stack'[m].nodes, stack'[1].nodes[i] = stack'[m].nodes[j],
               stack'[1].nodes[i] \notin Vars
        PROVE  FALSE
    <3>1. k + m - 1 \in Below /\ stack'[m] = stack[k + m - 1]
      BY <1>3, <2>1
    <3>2. stack'[1].nodes[i] \in Old
      BY <1>2, <1>5, <2>1, <3>1
    <3>3. Taken(k, stack'[1].nodes[i])
      BY <1>1, <2>1, <3>2
    <3> QED
      BY <1>7, <2>1, <3>1, <3>3
  <2>2. ASSUME NEW l \in DOMAIN stack', NEW m \in DOMAIN stack', NEW i \in DOMAIN stack'[l].nodes,
               NEW j \in DOMAIN stack'[m].nodes, stack'[l].nodes[i] = stack'[m].nodes[j],
               stack'[l].nodes[i] \notin Vars
        PROVE  l = m /\ i = j
    <3>1. CASE l = 1 /\ m = 1
      BY <2>2, <3>1 DEF Same
    <3>2. CASE l # 1 /\ m # 1
      <4>1. /\ k + l - 1 \in DOMAIN stack /\ stack'[l] = stack[k + l - 1]
            /\ k + m - 1 \in DOMAIN stack /\ stack'[m] = stack[k + m - 1]
        BY <1>2, <1>3, <3>2
      <4>2. k + l - 1 = k + m - 1 /\ i = j
        BY <2>2, <4>1 DEF TreeInv, ValuesDiffer, Same
      <4> QED
        BY <1>4, <4>2
    <3> QED
      BY <2>1, <2>2, <3>1, <3>2
  <2> QED
    BY <2>2 DEF ValuesDiffer, Same
<1>14. BodiesAreStatements'
  <2>1. ASSUME NEW l \in DOMAIN stack', stack'[l].sort # "expr", NEW j \in DOMAIN stack'[l].nodes
        PROVE  IsStatement(ast', stack'[l].nodes[j])
    <3>1. CASE l = 1
      BY <1>9, <2>1, <3>1
    <3>2. CASE l # 1
      BY <1>2, <1>3, <1>8, <2>1, <3>2 DEF TreeInv, BodiesAreStatements
    <3> QED
      BY <3>1, <3>2
  <2>2. ASSUME NEW n \in DOMAIN ast', NEW i \in BodyOf(ast'[n])
        PROVE  IsStatement(ast', ast'[n].kids[i])
    <3>1. CASE n \in Old
      BY <1>1, <1>8, <2>2, <3>1 DEF TreeInv, BodiesAreStatements
    <3>2. CASE n \in New
      BY <1>9, <2>2, <3>2
    <3> QED
      BY <1>1, <3>1, <3>2
  <2> QED
    BY <2>1, <2>2 DEF BodiesAreStatements
<1>15. ProgramLoose'
  <2>1. ASSUME NEW j \in DOMAIN program, NEW n \in New, NEW i \in DOMAIN ast'[n].kids,
               program[j] = ast'[n].kids[i]
        PROVE  FALSE
    <3>1. DOMAIN program = {}
      BY DEF TreeInv, ProgramLoose, Parsing
    <3> QED
      BY <2>1, <3>1
  <2> QED
    BY <1>1, <1>8, <2>1 DEF TreeInv, ProgramLoose
<1> QED
  BY <1>10, <1>11, <1>12, <1>13, <1>14, <1>15 DEF TreeInv

\* A production that creates objects, the last of which replaces the values of
\* its right-hand side.
LEMMA NodesTree ==
  ASSUME TypeInv, TreeInv, Parsing, program' = program, phase' = phase,
         NEW k \in 0..Len(stack), NEW S, NEW nodes \in Seq(S), Len(nodes) # 0, Create(nodes),
         NEW item, Reduce(k, item), item.nodes = <<Len(ast) + Len(nodes)>>,
         item.sort # "expr" => nodes[Len(nodes)].kind \in StmKinds,
         \A q \in 1..Len(nodes) : \A i \in DOMAIN nodes[q].kids :
            \/ nodes[q].kids[i] \in Vars
            \/ Taken(k, nodes[q].kids[i])
            \/ nodes[q].kids[i] \in (Len(ast) + 1)..(Len(ast) + q - 1),
         \A p, q \in 1..Len(nodes) : \A i \in DOMAIN nodes[p].kids, j \in DOMAIN nodes[q].kids :
            Same(nodes[p].kids[i], nodes[q].kids[j]) => p = q /\ i = j,
         \A q \in 1..Len(nodes) : \A i \in BodyOf(nodes[q]) :
            TakenStatement(k, nodes[q].kids[i])
  PROVE  TreeInv'
<1> DEFINE last == Len(ast) + Len(nodes)
<1>1. /\ AstGrows /\ Len(nodes) \in Nat /\ Len(ast') = last /\ Len(ast) \in Nat
      /\ \A n \in (Len(ast) + 1)..Len(ast') :
           n - Len(ast) \in 1..Len(nodes) /\ ast'[n] = nodes[n - Len(ast)]
  BY Creation, Places
<1>2. StackPops(k) /\ stack'[1] = item
  BY Popping
<1>3. last \in (Len(ast) + 1)..Len(ast') /\ last - Len(ast) = Len(nodes)
  BY <1>1
<1>4. ast'[last] = nodes[Len(nodes)] /\ last \in DOMAIN ast'
  BY <1>1, <1>3 DEF AstGrows
<1>5. item.nodes = <<last>>
  OBVIOUS
<1> HIDE DEF last
<1>6. DOMAIN item.nodes = {1} /\ item.nodes[1] = last
  BY <1>5
<1>7. ASSUME NEW n \in (Len(ast) + 1)..Len(ast'), NEW i \in DOMAIN ast'[n].kids
      PROVE  \/ ast'[n].kids[i] \in Vars
             \/ Taken(k, ast'[n].kids[i])
             \/ ast'[n].kids[i] \in (Len(ast) + 1)..(n - 1)
  <2>1. n - Len(ast) \in 1..Len(nodes) /\ ast'[n] = nodes[n - Len(ast)]
    BY <1>1
  <2>2. Len(ast) + (n - Len(ast)) - 1 = n - 1
    BY <1>1
  <2> QED
    BY <1>7, <2>1, <2>2
<1>8. ASSUME NEW m \in (Len(ast) + 1)..Len(ast'), NEW n \in (Len(ast) + 1)..Len(ast'),
             NEW i \in DOMAIN ast'[m].kids, NEW j \in DOMAIN ast'[n].kids,
             Same(ast'[m].kids[i], ast'[n].kids[j])
      PROVE  m = n /\ i = j
  <2>1. /\ m - Len(ast) \in 1..Len(nodes) /\ ast'[m] = nodes[m - Len(ast)]
        /\ n - Len(ast) \in 1..Len(nodes) /\ ast'[n] = nodes[n - Len(ast)]
    BY <1>1
  <2>2. m - Len(ast) = n - Len(ast) /\ i = j
    BY <1>8, <2>1
  <2> QED
    BY <1>1, <2>2
<1>9. ASSUME NEW n \in (Len(ast) + 1)..Len(ast'), NEW i \in BodyOf(ast'[n])
      PROVE  TakenStatement(k, ast'[n].kids[i])
  BY <1>1, <1>9
<1>10. ASSUME NEW n \in (Len(ast) + 1)..Len(ast'), NEW i \in DOMAIN ast'[n].kids
       PROVE  ~Same(last, ast'[n].kids[i])
  <2>1. SUFFICES ASSUME ast'[n].kids[i] = last, last \notin Vars PROVE FALSE
    BY DEF Same
  <2>2. last \notin (Len(ast) + 1)..(n - 1) /\ last \notin 1..Len(ast)
    BY <1>1, <1>3
  <2>3. Taken(k, last)
    BY <1>7, <2>1, <2>2
  <2>4. PICK l \in 1..k : \E j \in DOMAIN stack[l].nodes : last = stack[l].nodes[j]
    BY <2>3 DEF Taken
  <2>5. l \in DOMAIN stack
    BY Places
  <2> QED
    BY <2>1, <2>2, <2>4, <2>5, Places
<1>11. \A i, j \in DOMAIN stack'[1].nodes : i = j
  BY <1>2, <1>6
<1>12. \A j \in DOMAIN stack'[1].nodes : stack'[1].nodes[j] = last
  BY <1>2, <1>6
<1>13. stack'[1].sort # "expr" =>
         \A j \in DOMAIN stack'[1].nodes :
            \/ TakenStatement(k, stack'[1].nodes[j])
            \/ IsStatement(ast', stack'[1].nodes[j])
  BY <1>2, <1>4, <1>12 DEF IsStatement
<1>14. \A j \in DOMAIN stack'[1].nodes :
          \/ stack'[1].nodes[j] \in Vars
          \/ Taken(k, stack'[1].nodes[j])
          \/ stack'[1].nodes[j] \in (Len(ast) + 1)..Len(ast')
  BY <1>3, <1>12
<1>15. \A i, j \in DOMAIN stack'[1].nodes :
          Same(stack'[1].nodes[i], stack'[1].nodes[j]) => i = j
  BY <1>11
<1>16. \A j \in DOMAIN stack'[1].nodes, n \in (Len(ast) + 1)..Len(ast') :
          \A i \in DOMAIN ast'[n].kids : ~Same(stack'[1].nodes[j], ast'[n].kids[i])
  BY <1>10, <1>12
<1>17. AstGrows /\ StackPops(k)
  BY <1>1, <1>2
<1> HIDE DEF Parsing
<1> QED
  BY <1>7, <1>8, <1>9, <1>13, <1>14, <1>15, <1>16, <1>17, TreeStep

\* Children a production takes from its right-hand side, each of them once.
FromStack(k, kids) ==
  /\ \A i \in DOMAIN kids : kids[i] \in Vars \/ Taken(k, kids[i])
  /\ \A i, j \in DOMAIN kids : Same(kids[i], kids[j]) => i = j

\* A production that creates one object.
LEMMA NodeTree ==
  ASSUME TypeInv, TreeInv, Parsing, program' = program, phase' = phase,
         NEW k \in 0..Len(stack), NEW node, Create(<<node>>),
         NEW item, Reduce(k, item), item.nodes = <<Top>>,
         item.sort # "expr" => node.kind \in StmKinds,
         FromStack(k, node.kids),
         \A i \in BodyOf(node) : TakenStatement(k, node.kids[i])
  PROVE  TreeInv'
<1> DEFINE S == {node}
           nodes == <<node>>
<1>1. nodes \in Seq(S) /\ Len(nodes) = 1 /\ nodes[1] = node /\ \A q \in 1..Len(nodes) : q = 1
  OBVIOUS
<1>2. Create(nodes)
  OBVIOUS
<1> HIDE DEF S, nodes
<1>3. item.nodes = <<Len(ast) + Len(nodes)>> /\ Len(nodes) # 0
  BY <1>1 DEF Top
<1>4. \A q \in 1..Len(nodes) : nodes[q] = node
  BY <1>1
<1> HIDE DEF Parsing
<1> QED
  BY <1>1, <1>2, <1>3, <1>4, NodesTree DEF FromStack

\* The values on top of the stack.
LEMMA HeldTaken ==
  ASSUME TypeInv, TreeInv, NEW k \in Nat \ {0}, NEW sort, Holds(k, sort)
  PROVE  /\ k \in 1..Len(stack) /\ \A l \in Nat : k <= l => Taken(l, Value(k))
         /\ sort # "expr" => \A l \in Nat : k <= l => TakenStatement(l, Value(k))
         /\ \A l \in 1..Len(stack) : Same(Value(k), Value(l)) => k = l
<1>1. k \in DOMAIN stack /\ DOMAIN stack = 1..Len(stack) /\ Len(stack) \in Nat
      /\ stack[k].sort = sort /\ 1 \in DOMAIN stack[k].nodes
  BY Places DEF Holds
<1>2. \A l \in Nat : k <= l => k \in 1..l
  OBVIOUS
<1>3. \A l \in 1..Len(stack) : 1 \in DOMAIN stack[l].nodes
  BY <1>1, Places
<1> QED
  BY <1>1, <1>2, <1>3 DEF Taken, TakenStatement, Value, TreeInv, ValuesDiffer

\* A list of expressions in source order.
LEMMA ListedFromStack ==
  ASSUME TypeInv, TreeInv, NEW n \in Nat, HoldsList(n), NEW k \in Nat, n <= k
  PROVE  FromStack(k, Listed(n)) /\ DOMAIN Listed(n) = 1..n
<1>1. DOMAIN Listed(n) = 1..n /\ \A i \in 1..n : Listed(n)[i] = Value(n + 1 - i)
  BY DEF Listed
<1>2. ASSUME NEW i \in 1..n
      PROVE  /\ n + 1 - i \in 1..Len(stack) /\ Taken(k, Value(n + 1 - i))
             /\ \A l \in 1..Len(stack) : Same(Value(n + 1 - i), Value(l)) => n + 1 - i = l
  <2>1. n + 1 - i \in Nat \ {0} /\ n + 1 - i \in 1..n /\ n + 1 - i <= k
    OBVIOUS
  <2>2. Holds(n + 1 - i, "expr")
    BY <2>1 DEF HoldsList
  <2> QED
    BY <2>1, <2>2, HeldTaken
<1>3. ASSUME NEW i \in 1..n, NEW j \in 1..n, Same(Listed(n)[i], Listed(n)[j]) PROVE i = j
  <2>1. Same(Value(n + 1 - i), Value(n + 1 - j))
    BY <1>1, <1>3
  <2>2. n + 1 - i = n + 1 - j
    BY <1>2, <2>1
  <2> QED
    BY <2>2
<1> QED
  BY <1>1, <1>2, <1>3 DEF FromStack

LEMMA ExprTree ==
  ASSUME TypeInv, TreeInv, Parsing, NEW k \in 0..Len(stack), NEW node,
         ToExpr(k, <<node>>, Top), FromStack(k, node.kids), node.kind \in ExprKinds
  PROVE  TreeInv'
<1> DEFINE item == Item("expr", <<Top>>)
<1>1. /\ Create(<<node>>) /\ Reduce(k, item) /\ program' = program /\ phase' = phase
      /\ item.nodes = <<Top>> /\ item.sort = "expr"
  BY DEF ToExpr, Item
<1>2. BodyOf(node) = {}
  BY DEF BodyOf, ExprKinds, Governing, Conditionals
<1> HIDE DEF item, Parsing
<1> QED
  BY <1>1, <1>2, NodeTree

LEMMA StmTree ==
  ASSUME TypeInv, TreeInv, Parsing, NEW k \in 0..Len(stack), NEW node,
         ToStm(k, <<node>>), FromStack(k, node.kids), node.kind \in StmKinds,
         \A i \in BodyOf(node) : TakenStatement(k, node.kids[i])
  PROVE  TreeInv'
<1> DEFINE item == Item("stm", <<Top>>)
<1>1. /\ Create(<<node>>) /\ Reduce(k, item) /\ program' = program /\ phase' = phase
      /\ item.nodes = <<Top>>
  BY DEF ToStm, Item, Top
<1> HIDE DEF item, Parsing
<1> QED
  BY <1>1, NodeTree

\* No child, or one, two or three from the right-hand side.
LEMMA FewFromStack ==
  ASSUME TypeInv, TreeInv, NEW k \in Nat
  PROVE  /\ FromStack(k, <<>>)
         /\ \A s, i : i \in 1..k /\ Holds(i, s) => FromStack(k, <<Value(i)>>)
         /\ \A s, t, i, j : /\ i \in 1..k /\ j \in 1..k /\ i # j /\ Holds(i, s) /\ Holds(j, t)
                            => FromStack(k, <<Value(i), Value(j)>>)
         /\ \A s, t, u, i, j, l :
              /\ i \in 1..k /\ j \in 1..k /\ l \in 1..k /\ i # j /\ i # l /\ j # l
              /\ Holds(i, s) /\ Holds(j, t) /\ Holds(l, u)
              => FromStack(k, <<Value(i), Value(j), Value(l)>>)
<1>1. ASSUME NEW s, NEW i \in 1..k, Holds(i, s)
      PROVE  /\ i \in 1..Len(stack) /\ Taken(k, Value(i))
             /\ \A l \in 1..Len(stack) : Same(Value(i), Value(l)) => i = l
  <2>1. i \in Nat \ {0} /\ i <= k
    OBVIOUS
  <2> QED
    BY <1>1, <2>1, HeldTaken
<1>2. FromStack(k, <<>>)
  BY DEF FromStack
<1>3. ASSUME NEW s, NEW i \in 1..k, Holds(i, s) PROVE FromStack(k, <<Value(i)>>)
  BY <1>1, <1>3 DEF FromStack
<1>4. ASSUME NEW s, NEW t, NEW i \in 1..k, NEW j \in 1..k, i # j, Holds(i, s), Holds(j, t)
      PROVE  FromStack(k, <<Value(i), Value(j)>>)
  <2>1. ~Same(Value(i), Value(j)) /\ ~Same(Value(j), Value(i))
    BY <1>1, <1>4
  <2> QED
    BY <1>1, <1>4, <2>1 DEF FromStack
<1>5. ASSUME NEW s, NEW t, NEW u, NEW i \in 1..k, NEW j \in 1..k, NEW l \in 1..k,
             i # j, i # l, j # l, Holds(i, s), Holds(j, t), Holds(l, u)
      PROVE  FromStack(k, <<Value(i), Value(j), Value(l)>>)
  <2>1. /\ ~Same(Value(i), Value(j)) /\ ~Same(Value(j), Value(i))
        /\ ~Same(Value(i), Value(l)) /\ ~Same(Value(l), Value(i))
        /\ ~Same(Value(j), Value(l)) /\ ~Same(Value(l), Value(j))
    BY <1>1, <1>5
  <2> QED
    BY <1>1, <1>5, <2>1 DEF FromStack
<1> QED
  BY <1>2, <1>3, <1>4, <1>5

\* A production that creates a chain of objects, the first of which takes its
\* children from the right-hand side.
LEMMA ChainTree ==
  ASSUME TypeInv, TreeInv, Parsing, program' = program, phase' = phase,
         NEW k \in 0..Len(stack), NEW S, NEW nodes \in Seq(S), Len(nodes) # 0, Create(nodes),
         NEW item, Reduce(k, item), item.nodes = <<Len(ast) + Len(nodes)>>,
         item.sort # "expr" => nodes[Len(nodes)].kind \in StmKinds,
         FromStack(k, nodes[1].kids),
         \A q \in 2..Len(nodes) : nodes[q].kids = <<Len(ast) + q - 1>>,
         \A q \in 1..Len(nodes) : BodyOf(nodes[q]) = {}
  PROVE  TreeInv'
<1>1. Len(ast) \in Nat /\ Len(nodes) \in Nat /\ Len(stack) \in Nat
  BY Places, LenProperties
<1>2. ASSUME NEW e, Taken(k, e) PROVE e \in Vars \cup 1..Len(ast)
  <2>1. PICK i \in 1..k : \E j \in DOMAIN stack[i].nodes : e = stack[i].nodes[j]
    BY <1>2 DEF Taken
  <2>2. i \in DOMAIN stack
    BY Places
  <2> QED
    BY <2>1, <2>2, Places
<1>3. ASSUME NEW q \in 1..Len(nodes), NEW i \in DOMAIN nodes[q].kids
      PROVE  \/ /\ q = 1 /\ nodes[q].kids[i] = nodes[1].kids[i]
                /\ nodes[q].kids[i] \in Vars \/ Taken(k, nodes[q].kids[i])
             \/ q \in 2..Len(nodes) /\ i = 1 /\ nodes[q].kids[i] = Len(ast) + q - 1
  <2>1. CASE q = 1
    BY <1>3, <2>1 DEF FromStack
  <2>2. CASE q # 1
    <3>1. q \in 2..Len(nodes)
      BY <1>1, <2>2
    <3>2. nodes[q].kids = <<Len(ast) + q - 1>>
      BY <3>1
    <3> QED
      BY <1>3, <3>1, <3>2
  <2> QED
    BY <2>1, <2>2
<1>4. \A q \in 1..Len(nodes) : \A i \in DOMAIN nodes[q].kids :
            \/ nodes[q].kids[i] \in Vars
            \/ Taken(k, nodes[q].kids[i])
            \/ nodes[q].kids[i] \in (Len(ast) + 1)..(Len(ast) + q - 1)
  BY <1>1, <1>3
<1>5. ASSUME NEW p \in 1..Len(nodes), NEW q \in 1..Len(nodes), NEW i \in DOMAIN nodes[p].kids,
             NEW j \in DOMAIN nodes[q].kids, Same(nodes[p].kids[i], nodes[q].kids[j])
      PROVE  p = q /\ i = j
  <2>1. CASE p = 1 /\ q = 1
    BY <1>5, <2>1 DEF FromStack
  <2>2. CASE p \in 2..Len(nodes) /\ q \in 2..Len(nodes)
    <3>1. i = 1 /\ nodes[p].kids[i] = Len(ast) + p - 1
      BY <1>3, <2>2
    <3>2. j = 1 /\ nodes[q].kids[j] = Len(ast) + q - 1
      BY <1>3, <2>2
    <3>3. Len(ast) + p - 1 = Len(ast) + q - 1
      BY <1>5, <3>1, <3>2 DEF Same
    <3> QED
      BY <1>1, <3>1, <3>2, <3>3
  <2>3. CASE p = 1 /\ q \in 2..Len(nodes)
    <3>1. nodes[q].kids[j] = Len(ast) + q - 1 /\ nodes[p].kids[i] \in Vars \cup 1..Len(ast)
      BY <1>2, <1>3, <2>3
    <3> QED
      BY <1>1, <1>5, <2>3, <3>1 DEF Same
  <2>4. CASE p \in 2..Len(nodes) /\ q = 1
    <3>1. nodes[p].kids[i] = Len(ast) + p - 1 /\ nodes[q].kids[j] \in Vars \cup 1..Len(ast)
      BY <1>2, <1>3, <2>4
    <3> QED
      BY <1>1, <1>5, <2>4, <3>1 DEF Same
  <2> QED
    BY <1>1, <2>1, <2>2, <2>3, <2>4
<1> HIDE DEF Parsing
<1> QED
  BY <1>4, <1>5, NodesTree

\* The productions of left_part, expression and ATmega328p_expression.
LEMMA ParseExprTree ==
  ASSUME TypeInv, TreeInv, ParseExpr, phase' # "aborted"
  PROVE  TreeInv'
<1>0. Len(ast) \in Nat /\ Len(stack) \in Nat /\ DOMAIN stack = 1..Len(stack)
  BY Places
<1>a. 0 \in 0..Len(stack) /\ FromStack(0, <<>>)
  BY <1>0, FewFromStack
<1>b. ASSUME NEW k \in Nat \ {0}, NEW sort, Holds(k, sort) PROVE k \in 0..Len(stack)
  BY <1>0, <1>b DEF Holds
<1>1. ASSUME NEW l, ConstantExpression(l) PROVE TreeInv'
  <2> DEFINE node == Node("CONSTANT", l, Len(cells) + 1, <<>>)
  <2>1. Parsing /\ ToExpr(0, <<node>>, Top)
    BY <1>1 DEF ConstantExpression
  <2>2. node.kind \in ExprKinds /\ node.kids = <<>>
    BY DEF Node, ExprKinds
  <2> HIDE DEF node
  <2> QED
    BY <1>a, <2>1, <2>2, ExprTree
<1>2. ASSUME NEW v \in Vars, LeftPart(v) PROVE TreeInv'
  <2> DEFINE item == Item("expr", <<v>>)
             none == <<>>
  <2>1. /\ Parsing /\ Create(none) /\ Reduce(0, item) /\ program' = program /\ phase' = phase
        /\ none \in Seq({}) /\ Len(none) = 0
    BY <1>2 DEF LeftPart, ToExpr
  <2>2. item.sort = "expr" /\ DOMAIN item.nodes = {1} /\ item.nodes[1] = v
    BY DEF Item
  <2> HIDE DEF item, none
  <2>3. AstGrows /\ Len(ast') = Len(ast) /\ StackPops(0) /\ stack'[1] = item
    <3> HIDE DEF Parsing
    <3>1. AstGrows /\ Len(ast') = Len(ast) + Len(none)
      BY <2>1, Creation
    <3> QED
      BY <1>0, <1>a, <2>1, <3>1, Popping
  <2>4. (Len(ast) + 1)..Len(ast') = {}
    BY <1>0, <2>3
  <2> HIDE DEF Parsing
  <2> QED
    BY <1>a, <2>1, <2>2, <2>3, <2>4, TreeStep
<1>3. ASSUME NEW v \in Vars PROVE ~UnknownVariable(v)
  BY DEF UnknownVariable, Abort
<1>4. ASSUME NEW v \in Vars, IndexedLeftPart(v) PROVE TreeInv'
  <2> DEFINE node == Node("GET", "GET", NullType, <<Value(1), v>>)
  <2>1. Parsing /\ Holds(1, "expr") /\ ToExpr(1, <<node>>, Top)
    BY <1>4 DEF IndexedLeftPart
  <2>2. Taken(1, Value(1))
    BY <2>1, HeldTaken
  <2>3. FromStack(1, <<Value(1), v>>)
    BY <2>2 DEF FromStack, Same
  <2>4. node.kind \in ExprKinds /\ node.kids = <<Value(1), v>>
    BY DEF Node, ExprKinds
  <2> HIDE DEF node
  <2> QED
    BY <1>b, <2>1, <2>3, <2>4, ExprTree
<1>5. ASSUME NEW op, NEW type, Parsing, Holds(1, "expr"), Holds(2, "expr"),
             ToExpr(2, <<Node("BINARY", op, type, <<Value(2), Value(1)>>)>>, Top)
      PROVE  TreeInv'
  <2> DEFINE node == Node("BINARY", op, type, <<Value(2), Value(1)>>)
  <2>1. ToExpr(2, <<node>>, Top)
    BY <1>5
  <2>2. FromStack(2, <<Value(2), Value(1)>>)
    BY <1>5, FewFromStack
  <2>3. node.kind \in ExprKinds /\ node.kids = <<Value(2), Value(1)>>
    BY DEF Node, ExprKinds
  <2> HIDE DEF node
  <2> QED
    BY <1>5, <1>b, <2>1, <2>2, <2>3, ExprTree
<1>6. ASSUME NEW op, AliasBinary(op) \/ Comparison(op) PROVE TreeInv'
  BY <1>5, <1>6 DEF AliasBinary, Comparison
<1>7. ASSUME NEW op, Unary(op) PROVE TreeInv'
  <2> DEFINE node == Node("UNARY", op, TypeOf(Value(1)), <<Value(1)>>)
  <2>1. Parsing /\ Holds(1, "expr") /\ ToExpr(1, <<node>>, Top)
    BY <1>7 DEF Unary
  <2>2. FromStack(1, <<Value(1)>>)
    BY <2>1, FewFromStack
  <2>3. node.kind \in ExprKinds /\ node.kids = <<Value(1)>>
    BY DEF Node, ExprKinds
  <2> HIDE DEF node
  <2> QED
    BY <1>b, <2>1, <2>2, <2>3, ExprTree
<1>8. ASSUME NEW kind \in {"CALL", "EXPRLIST", "EXPRSET", "EXPRRANGE"}, NEW op, NEW type,
             NEW n \in Nat, n \in 0..Len(stack), HoldsList(n), Parsing,
             ToExpr(n, <<Node(kind, op, type, Listed(n))>>, Top)
      PROVE  TreeInv'
  <2> DEFINE node == Node(kind, op, type, Listed(n))
  <2>1. ToExpr(n, <<node>>, Top)
    BY <1>8
  <2>2. FromStack(n, Listed(n))
    BY <1>8, ListedFromStack
  <2>3. node.kind \in ExprKinds /\ node.kids = Listed(n)
    BY DEF Node, ExprKinds
  <2> HIDE DEF node
  <2> QED
    BY <1>8, <2>1, <2>2, <2>3, ExprTree
<1>9. ASSUME NEW n \in 1..MaxArgs, UserCall(n) PROVE TreeInv'
  <2>1. n \in Nat /\ n \in 0..Len(stack) /\ HoldsList(n)
    BY <1>9, ListedValues, BoundAssumption DEF UserCall
  <2> QED
    BY <1>8, <1>9, <2>1 DEF UserCall
<1>10. ASSUME NEW kind \in {"EXPRLIST", "EXPRSET", "EXPRRANGE"}, NEW n \in Nat,
              n \in 0..Len(stack), Aggregate(kind, n)
       PROVE  TreeInv'
  BY <1>8, <1>10 DEF Aggregate
<1>11. ASSUME NEW kind \in {"EXPRLIST", "EXPRSET"}, NEW n \in 1..MaxArgs, Aggregate(kind, n)
       PROVE  TreeInv'
  <2>1. n \in Nat /\ n \in 0..Len(stack)
    BY <1>11, ListedValues, BoundAssumption DEF Aggregate
  <2> QED
    BY <1>10, <1>11, <2>1
<1>12. ASSUME Aggregate("EXPRRANGE", 2) PROVE TreeInv'
  <2>1. Holds(2, "expr")
    BY <1>12 DEF Aggregate, HoldsList
  <2> QED
    BY <1>b, <1>10, <1>12, <2>1
<1>13. ASSUME NEW f, Read(f) PROVE TreeInv'
  <2> DEFINE node == Node("CALL", f, functionCell[f], <<>>)
  <2>1. Parsing /\ ToExpr(0, <<node>>, Top)
    BY <1>13 DEF Read
  <2>2. node.kind \in ExprKinds /\ node.kids = <<>>
    BY DEF Node, ExprKinds
  <2> HIDE DEF node
  <2> QED
    BY <1>a, <2>1, <2>2, ExprTree
<1>14. ASSUME DigitalRead PROVE TreeInv'
  <2> DEFINE n1 == Node("CONSTANT", "EXPR", Len(cells) + 1, <<Value(1)>>)
             n2 == Node("UNARY", "ARG", Len(cells) + 1, <<Top>>)
             n3 == Node("CALL", "digitalRead", functionCell.digitalRead, <<Top + 1>>)
             S == {n1, n2, n3}
             nodes == <<n1, n2, n3>>
             item == Item("expr", <<Top + 2>>)
  <2>1. /\ Parsing /\ Holds(1, "expr") /\ Create(nodes) /\ Reduce(1, item)
        /\ program' = program /\ phase' = phase
    BY <1>14 DEF DigitalRead, ToExpr
  <2>2. /\ nodes \in Seq(S) /\ Len(nodes) = 3
        /\ nodes[1] = n1 /\ nodes[2] = n2 /\ nodes[3] = n3
    OBVIOUS
  <2>3. /\ n1.kids = <<Value(1)>> /\ n2.kids = <<Top>> /\ n3.kids = <<Top + 1>>
        /\ BodyOf(n1) = {} /\ BodyOf(n2) = {} /\ BodyOf(n3) = {}
    BY DEF Node, BodyOf, Governing, Conditionals
  <2>4. item.nodes = <<Len(ast) + 3>> /\ item.sort = "expr"
    BY <1>0 DEF Item, Top
  <2>5. FromStack(1, n1.kids)
    BY <2>1, <2>3, FewFromStack
  <2> HIDE DEF n1, n2, n3, nodes, S, item
  <2>6. \A q \in 1..Len(nodes) : q = 1 \/ q = 2 \/ q = 3
    BY <2>2
  <2>7. \A q \in 1..Len(nodes) : BodyOf(nodes[q]) = {}
    BY <2>2, <2>3, <2>6
  <2>8. \A q \in 2..Len(nodes) : nodes[q].kids = <<Len(ast) + q - 1>>
    BY <1>0, <2>2, <2>3, <2>6 DEF Top
  <2>9. Len(nodes) # 0 /\ item.nodes = <<Len(ast) + Len(nodes)>>
    BY <2>2, <2>4
  <2> HIDE DEF Parsing
  <2> QED
    BY <1>b, <2>1, <2>2, <2>4, <2>5, <2>7, <2>8, <2>9, ChainTree
<1>15. ASSUME AnalogRead PROVE TreeInv'
  <2> DEFINE n1 == Node("UNARY", "ARG", TypeOf(Value(1)), <<Value(1)>>)
             n2 == Node("CALL", "analogRead", functionCell.analogRead, <<Top>>)
             S == {n1, n2}
             nodes == <<n1, n2>>
             item == Item("expr", <<Top + 1>>)
  <2>1. /\ Parsing /\ Holds(1, "expr") /\ Create(nodes) /\ Reduce(1, item)
        /\ program' = program /\ phase' = phase
    BY <1>15 DEF AnalogRead, ToExpr
  <2>2. nodes \in Seq(S) /\ Len(nodes) = 2 /\ nodes[1] = n1 /\ nodes[2] = n2
    OBVIOUS
  <2>3. n1.kids = <<Value(1)>> /\ n2.kids = <<Top>> /\ BodyOf(n1) = {} /\ BodyOf(n2) = {}
    BY DEF Node, BodyOf, Governing, Conditionals
  <2>4. item.nodes = <<Len(ast) + 2>> /\ item.sort = "expr"
    BY <1>0 DEF Item, Top
  <2>5. FromStack(1, n1.kids)
    BY <2>1, <2>3, FewFromStack
  <2> HIDE DEF n1, n2, nodes, S, item
  <2>6. \A q \in 1..Len(nodes) : q = 1 \/ q = 2
    BY <2>2
  <2>7. \A q \in 1..Len(nodes) : BodyOf(nodes[q]) = {}
    BY <2>2, <2>3, <2>6
  <2>8. \A q \in 2..Len(nodes) : nodes[q].kids = <<Len(ast) + q - 1>>
    BY <1>0, <2>2, <2>3, <2>6 DEF Top
  <2>9. Len(nodes) # 0 /\ item.nodes = <<Len(ast) + Len(nodes)>>
    BY <2>2, <2>4
  <2> HIDE DEF Parsing
  <2> QED
    BY <1>b, <2>1, <2>2, <2>4, <2>5, <2>7, <2>8, <2>9, ChainTree
<1> QED
  BY <1>1, <1>2, <1>3, <1>4, <1>6, <1>7, <1>9, <1>11, <1>12, <1>13, <1>14, <1>15
     DEF ParseExpr

LEMMA StmChainTree ==
  ASSUME TypeInv, TreeInv, Parsing, NEW k \in 0..Len(stack), NEW S, NEW nodes \in Seq(S),
         Len(nodes) # 0, ToStm(k, nodes), nodes[Len(nodes)].kind \in StmKinds,
         FromStack(k, nodes[1].kids),
         \A q \in 2..Len(nodes) : nodes[q].kids = <<Len(ast) + q - 1>>,
         \A q \in 1..Len(nodes) : BodyOf(nodes[q]) = {}
  PROVE  TreeInv'
<1> DEFINE item == Item("stm", <<Len(ast) + Len(nodes)>>)
<1>1. /\ Create(nodes) /\ Reduce(k, item) /\ program' = program /\ phase' = phase
      /\ item.nodes = <<Len(ast) + Len(nodes)>>
  BY DEF ToStm, Item
<1> HIDE DEF item, Parsing
<1> QED
  BY <1>1, ChainTree

\* The productions of stm and one_case.
LEMMA ParseStmTree ==
  ASSUME TypeInv, TreeInv, ParseStm, phase' # "aborted"
  PROVE  TreeInv'
<1>0. Len(ast) \in Nat /\ Len(stack) \in Nat /\ DOMAIN stack = 1..Len(stack)
  BY Places
<1>a. ASSUME NEW k \in Nat \ {0}, NEW sort, Holds(k, sort) PROVE k \in 0..Len(stack)
  BY <1>0, <1>a DEF Holds
<1>b. ASSUME NEW k \in Nat \ {0}, NEW sort, sort # "expr", Holds(k, sort), NEW l \in Nat, k <= l
      PROVE  TakenStatement(l, Value(k))
  BY <1>b, HeldTaken
<1>1. ASSUME NEW op, Increment(op) PROVE TreeInv'
  <2> DEFINE n1 == Node("UNARY", op, TypeOf(Value(1)), <<Value(1)>>)
             n2 == Node("EXPR", "EXPR", NullType, <<Top>>)
             S == {n1, n2}
             nodes == <<n1, n2>>
  <2>1. Parsing /\ Holds(1, "expr") /\ ToStm(1, nodes) /\ nodes \in Seq(S)
    BY <1>1 DEF Increment
  <2>2. Len(nodes) = 2 /\ nodes[1] = n1 /\ nodes[2] = n2
    OBVIOUS
  <2>3. /\ n1.kids = <<Value(1)>> /\ n2.kids = <<Top>> /\ n2.kind \in StmKinds
        /\ BodyOf(n1) = {} /\ BodyOf(n2) = {}
    BY DEF Node, BodyOf, Governing, Conditionals, StmKinds
  <2> HIDE DEF n1, n2, S, nodes
  <2>4. FromStack(1, nodes[1].kids)
    BY <2>1, <2>2, <2>3, FewFromStack
  <2>5. \A q \in 1..Len(nodes) : q = 1 \/ q = 2
    BY <2>2
  <2>6. /\ \A q \in 1..Len(nodes) : BodyOf(nodes[q]) = {}
        /\ \A q \in 2..Len(nodes) : nodes[q].kids = <<Len(ast) + q - 1>>
    BY <1>0, <2>2, <2>3, <2>5 DEF Top
  <2>7. 1 \in 0..Len(stack) /\ Len(nodes) # 0 /\ nodes[Len(nodes)].kind \in StmKinds
    BY <1>a, <2>1, <2>2, <2>3
  <2> HIDE DEF Parsing
  <2> QED
    BY <2>1, <2>4, <2>5, <2>6, <2>7, StmChainTree
<1>2. ASSUME NEW p, OneArgProcedure(p) PROVE TreeInv'
  <2> DEFINE n1 == Node("UNARY", "ARG", TypeOf(Value(1)), <<Value(1)>>)
             n2 == Node("CALL", p, ProcedureCell, <<Top>>)
             n3 == Node("EXPR", "EXPR", NullType, <<Top + 1>>)
             S == {n1, n2, n3}
             nodes == <<n1, n2, n3>>
  <2>1. Parsing /\ Holds(1, "expr") /\ ToStm(1, nodes) /\ nodes \in Seq(S)
    BY <1>2 DEF OneArgProcedure
  <2>2. Len(nodes) = 3 /\ nodes[1] = n1 /\ nodes[2] = n2 /\ nodes[3] = n3
    OBVIOUS
  <2>3. /\ n1.kids = <<Value(1)>> /\ n2.kids = <<Top>> /\ n3.kids = <<Top + 1>>
        /\ n3.kind \in StmKinds /\ BodyOf(n1) = {} /\ BodyOf(n2) = {} /\ BodyOf(n3) = {}
    BY DEF Node, BodyOf, Governing, Conditionals, StmKinds
  <2> HIDE DEF n1, n2, n3, S, nodes
  <2>4. FromStack(1, nodes[1].kids)
    BY <2>1, <2>2, <2>3, FewFromStack
  <2>5. \A q \in 1..Len(nodes) : q = 1 \/ q = 2 \/ q = 3
    BY <2>2
  <2>6. /\ \A q \in 1..Len(nodes) : BodyOf(nodes[q]) = {}
        /\ \A q \in 2..Len(nodes) : nodes[q].kids = <<Len(ast) + q - 1>>
    BY <1>0, <2>2, <2>3, <2>5 DEF Top
  <2>7. 1 \in 0..Len(stack) /\ Len(nodes) # 0 /\ nodes[Len(nodes)].kind \in StmKinds
    BY <1>a, <2>1, <2>2, <2>3
  <2> HIDE DEF Parsing
  <2> QED
    BY <2>1, <2>4, <2>5, <2>6, <2>7, StmChainTree
<1>3. ASSUME NEW p, TwoArgProcedure(p) PROVE TreeInv'
  <2> DEFINE n1 == Node("UNARY", "ARG", TypeOf(Value(2)), <<Value(2)>>)
             n2 == Node("UNARY", "ARG", TypeOf(Value(1)), <<Value(1)>>)
             n3 == Node("CALL", p, ProcedureCell, <<Top, Top + 1>>)
             n4 == Node("EXPR", "EXPR", NullType, <<Top + 2>>)
             S == {n1, n2, n3, n4}
             nodes == <<n1, n2, n3, n4>>
             item == Item("stm", <<Len(ast) + Len(nodes)>>)
  <2>1. /\ Parsing /\ Holds(1, "expr") /\ Holds(2, "expr") /\ nodes \in Seq(S)
        /\ Create(nodes) /\ Reduce(2, item) /\ program' = program /\ phase' = phase
        /\ item.nodes = <<Len(ast) + Len(nodes)>>
    BY <1>3 DEF TwoArgProcedure, ToStm, Item
  <2>2. /\ Len(nodes) = 4 /\ nodes[1] = n1 /\ nodes[2] = n2 /\ nodes[3] = n3 /\ nodes[4] = n4
    OBVIOUS
  <2>3. /\ n1.kids = <<Value(2)>> /\ n2.kids = <<Value(1)>> /\ n3.kids = <<Top, Top + 1>>
        /\ n4.kids = <<Top + 2>> /\ n4.kind \in StmKinds
        /\ BodyOf(n1) = {} /\ BodyOf(n2) = {} /\ BodyOf(n3) = {} /\ BodyOf(n4) = {}
    BY DEF Node, BodyOf, Governing, Conditionals, StmKinds
  <2>4. /\ Taken(2, Value(1)) /\ Taken(2, Value(2)) /\ ~Same(Value(1), Value(2))
        /\ Value(1) \in Vars \cup 1..Len(ast) /\ Value(2) \in Vars \cup 1..Len(ast)
    <3>1. 1 \in DOMAIN stack /\ 2 \in DOMAIN stack
      BY <1>0, <2>1 DEF Holds
    <3>2. Value(1) \in Vars \cup 1..Len(ast) /\ Value(2) \in Vars \cup 1..Len(ast)
      BY <3>1, Places DEF Value
    <3> QED
      BY <1>0, <2>1, <3>1, <3>2, HeldTaken
  <2> HIDE DEF n1, n2, n3, n4, S, nodes, item
  <2>5. \A q \in 1..Len(nodes) : q = 1 \/ q = 2 \/ q = 3 \/ q = 4
    BY <2>2
  <2>6. \A q \in 1..Len(nodes) : BodyOf(nodes[q]) = {}
    BY <2>2, <2>3, <2>5
  <2>7. ASSUME NEW q \in 1..Len(nodes), NEW i \in DOMAIN nodes[q].kids
        PROVE  \/ q = 1 /\ i = 1 /\ nodes[q].kids[i] = Value(2)
               \/ q = 2 /\ i = 1 /\ nodes[q].kids[i] = Value(1)
               \/ q = 3 /\ i = 1 /\ nodes[q].kids[i] = Len(ast) + 1
               \/ q = 3 /\ i = 2 /\ nodes[q].kids[i] = Len(ast) + 2
               \/ q = 4 /\ i = 1 /\ nodes[q].kids[i] = Len(ast) + 3
    BY <1>0, <2>2, <2>3, <2>5 DEF Top
  <2>8. \A q \in 1..Len(nodes) : \A i \in DOMAIN nodes[q].kids :
            \/ nodes[q].kids[i] \in Vars
            \/ Taken(2, nodes[q].kids[i])
            \/ nodes[q].kids[i] \in (Len(ast) + 1)..(Len(ast) + q - 1)
    BY <1>0, <2>4, <2>7
  <2>9. ASSUME NEW m \in 1..Len(nodes), NEW q \in 1..Len(nodes), NEW i \in DOMAIN nodes[m].kids,
               NEW j \in DOMAIN nodes[q].kids, Same(nodes[m].kids[i], nodes[q].kids[j])
        PROVE  m = q /\ i = j
    <3> DEFINE d == nodes[m].kids[i]
               e == nodes[q].kids[j]
    <3>1. \/ m = 1 /\ i = 1 /\ d = Value(2)
          \/ m = 2 /\ i = 1 /\ d = Value(1)
          \/ m = 3 /\ i = 1 /\ d = Len(ast) + 1
          \/ m = 3 /\ i = 2 /\ d = Len(ast) + 2
          \/ m = 4 /\ i = 1 /\ d = Len(ast) + 3
      BY <2>7
    <3>2. \/ q = 1 /\ j = 1 /\ e = Value(2)
          \/ q = 2 /\ j = 1 /\ e = Value(1)
          \/ q = 3 /\ j = 1 /\ e = Len(ast) + 1
          \/ q = 3 /\ j = 2 /\ e = Len(ast) + 2
          \/ q = 4 /\ j = 1 /\ e = Len(ast) + 3
      BY <2>7
    <3>3. d = e /\ d \notin Vars
      BY <2>9 DEF Same
    <3> HIDE DEF d, e
    <3> QED
      BY <1>0, <2>4, <3>1, <3>2, <3>3 DEF Same
  <2>10. 2 \in 0..Len(stack) /\ Len(nodes) # 0 /\ nodes[Len(nodes)].kind \in StmKinds
    BY <1>a, <2>1, <2>2, <2>3
  <2> HIDE DEF Parsing
  <2> QED
    BY <2>1, <2>6, <2>8, <2>9, <2>10, NodesTree
<1>4. ASSUME NEW p PROVE ~CastOfNull(p) /\ ~UnregisteredProcedure
  BY DEF CastOfNull, UnregisteredProcedure, Abort
<1>5. ASSUME NEW n \in 1..MaxArgs, UserCallStm(n) PROVE TreeInv'
  <2> DEFINE n1 == Node("CALL", "user", NullType, Listed(n))
             n2 == Node("EXPR", "EXPR", NullType, <<Top>>)
             S == {n1, n2}
             nodes == <<n1, n2>>
  <2>1. Parsing /\ HoldsList(n) /\ ToStm(n, nodes) /\ nodes \in Seq(S)
    BY <1>5 DEF UserCallStm
  <2>2. Len(nodes) = 2 /\ nodes[1] = n1 /\ nodes[2] = n2
    OBVIOUS
  <2>3. /\ n1.kids = Listed(n) /\ n2.kids = <<Top>> /\ n2.kind \in StmKinds
        /\ BodyOf(n1) = {} /\ BodyOf(n2) = {}
    BY DEF Node, BodyOf, Governing, Conditionals, StmKinds
  <2> HIDE DEF n1, n2, S, nodes
  <2>4. n \in Nat /\ n \in 0..Len(stack)
    BY <2>1, ListedValues, BoundAssumption
  <2>5. FromStack(n, nodes[1].kids)
    BY <2>1, <2>2, <2>3, <2>4, ListedFromStack
  <2>6. \A q \in 1..Len(nodes) : q = 1 \/ q = 2
    BY <2>2
  <2>7. /\ \A q \in 1..Len(nodes) : BodyOf(nodes[q]) = {}
        /\ \A q \in 2..Len(nodes) : nodes[q].kids = <<Len(ast) + q - 1>>
    BY <1>0, <2>2, <2>3, <2>6 DEF Top
  <2>8. Len(nodes) # 0 /\ nodes[Len(nodes)].kind \in StmKinds
    BY <2>2, <2>3
  <2> HIDE DEF Parsing
  <2> QED
    BY <2>1, <2>4, <2>5, <2>6, <2>7, <2>8, StmChainTree
<1>6. ASSUME NEW n \in 1..MaxArgs, Switch(n) PROVE TreeInv'
  <2> DEFINE kids == <<Value(n + 1)>> \o Listed(n)
             node == Node("SWITCH", "SWITCH", NullType, kids)
  <2>1. /\ Parsing /\ Holds(n + 1, "expr") /\ ToStm(n + 1, <<node>>)
        /\ \A i \in 1..n : Holds(i, "case")
    BY <1>6 DEF Switch
  <2>2. node.kids = kids /\ node.kind \in StmKinds /\ BodyOf(node) = {}
    BY DEF Node, StmKinds, BodyOf, Governing, Conditionals
  <2>3. n \in Nat \ {0} /\ n + 1 \in Nat \ {0}
    BY BoundAssumption
  <2>4. DOMAIN kids = 1..(n + 1) /\ \A i \in 1..(n + 1) : kids[i] = Value(n + 2 - i)
    BY <2>3 DEF Listed
  <2> HIDE DEF kids, node
  <2>5. ASSUME NEW i \in 1..(n + 1)
        PROVE  /\ n + 2 - i \in 1..Len(stack) /\ Taken(n + 1, Value(n + 2 - i))
               /\ \A l \in 1..Len(stack) : Same(Value(n + 2 - i), Value(l)) => n + 2 - i = l
    <3>1. /\ n + 2 - i \in Nat \ {0} /\ n + 2 - i <= n + 1
          /\ n + 2 - i = n + 1 \/ n + 2 - i \in 1..n
      BY <2>3
    <3>2. \E sort : Holds(n + 2 - i, sort)
      BY <2>1, <3>1
    <3> QED
      BY <2>3, <3>1, <3>2, HeldTaken
  <2>6. ASSUME NEW i \in 1..(n + 1), NEW j \in 1..(n + 1),
               Same(Value(n + 2 - i), Value(n + 2 - j))
        PROVE  i = j
    <3>1. n + 2 - i = n + 2 - j
      BY <2>5, <2>6
    <3> QED
      BY <2>3, <3>1
  <2>7. \A i \in DOMAIN node.kids : Taken(n + 1, node.kids[i])
    BY <2>2, <2>4, <2>5
  <2>8. \A i, j \in DOMAIN node.kids : Same(node.kids[i], node.kids[j]) => i = j
    BY <2>2, <2>4, <2>6
  <2>9. FromStack(n + 1, node.kids)
    BY <2>7, <2>8 DEF FromStack
  <2> HIDE DEF Parsing
  <2> QED
    BY <1>a, <2>1, <2>2, <2>3, <2>9, StmTree
<1>7. ASSUME CaseStm PROVE TreeInv'
  <2> DEFINE node == Node("CASE", "CASE", NullType, <<Value(2), Value(1)>>)
             item == Item("case", <<Top>>)
  <2>1. /\ Parsing /\ Holds(1, "stm") /\ Holds(2, "expr") /\ Create(<<node>>)
        /\ Reduce(2, item) /\ program' = program /\ phase' = phase
    BY <1>7 DEF CaseStm
  <2>2. /\ node.kind \in StmKinds /\ BodyOf(node) = {} /\ node.kids = <<Value(2), Value(1)>>
        /\ item.nodes = <<Top>>
    BY DEF Item, Node, StmKinds, BodyOf, Governing, Conditionals
  <2> HIDE DEF node, item
  <2>3. FromStack(2, node.kids)
    BY <2>1, <2>2, FewFromStack
  <2> HIDE DEF Parsing
  <2> QED
    BY <1>a, <2>1, <2>2, <2>3, NodeTree
<1>8. ASSUME NEW kind \in {"IF", "WHILE", "FOREACH"}, Governed(kind) PROVE TreeInv'
  <2> DEFINE node == Node(kind, kind, NullType, <<Value(2), Value(1)>>)
  <2>1. Parsing /\ Holds(1, "stm") /\ Holds(2, "expr") /\ ToStm(2, <<node>>)
    BY <1>8 DEF Governed
  <2>2. /\ node.kids = <<Value(2), Value(1)>> /\ node.kind \in StmKinds
        /\ BodyOf(node) \subseteq {2}
    BY DEF Node, StmKinds, BodyOf, Governing, Conditionals
  <2> HIDE DEF node
  <2>3. FromStack(2, node.kids) /\ TakenStatement(2, Value(1))
    BY <1>b, <2>1, <2>2, FewFromStack
  <2> HIDE DEF Parsing
  <2> QED
    BY <1>a, <2>1, <2>2, <2>3, StmTree
<1>9. ASSUME IfElse PROVE TreeInv'
  <2> DEFINE node == Node("IF", "ELSE", NullType, <<Value(3), Value(2), Value(1)>>)
  <2>1. /\ Parsing /\ Holds(1, "stm") /\ Holds(2, "stm") /\ Holds(3, "expr")
        /\ ToStm(3, <<node>>)
    BY <1>9 DEF IfElse
  <2>2. /\ node.kids = <<Value(3), Value(2), Value(1)>> /\ node.kind \in StmKinds
        /\ BodyOf(node) \subseteq {2, 3}
    BY DEF Node, StmKinds, BodyOf, Governing, Conditionals
  <2> HIDE DEF node
  <2>3. FromStack(3, node.kids) /\ TakenStatement(3, Value(1)) /\ TakenStatement(3, Value(2))
    BY <1>b, <2>1, <2>2, FewFromStack
  <2> HIDE DEF Parsing
  <2> QED
    BY <1>a, <2>1, <2>2, <2>3, StmTree
<1>10. ASSUME DoWhile PROVE TreeInv'
  <2> DEFINE node == Node("DO", "DO", NullType, <<Value(1), Value(2)>>)
  <2>1. Parsing /\ Holds(1, "expr") /\ Holds(2, "stm") /\ ToStm(2, <<node>>)
    BY <1>10 DEF DoWhile
  <2>2. /\ node.kids = <<Value(1), Value(2)>> /\ node.kind \in StmKinds
        /\ BodyOf(node) \subseteq {2}
    BY DEF Node, StmKinds, BodyOf, Governing, Conditionals
  <2> HIDE DEF node
  <2>3. FromStack(2, node.kids) /\ TakenStatement(2, Value(2))
    BY <1>b, <2>1, <2>2, FewFromStack
  <2> HIDE DEF Parsing
  <2> QED
    BY <1>a, <2>1, <2>2, <2>3, StmTree
<1>11. ASSUME Loop PROVE TreeInv'
  <2> DEFINE node == Node("LOOP", "LOOP", NullType, <<Value(1)>>)
  <2>1. Parsing /\ Holds(1, "stm") /\ ToStm(1, <<node>>)
    BY <1>11 DEF Loop
  <2>2. node.kids = <<Value(1)>> /\ node.kind \in StmKinds /\ BodyOf(node) \subseteq {1}
    BY DEF Node, StmKinds, BodyOf
  <2> HIDE DEF node
  <2>3. FromStack(1, node.kids)
    <3>1. 1 \in 1..1
      OBVIOUS
    <3>2. FromStack(1, <<Value(1)>>)
      BY <2>1, <3>1, FewFromStack
    <3> QED
      BY <2>2, <3>2
  <2>4. TakenStatement(1, Value(1))
    BY <1>b, <2>1
  <2> HIDE DEF Parsing
  <2> QED
    BY <1>a, <2>1, <2>2, <2>3, <2>4, StmTree
<1>12. ASSUME Block PROVE TreeInv'
  <2> DEFINE node == Node("SEQ", "SEQ", NullType, stack[1].nodes)
  <2>1. Parsing /\ Holds(1, "list") /\ ToStm(1, <<node>>)
    BY <1>12 DEF Block
  <2>2. node.kids = stack[1].nodes /\ node.kind \in StmKinds /\ BodyOf(node) \subseteq DOMAIN node.kids
    BY DEF Node, StmKinds, BodyOf
  <2> HIDE DEF node
  <2>3. 1 \in DOMAIN stack /\ 1 \in 1..1 /\ stack[1].sort = "list"
    BY <1>0, <2>1 DEF Holds
  <2>4. FromStack(1, node.kids)
    BY <2>2, <2>3 DEF FromStack, Taken, TreeInv, ValuesDiffer
  <2>5. \A i \in BodyOf(node) : TakenStatement(1, node.kids[i])
    BY <2>2, <2>3 DEF TakenStatement
  <2> HIDE DEF Parsing
  <2> QED
    BY <1>a, <2>1, <2>2, <2>4, <2>5, StmTree
<1>13. ASSUME Break PROVE TreeInv'
  <2> DEFINE node == Node("BREAK", "BREAK", NullType, <<>>)
  <2>1. Parsing /\ ToStm(0, <<node>>) /\ 0 \in 0..Len(stack)
    BY <1>0, <1>13 DEF Break
  <2>2. node.kids = <<>> /\ node.kind \in StmKinds /\ BodyOf(node) = {}
    BY DEF Node, StmKinds, BodyOf, Governing, Conditionals
  <2> HIDE DEF node
  <2>3. FromStack(0, node.kids)
    BY <2>2, FewFromStack
  <2> HIDE DEF Parsing
  <2> QED
    BY <2>1, <2>2, <2>3, StmTree
<1>14. ASSUME NEW op, Assignment(op) PROVE TreeInv'
  <2> DEFINE node == Node("AFF", op, NullType, <<Value(2), Value(1)>>)
  <2>1. Parsing /\ Holds(1, "expr") /\ Holds(2, "expr") /\ ToStm(2, <<node>>)
    BY <1>14 DEF Assignment
  <2>2. node.kids = <<Value(2), Value(1)>> /\ node.kind \in StmKinds /\ BodyOf(node) = {}
    BY DEF Node, StmKinds, BodyOf, Governing, Conditionals
  <2> HIDE DEF node
  <2>3. FromStack(2, node.kids)
    BY <2>1, <2>2, FewFromStack
  <2> HIDE DEF Parsing
  <2> QED
    BY <1>a, <2>1, <2>2, <2>3, StmTree
<1>15. ASSUME Return PROVE TreeInv'
  <2> DEFINE node == Node("RETURN", "RETURN", NullType, <<Value(1)>>)
  <2>1. Parsing /\ Holds(1, "expr") /\ ToStm(1, <<node>>)
    BY <1>15 DEF Return
  <2>2. node.kids = <<Value(1)>> /\ node.kind \in StmKinds /\ BodyOf(node) = {}
    BY DEF Node, StmKinds, BodyOf, Governing, Conditionals
  <2> HIDE DEF node
  <2>3. FromStack(1, node.kids)
    <3>1. 1 \in 1..1
      OBVIOUS
    <3>2. FromStack(1, <<Value(1)>>)
      BY <2>1, <3>1, FewFromStack
    <3> QED
      BY <2>2, <3>2
  <2> HIDE DEF Parsing
  <2> QED
    BY <1>a, <2>1, <2>2, <2>3, StmTree
<1>16. ASSUME FirstOfList PROVE TreeInv'
  <2> DEFINE item == Item("list", <<Value(1)>>)
  <2>1. /\ Parsing /\ Holds(1, "stm") /\ Reduce(1, item) /\ ast' = ast
        /\ program' = program /\ phase' = phase
    BY <1>16 DEF FirstOfList
  <2>2. DOMAIN item.nodes = {1} /\ item.nodes[1] = Value(1)
    BY DEF Item
  <2> HIDE DEF item
  <2>3. AstGrows /\ (Len(ast) + 1)..Len(ast') = {}
    BY <1>0, <2>1, Places DEF AstGrows
  <2>4. 1 \in 0..Len(stack) /\ Taken(1, Value(1)) /\ TakenStatement(1, Value(1))
    BY <1>a, <1>b, <2>1, HeldTaken
  <2> HIDE DEF Parsing
  <2>5. StackPops(1) /\ stack'[1] = item
    BY <2>1, <2>4, Popping
  <2> QED
    BY <2>1, <2>2, <2>3, <2>4, <2>5, TreeStep
<1>17. ASSUME NextOfList PROVE TreeInv'
  <2> DEFINE nodes == stack[2].nodes
             s == Value(1)
             all == Append(nodes, s)
             item == Item("list", all)
  <2>1. /\ Parsing /\ Holds(1, "stm") /\ Holds(2, "list") /\ Reduce(2, item) /\ ast' = ast
        /\ program' = program /\ phase' = phase
    BY <1>17 DEF NextOfList
  <2>2. item.nodes = all
    BY DEF Item
  <2>3. 1 \in DOMAIN stack /\ 2 \in DOMAIN stack /\ stack[1].sort = "stm" /\ stack[2].sort = "list"
    BY <1>0, <2>1 DEF Holds
  <2>4. nodes \in Seq(1..Len(ast)) /\ s \in 1..Len(ast)
    <3>1. nodes \in Seq(DOMAIN ast) /\ stack[1].nodes \in Seq(DOMAIN ast)
      BY <2>3 DEF TypeInv, Shape
    <3>2. 1 \in DOMAIN stack[1].nodes
      BY <2>3, Places
    <3>3. s \in DOMAIN ast
      BY <3>1, <3>2, ElementOfSeq DEF Value
    <3> QED
      BY <3>1, <3>3, Places
  <2>5. AstGrows /\ (Len(ast) + 1)..Len(ast') = {}
    BY <1>0, <2>1, Places DEF AstGrows
  <2>6. 2 \in 0..Len(stack) /\ Taken(2, s) /\ TakenStatement(2, s)
    BY <1>a, <1>b, <2>1, HeldTaken
  <2>7. 2 \in 1..2 /\ 1 \in DOMAIN stack[1].nodes
    BY <2>3, Places
  <2>8. ASSUME NEW i \in DOMAIN nodes
        PROVE  Taken(2, nodes[i]) /\ TakenStatement(2, nodes[i]) /\ ~Same(nodes[i], s)
    <3>1. ~Same(nodes[i], s)
      <4>1. Same(stack[2].nodes[i], stack[1].nodes[1]) => 2 = 1
        BY <2>3, <2>7, <2>8 DEF TreeInv, ValuesDiffer
      <4> QED
        BY <4>1 DEF Value
    <3> QED
      BY <2>3, <2>7, <2>8, <3>1 DEF Taken, TakenStatement
  <2>9. \A i, j \in DOMAIN nodes : Same(nodes[i], nodes[j]) => i = j
    BY <2>3 DEF TreeInv, ValuesDiffer
  <2> HIDE DEF nodes, s
  <2>10. /\ DOMAIN nodes = 1..Len(nodes) /\ Len(nodes) \in Nat /\ DOMAIN all = 1..(Len(nodes) + 1)
         /\ \A i \in DOMAIN all :
              \/ i \in DOMAIN nodes /\ all[i] = nodes[i]
              \/ i = Len(nodes) + 1 /\ all[i] = s
    BY <2>4
  <2> HIDE DEF all, item, Parsing
  <2>11. StackPops(2) /\ stack'[1] = item
    BY <2>1, <2>6, Popping
  <2>12. \A j \in DOMAIN all : Taken(2, all[j]) /\ TakenStatement(2, all[j])
    BY <2>6, <2>8, <2>10
  <2>13. \A i, j \in DOMAIN all : Same(all[i], all[j]) => i = j
    BY <2>8, <2>9, <2>10 DEF Same
  <2> QED
    BY <2>1, <2>2, <2>5, <2>6, <2>11, <2>12, <2>13, TreeStep
<1> QED
  BY <1>1, <1>2, <1>3, <1>4, <1>5, <1>6, <1>7, <1>8, <1>9, <1>10, <1>11, <1>12, <1>13,
     <1>14, <1>15, <1>16, <1>17 DEF ParseStm

\* A step that creates nothing keeps the forest.
LEMMA SameTree ==
  ASSUME TreeInv, DOMAIN ast' = DOMAIN ast, stack' = stack \/ stack' = <<>>,
         \A n \in DOMAIN ast : ast'[n].kind = ast[n].kind /\ ast'[n].kids = ast[n].kids,
         ProgramLoose'
  PROVE  TreeInv'
<1>1. KidsOlder' /\ OneParent'
  BY DEF TreeInv, KidsOlder, OneParent
<1>2. ValuesLoose' /\ ValuesDiffer'
  <2>1. CASE stack' = stack
    BY <2>1 DEF TreeInv, ValuesLoose, ValuesDiffer
  <2>2. CASE stack' = <<>>
    BY <2>2 DEF ValuesLoose, ValuesDiffer
  <2> QED
    BY <2>1, <2>2
<1>3. \A e : IsStatement(ast, e) => IsStatement(ast', e)
  BY DEF IsStatement
<1>4. \A n \in DOMAIN ast : BodyOf(ast'[n]) = BodyOf(ast[n])
  BY DEF BodyOf
<1>5. BodiesAreStatements'
  <2>1. ASSUME NEW k \in DOMAIN stack', stack'[k].sort # "expr", NEW j \in DOMAIN stack'[k].nodes
        PROVE  IsStatement(ast', stack'[k].nodes[j])
    <3>1. stack' = stack
      BY <2>1
    <3> QED
      BY <1>3, <2>1, <3>1 DEF TreeInv, BodiesAreStatements
  <2>2. ASSUME NEW n \in DOMAIN ast', NEW i \in BodyOf(ast'[n])
        PROVE  IsStatement(ast', ast'[n].kids[i])
    BY <1>3, <1>4, <2>2 DEF TreeInv, BodiesAreStatements
  <2> QED
    BY <2>1, <2>2 DEF BodiesAreStatements
<1> QED
  BY <1>1, <1>2, <1>5 DEF TreeInv

LEMMA AbortTree == Abort => TreeInv'
<1> SUFFICES ASSUME Abort PROVE TreeInv'
  OBVIOUS
<1>1. ast' = <<>> /\ stack' = <<>> /\ program' = <<>>
  BY DEF Abort
<1> QED
  BY <1>1 DEF TreeInv, KidsOlder, OneParent, ValuesLoose, ValuesDiffer, BodiesAreStatements,
     ProgramLoose

\* The list between "begin" and "end" becomes the program.
LEMMA EndTree ==
  ASSUME TypeInv, TreeInv, End
  PROVE  TreeInv'
<1>1. /\ 1 \in DOMAIN stack /\ stack[1].sort = "list" /\ program' = stack[1].nodes
      /\ stack' = <<>> /\ phase' = "generating" /\ ast' = ast
  BY Places DEF End, Holds
<1>2. \A j \in DOMAIN program' : IsStatement(ast, program'[j])
  BY <1>1 DEF TreeInv, BodiesAreStatements
<1>3. \A j \in DOMAIN program' : program'[j] \notin Vars
  <2>1. \A j \in DOMAIN program' : program'[j] \in Int
    BY <1>2, Places DEF IsStatement
  <2> QED
    BY <2>1, VarsAssumption
<1>4. \A i, j \in DOMAIN program' : program'[i] = program'[j] => i = j
  BY <1>1, <1>3 DEF TreeInv, ValuesDiffer, Same
<1>5. \A j \in DOMAIN program', n \in DOMAIN ast : \A i \in DOMAIN ast[n].kids :
        program'[j] # ast[n].kids[i]
  BY <1>1, <1>3 DEF TreeInv, ValuesLoose, Same
<1>6. ProgramLoose'
  BY <1>1, <1>2, <1>4, <1>5 DEF ProgramLoose
<1> QED
  BY <1>1, <1>6, SameTree

LEMMA NextTree ==
  ASSUME TypeInv, DeclInv, DeclInv', TreeInv, Next
  PROVE  TreeInv'
<1>1. CASE Abort
  BY <1>1, AbortTree
<1>2. CASE ParseExpr \/ ParseStm
  <2>1. phase' = "aborted" => Abort
    BY <1>2 DEF ParseExpr, Parsing, ConstantExpression, LeftPart, UnknownVariable,
       IndexedLeftPart, AliasBinary, Comparison, Unary, UserCall, Aggregate, Read,
       DigitalRead, AnalogRead, ToExpr, ParseStm, Increment, Assignment, OneArgProcedure,
       TwoArgProcedure, CastOfNull, UnregisteredProcedure, UserCallStm, Switch, CaseStm,
       Governed, IfElse, DoWhile, Loop, Break, Return, Block, FirstOfList, NextOfList, ToStm
  <2> QED
    BY <1>1, <1>2, <2>1, ParseExprTree, ParseStmTree
<1>3. CASE Define \/ Check
  <2>1. phase' = "aborted" => Abort
    BY <1>3 DEF Define, VarDefinition, BeginBlock, EndBlock, Begin, End, SyntaxError,
       Check, Visiting, CheckAFF, CheckCondition, CheckConditionFails, CheckInside, CheckNothing
  <2>2. End \/ Abort \/ program' = program
    BY <1>3 DEF Define, VarDefinition, BeginBlock, EndBlock, Begin, SyntaxError,
       Check, CheckAFF, CheckCondition, CheckConditionFails, CheckInside, CheckNothing
  <2>3. ASSUME ~Abort, ~End PROVE TreeInv'
    <3>1. Retyped
      BY <1>3, <2>1, <2>3, DefineRetypes, CheckRetypes
    <3>2. program' = <<>>
      BY <2>2, <2>3, FrontEndPhases DEF TreeInv, ProgramLoose
    <3>3. ProgramLoose'
      BY <3>2 DEF ProgramLoose
    <3> QED
      BY <3>1, <3>3, SameTree DEF Retyped
  <2> QED
    BY <1>1, <2>3, EndTree
<1> QED
  BY <1>2, <1>3 DEF Next

LEMMA GenerateTree ==
  ASSUME TypeInv, TreeInv, Generate
  PROVE  TreeInv'
<1>1. CASE Stays
  <2>1. UNCHANGED <<phase, ast, stack, program>>
    BY <1>1 DEF Stays, vars
  <2> QED
    BY <2>1 DEF TreeInv, KidsOlder, OneParent, ValuesLoose, ValuesDiffer, BodiesAreStatements,
       ProgramLoose
<1>2. CASE Abort
  BY <1>2, AbortTree
<1>3. CASE /\ phase = "generating" /\ phase' \in {"generating", "done"}
           /\ program' = program \/ (program # <<>> /\ program' = Tail(program))
           /\ UNCHANGED <<cells, Environment, ast, stack, Checker>>
  <2>1. ASSUME NEW j \in DOMAIN program'
        PROVE  \/ program' = program
               \/ j + 1 \in DOMAIN program /\ program'[j] = program[j + 1]
    <3>1. program \in Seq(DOMAIN ast)
      BY DEF TypeInv, TypeOK
    <3> DEFINE s == program
    <3>2. CASE s # <<>> /\ program' = Tail(s)
      <4> HIDE DEF s
      <4>1. s \in Seq(DOMAIN ast)
        BY <3>1 DEF s
      <4>2. Len(s) \in Nat /\ DOMAIN s = 1..Len(s)
        BY <4>1, LenProperties
      <4>3. /\ Tail(s) \in Seq(DOMAIN ast) /\ Len(Tail(s)) = Len(s) - 1
            /\ \A i \in 1..(Len(s) - 1) : Tail(s)[i] = s[i + 1]
        BY <3>2, <4>1, HeadTailProperties
      <4>4. j \in 1..(Len(s) - 1)
        BY <2>1, <3>2, <4>3, LenProperties
      <4>5. j + 1 \in DOMAIN s /\ program'[j] = s[j + 1]
        BY <3>2, <4>2, <4>3, <4>4
      <4> QED
        BY <4>5 DEF s
    <3> QED
      BY <1>3, <3>2
  <2>2. \A j \in DOMAIN program' : j \in Int
    <3>1. program' \in Seq(DOMAIN ast)
      <4>1. program \in Seq(DOMAIN ast)
        BY DEF TypeInv, TypeOK
      <4> QED
        BY <1>3, <4>1, HeadTailProperties
    <3> QED
      BY <3>1, LenProperties
  <2>3. \A j \in DOMAIN program' : IsStatement(ast, program'[j])
    BY <2>1 DEF TreeInv, ProgramLoose
  <2>4. \A i, j \in DOMAIN program' : program'[i] = program'[j] => i = j
    BY <2>1, <2>2 DEF TreeInv, ProgramLoose
  <2>5. \A j \in DOMAIN program', n \in DOMAIN ast : \A i \in DOMAIN ast[n].kids :
          program'[j] # ast[n].kids[i]
    BY <2>1 DEF TreeInv, ProgramLoose
  <2>6. ProgramLoose'
    BY <1>3, <2>3, <2>4, <2>5 DEF ProgramLoose
  <2> QED
    BY <1>3, <2>6, SameTree
<1> QED
  BY <1>1, <1>2, <1>3, GenerateReads

LEMMA InitTree == GenInit => TreeInv
<1> SUFFICES ASSUME GenInit PROVE TreeInv
  OBVIOUS
<1>1. ast = <<>> /\ stack = <<>> /\ program = <<>>
  BY DEF GenInit, Init
<1> QED
  BY <1>1 DEF TreeInv, KidsOlder, OneParent, ValuesLoose, ValuesDiffer, BodiesAreStatements,
     ProgramLoose

-------------------------------------------------------------------------------
(***************************************************************************)
(* The walk visits a statement once, and writes a label once.              *)
(***************************************************************************)
Closing == {"control", "else", "end if", "end while", "end foreach"}

Cuts == Closing \cup {"end loop"}

\* The visit of the statement is under way.
Opened(t) == t.step \in Closing \cup {"end loop"}

\* It is one of a statement its step is for.
Fits(as, t) ==
  /\ t.step \in Closing =>
       t.node \in DOMAIN as /\ as[t.node].kind \in Governing /\ Len(as[t.node].kids) >= 2
  /\ t.step = "else" \/ (t.step = "end if" /\ t.saved = 1) => Len(as[t.node].kids) >= 3
  /\ t.step = "end loop" => t.node \in DOMAIN as /\ as[t.node].kind = "LOOP"

\* The statements it is still to visit ...
Ahead(as, t) ==
  IF t.step = "code" THEN {t.node}
  ELSE IF t.step = "control" THEN {as[t.node].kids[i] : i \in 2..Len(as[t.node].kids)}
  ELSE IF t.step = "else" THEN {as[t.node].kids[3]}
  ELSE {}
Due(as, t) == {s \in Ahead(as, t) : IsStatement(as, s)}

\* ... and those whose label it is still to write.
HasElse(as, n) == as[n].kind = "IF" /\ as[n].op = "ELSE"
Owes(as, t) ==
  IF t.step = "control"
  THEN {as[t.node].kids[i] : i \in IF HasElse(as, t.node) THEN {2, 3} ELSE {2}}
  ELSE IF t.step = "else" THEN {as[t.node].kids[i] : i \in {2, 3}}
  ELSE IF t.step = "end if" THEN {as[t.node].kids[IF t.saved = 1 THEN 3 ELSE 2]}
  ELSE IF t.step = "end while" THEN {as[t.node].kids[2]}
  ELSE {}

KidOf(as, s, n) == \E i \in DOMAIN as[n].kids : as[n].kids[i] = s

\* F are the statements nothing of which was visited: those the visits ts and the
\* statements of the program lead to, and all that is inside of them.
OnceInv(as, prog, F, ts) ==
  /\ \A p \in DOMAIN ts : Fits(as, ts[p]) /\ Due(as, ts[p]) \subseteq F
  /\ \A j \in DOMAIN prog : prog[j] \in F
  /\ \A n \in F : \A i \in DOMAIN as[n].kids :
       IsStatement(as, as[n].kids[i]) => as[n].kids[i] \in F
  /\ \A p, q \in DOMAIN ts : p # q => Due(as, ts[p]) \cap Due(as, ts[q]) = {}
  /\ \A p \in DOMAIN ts, j \in DOMAIN prog : prog[j] \notin Due(as, ts[p])
  /\ \A p \in DOMAIN ts : Opened(ts[p]) => ts[p].node \notin F
  /\ \A p, q \in DOMAIN ts :
       Opened(ts[p]) /\ Opened(ts[q]) /\ ts[p].node = ts[q].node => p = q
  /\ \A p \in DOMAIN ts, n \in F : \A s \in Due(as, ts[p]) : ~KidOf(as, s, n)

\* Stm.id, and the labels made of it.
Ident(as, s)        == Cardinality({n \in 1..(s - 1) : as[n].kind \in StmKinds})
LabelOf(as, s)      == <<".L", Ident(as, s)>>
Mention(as, s)      == <<"label", LabelOf(as, s)>>
LoopLabel(as, s)    == <<"label", <<".LOOP_", Ident(as, s)>>>>
EndLoopLabel(as, s) == <<"label", <<".END_LOOP_", Ident(as, s)>>>>

\* The label of s is not written yet.
Unlabelled(as, F, ts, s) ==
  \/ \E n \in F : KidOf(as, s, n)
  \/ \E p \in DOMAIN ts : s \in Owes(as, ts[p])

Looping(t, s) == t.step = "end loop" /\ t.node = s

\* A label stands for a statement, and will not be written again.
Final(as, F, ts, line) ==
  \E s \in DOMAIN as : as[s].kind \in StmKinds /\
    \/ line = Mention(as, s) /\ ~Unlabelled(as, F, ts, s)
    \/ line = LoopLabel(as, s) /\ s \notin F
    \/ line = EndLoopLabel(as, s) /\ s \notin F /\ \A p \in DOMAIN ts : ~Looping(ts[p], s)

Has(tx, line) == \E k \in DOMAIN tx : tx[k] = line

\* The target of a jump is written, or a visit under way owes it.
Aimed(as, ts, tx, line) ==
  \/ \E s \in DOMAIN as : line[2] = LabelOf(as, s) /\
       (Has(tx, Mention(as, s)) \/ \E p \in DOMAIN ts : s \in Owes(as, ts[p]))
  \/ \E s \in DOMAIN as : line[2] = <<".LOOP_", Ident(as, s)>> /\ Has(tx, LoopLabel(as, s))

IsLabel(line) == line[1] = "label"
IsJump(line)  == line[1] \in {"breq", "rjmp", "jmp"}

LabelInv(as, F, ts, tx) ==
  /\ \A k \in DOMAIN tx : IsLabel(tx[k]) => Final(as, F, ts, tx[k])
  /\ \A k, l \in DOMAIN tx : IsLabel(tx[k]) /\ tx[k] = tx[l] => k = l
  /\ \A k \in DOMAIN tx : IsJump(tx[k]) => Aimed(as, ts, tx, tx[k])
  /\ \A p \in DOMAIN ts : ts[p].step = "end loop" => Has(tx, LoopLabel(as, ts[p].node))

\* The inductive invariant for JumpsResolved.
IsText(tx) == tx \in Seq(Range(tx))

JumpInv ==
  /\ IsText(text)
  /\ phase \notin {"generating", "done"} => text = <<>>
  /\ \E F \in SUBSET DOMAIN ast : OnceInv(ast, program, F, todo) /\ LabelInv(ast, F, todo, text)

\* It says what the property says.
LEMMA JumpInvResolves ==
  ASSUME JumpInv, WalkInv
  PROVE  JumpsResolved
<1> SUFFICES ASSUME phase = "done", NEW k \in DOMAIN text, IsJump(text[k])
             PROVE  \E target \in DOMAIN text : Targets(text[k][2]) = {target}
  BY DEF JumpsResolved, IsJump
<1>1. PICK F \in SUBSET DOMAIN ast : LabelInv(ast, F, todo, text)
  BY DEF JumpInv
<1>2. DOMAIN todo = {}
  BY DEF WalkInv, GenTypeOK
<1>3. Aimed(ast, todo, text, text[k])
  BY <1>1 DEF LabelInv
<1>4. PICK l \in DOMAIN text : text[l] = <<"label", text[k][2]>>
  BY <1>2, <1>3 DEF Aimed, Has, Mention, LabelOf, LoopLabel
<1>5. ASSUME NEW m \in DOMAIN text, text[m] = <<"label", text[k][2]>> PROVE m = l
  <2>1. IsLabel(text[m]) /\ text[m] = text[l]
    BY <1>4, <1>5 DEF IsLabel
  <2> QED
    BY <1>1, <2>1 DEF LabelInv
<1>6. Targets(text[k][2]) = {l}
  BY <1>4, <1>5 DEF Targets
<1> QED
  BY <1>6

\* Different statements have different identifiers.
LEMMA IdentifiersGrow ==
  ASSUME TypeInv, NEW s \in DOMAIN ast, NEW r \in DOMAIN ast, ast[s].kind \in StmKinds, s < r
  PROVE  Ident(ast, s) \in Nat /\ Ident(ast, r) \in Nat /\ Ident(ast, s) # Ident(ast, r)
<1> DEFINE A == {n \in 1..(s - 1) : ast[n].kind \in StmKinds}
           B == {n \in 1..(r - 1) : ast[n].kind \in StmKinds}
<1>1. s \in Nat /\ r \in Nat
  BY Places
<1>2. IsFiniteSet(1..(r - 1))
  BY <1>1, FS_Interval
<1>3. B \subseteq 1..(r - 1) /\ A \subseteq B /\ s \in B /\ s \notin A
  <2>1. /\ \A n \in 1..(s - 1) : n \in 1..(r - 1)
        /\ s \in 1..(r - 1) /\ s \notin 1..(s - 1)
    BY <1>1, Places
  <2> QED
    BY <2>1
<1> HIDE DEF A, B
<1>4. IsFiniteSet(B)
  BY <1>2, <1>3, FS_Subset
<1>5. /\ IsFiniteSet(A) /\ Cardinality(A) <= Cardinality(B)
      /\ Cardinality(A) = Cardinality(B) => A = B
  BY <1>3, <1>4, FS_Subset
<1>6. Cardinality(A) # Cardinality(B)
  BY <1>3, <1>5
<1>7. Cardinality(A) \in Nat /\ Cardinality(B) \in Nat
  BY <1>4, <1>5, FS_CardinalityType
<1> QED
  BY <1>6, <1>7 DEF Ident, A, B

LEMMA IdentifiersDiffer ==
  ASSUME TypeInv, NEW s \in DOMAIN ast, NEW r \in DOMAIN ast, ast[s].kind \in StmKinds, ast[r].kind \in StmKinds,
         Ident(ast, s) = Ident(ast, r)
  PROVE  s = r
<1>1. s \in Nat /\ r \in Nat
  BY Places
<1>2. ~(s < r) /\ ~(r < s)
  BY IdentifiersGrow
<1> QED
  BY <1>1, <1>2

\* A statement has one parent, which is not itself.
LEMMA OneParentOf ==
  ASSUME TypeInv, TreeInv, NEW s, IsStatement(ast, s)
  PROVE  /\ \A m, n \in DOMAIN ast : KidOf(ast, s, m) /\ KidOf(ast, s, n) => m = n
         /\ \A n \in DOMAIN ast : KidOf(ast, s, n) => s # n
         /\ s \notin Vars
<1>1. s \in 1..Len(ast) /\ DOMAIN ast = 1..Len(ast) /\ Len(ast) \in Nat
  BY Places DEF IsStatement
<1>2. s \notin Vars
  BY <1>1, VarsAssumption
<1>3. ASSUME NEW m \in DOMAIN ast, NEW n \in DOMAIN ast, KidOf(ast, s, m), KidOf(ast, s, n)
      PROVE  m = n
  BY <1>2, <1>3 DEF KidOf, TreeInv, OneParent, Same
<1>4. ASSUME NEW n \in DOMAIN ast, KidOf(ast, s, n) PROVE s # n
  <2>1. s \in 1..(n - 1)
    BY <1>2, <1>4 DEF KidOf, TreeInv, KidsOlder
  <2>2. n \in Nat
    BY <1>1
  <2> QED
    BY <2>1, <2>2
<1> QED
  BY <1>2, <1>3, <1>4

\* Where the visits of us come from, and where those of new and ts went.
LEMMA SplicedCases ==
  ASSUME NEW us, NEW new, NEW ts, Spliced(us, new, ts), 1 \in DOMAIN ts
  PROVE  /\ \A p \in DOMAIN us :
              \/ p \in DOMAIN new /\ us[p] = new[p]
              \/ /\ p \notin DOMAIN new
                 /\ \E k \in DOMAIN ts : k # 1 /\ us[p] = ts[k] /\ p = (Len(new) + k) - 1
         /\ \A i \in DOMAIN new : i \in DOMAIN us /\ us[i] = new[i]
         /\ \A k \in DOMAIN ts : k # 1 => \E p \in DOMAIN us : us[p] = ts[k]
<1>1. /\ Len(us) \in Nat /\ Len(new) \in Nat /\ Len(ts) \in Nat
      /\ DOMAIN us = 1..Len(us) /\ DOMAIN new = 1..Len(new) /\ DOMAIN ts = 1..Len(ts)
      /\ Len(us) = (Len(new) + Len(ts)) - 1
      /\ \A i \in 1..Len(new) : us[i] = new[i]
      /\ \A k \in 2..Len(ts) : us[(Len(new) + k) - 1] = ts[k]
  BY DEF Spliced
<1>2. ASSUME NEW p \in DOMAIN us, p \notin DOMAIN new
      PROVE  \E k \in DOMAIN ts : k # 1 /\ us[p] = ts[k] /\ p = (Len(new) + k) - 1
  <2> DEFINE k == (p - Len(new)) + 1
  <2>1. k \in 2..Len(ts) /\ p = (Len(new) + k) - 1
    BY <1>1, <1>2
  <2> HIDE DEF k
  <2>2. k \in DOMAIN ts /\ k # 1
    BY <1>1, <2>1
  <2>3. us[p] = ts[k]
    BY <1>1, <2>1
  <2> QED
    BY <2>1, <2>2, <2>3
<1>3. ASSUME NEW k \in DOMAIN ts, k # 1
      PROVE  \E p \in DOMAIN us : us[p] = ts[k]
  <2>1. k \in 2..Len(ts) /\ (Len(new) + k) - 1 \in DOMAIN us
    BY <1>1, <1>3
  <2> QED
    BY <1>1, <2>1
<1>4. \A i \in DOMAIN new : i \in DOMAIN us /\ us[i] = new[i]
  <2>1. \A i \in DOMAIN new : i \in DOMAIN us
    BY <1>1
  <2> QED
    BY <1>1, <2>1
<1> QED
  BY <1>1, <1>2, <1>3, <1>4

\* What a step of the walk does: the visit t is replaced by the visits new, and
\* with it ends that D, at most the statement of t, is not visited yet.
Walks(as, t, D, new) ==
  /\ D \subseteq Due(as, t) /\ D \subseteq {t.node}
  /\ \A i \in DOMAIN new :
       /\ Fits(as, new[i])
       /\ \A s \in Due(as, new[i]) : (s \in Due(as, t) /\ s \notin D) \/ \E n \in D : KidOf(as, s, n)
       /\ Opened(new[i]) => new[i].node \in D \/ (Opened(t) /\ new[i].node = t.node)
  /\ \A i, j \in DOMAIN new : i # j => Due(as, new[i]) \cap Due(as, new[j]) = {}
  /\ \A i, j \in DOMAIN new : Opened(new[i]) /\ Opened(new[j]) => i = j

LEMMA OnceStep ==
  ASSUME TypeInv, TreeInv, NEW F \in SUBSET DOMAIN ast, NEW ts, NEW new, NEW us,
         Spliced(us, new, ts), 1 \in DOMAIN ts, OnceInv(ast, program, F, ts),
         NEW D, Walks(ast, ts[1], D, new)
  PROVE  OnceInv(ast, program, F \ D, us)
<1> DEFINE t == ts[1]
<1>1. /\ D \subseteq Due(ast, t) /\ D \subseteq F
      /\ \A n \in D : n \in DOMAIN ast /\ n = t.node
  BY DEF Walks, OnceInv
<1>2. \A p \in DOMAIN us :
        \/ p \in DOMAIN new /\ us[p] = new[p]
        \/ \E k \in DOMAIN ts : k # 1 /\ us[p] = ts[k] /\ p = (Len(new) + k) - 1
  BY SplicedCases
<1>3. ASSUME NEW i \in DOMAIN new, NEW s \in Due(ast, new[i])
      PROVE  /\ IsStatement(ast, s) /\ s \in F /\ s \notin D
             /\ \A k \in DOMAIN ts : k # 1 => s \notin Due(ast, ts[k])
             /\ \A j \in DOMAIN program : program[j] # s
             /\ \A n \in F : n \notin D => ~KidOf(ast, s, n)
  <2>1. IsStatement(ast, s)
    BY DEF Due
  <2>2. CASE s \in Due(ast, t) /\ s \notin D
    BY <2>1, <2>2 DEF OnceInv
  <2>3. ASSUME NEW n \in D, KidOf(ast, s, n)
        PROVE  /\ s \in F /\ s \notin D
               /\ \A k \in DOMAIN ts : k # 1 => s \notin Due(ast, ts[k])
               /\ \A j \in DOMAIN program : program[j] # s
               /\ \A m \in F : m \notin D => ~KidOf(ast, s, m)
    <3>1. s \in F
      BY <1>1, <2>1, <2>3 DEF OnceInv, KidOf
    <3>2. s # n /\ \A m \in DOMAIN ast : KidOf(ast, s, m) => m = n
      BY <1>1, <2>1, <2>3, OneParentOf
    <3>3. s \notin D
      BY <1>1, <3>2
    <3>4. \A k \in DOMAIN ts : k # 1 => s \notin Due(ast, ts[k])
      BY <1>1, <2>3 DEF OnceInv
    <3>5. \A j \in DOMAIN program : program[j] # s
      BY <1>1, <2>3 DEF TreeInv, ProgramLoose, KidOf
    <3> QED
      BY <3>1, <3>2, <3>3, <3>4, <3>5
  <2> QED
    BY <2>1, <2>2, <2>3 DEF Walks
<1>4. ASSUME NEW p \in DOMAIN us
      PROVE  /\ Fits(ast, us[p]) /\ Due(ast, us[p]) \subseteq F \ D
             /\ \A j \in DOMAIN program : program[j] \notin Due(ast, us[p])
             /\ Opened(us[p]) => us[p].node \notin F \ D
             /\ \A n \in F \ D : \A s \in Due(ast, us[p]) : ~KidOf(ast, s, n)
  <2>1. ASSUME p \in DOMAIN new, us[p] = new[p]
        PROVE  /\ Fits(ast, us[p]) /\ Due(ast, us[p]) \subseteq F \ D
               /\ \A j \in DOMAIN program : program[j] \notin Due(ast, us[p])
               /\ Opened(us[p]) => us[p].node \notin F \ D
               /\ \A n \in F \ D : \A s \in Due(ast, us[p]) : ~KidOf(ast, s, n)
    <3>1. Fits(ast, us[p])
      BY <2>1 DEF Walks
    <3>2. Opened(us[p]) => us[p].node \notin F \ D
      BY <2>1 DEF Walks, OnceInv
    <3> QED
      BY <1>3, <2>1, <3>1, <3>2
  <2>2. ASSUME NEW k \in DOMAIN ts, k # 1, us[p] = ts[k]
        PROVE  /\ Fits(ast, us[p]) /\ Due(ast, us[p]) \subseteq F \ D
               /\ \A j \in DOMAIN program : program[j] \notin Due(ast, us[p])
               /\ Opened(us[p]) => us[p].node \notin F \ D
               /\ \A n \in F \ D : \A s \in Due(ast, us[p]) : ~KidOf(ast, s, n)
    <3>1. Due(ast, ts[k]) \subseteq F /\ Due(ast, ts[k]) \cap Due(ast, t) = {}
      BY <2>2 DEF OnceInv
    <3> QED
      BY <1>1, <2>2, <3>1 DEF OnceInv
  <2> QED
    BY <1>2, <2>1, <2>2
<1>5. \A j \in DOMAIN program : program[j] \in F \ D
  BY <1>1 DEF OnceInv
<1>6. ASSUME NEW n \in F \ D, NEW i \in DOMAIN ast[n].kids, IsStatement(ast, ast[n].kids[i])
      PROVE  ast[n].kids[i] \in F \ D
  <2>1. ast[n].kids[i] \in F /\ KidOf(ast, ast[n].kids[i], n)
    BY <1>6 DEF OnceInv, KidOf
  <2>2. \A s \in D : ~KidOf(ast, s, n)
    BY <1>1 DEF OnceInv
  <2> QED
    BY <2>1, <2>2
<1>7. ASSUME NEW p \in DOMAIN us, NEW q \in DOMAIN us, p # q
      PROVE  /\ Due(ast, us[p]) \cap Due(ast, us[q]) = {}
             /\ ~(Opened(us[p]) /\ Opened(us[q]) /\ us[p].node = us[q].node)
  <2>1. ASSUME p \in DOMAIN new, us[p] = new[p], q \in DOMAIN new, us[q] = new[q]
        PROVE  /\ Due(ast, us[p]) \cap Due(ast, us[q]) = {}
               /\ ~(Opened(us[p]) /\ Opened(us[q]) /\ us[p].node = us[q].node)
    BY <1>7, <2>1 DEF Walks
  <2>2. ASSUME NEW i \in DOMAIN new, NEW k \in DOMAIN ts, k # 1
        PROVE  /\ Due(ast, new[i]) \cap Due(ast, ts[k]) = {}
               /\ ~(Opened(new[i]) /\ Opened(ts[k]) /\ new[i].node = ts[k].node)
    <3>1. ASSUME Opened(new[i]), Opened(ts[k]), new[i].node = ts[k].node PROVE FALSE
      <4>1. ts[k].node \notin F
        BY <3>1 DEF OnceInv
      <4>2. Opened(t) /\ new[i].node = t.node
        BY <1>1, <3>1, <4>1 DEF Walks
      <4> QED
        BY <2>2, <3>1, <4>2 DEF OnceInv
    <3> QED
      BY <1>3, <2>2, <3>1
  <2>3. ASSUME NEW k \in DOMAIN ts, k # 1, us[p] = ts[k], p = (Len(new) + k) - 1,
               NEW l \in DOMAIN ts, l # 1, us[q] = ts[l], q = (Len(new) + l) - 1
        PROVE  /\ Due(ast, us[p]) \cap Due(ast, us[q]) = {}
               /\ ~(Opened(us[p]) /\ Opened(us[q]) /\ us[p].node = us[q].node)
    <3>1. k # l
      BY <1>7, <2>3
    <3> QED
      BY <2>3, <3>1 DEF OnceInv
  <2>4. CASE p \in DOMAIN new /\ us[p] = new[p]
    BY <1>2, <2>1, <2>2, <2>4
  <2>5. CASE q \in DOMAIN new /\ us[q] = new[q]
    BY <1>2, <2>1, <2>2, <2>5
  <2> QED
    BY <1>2, <2>3, <2>4, <2>5
<1> HIDE DEF t
<1> QED
  BY <1>4, <1>5, <1>6, <1>7 DEF OnceInv

LEMMA LabelIs ==
  ASSUME NEW s
  PROVE  /\ <<"label", Label(s)>> = Mention(ast, s) /\ Label(s) = LabelOf(ast, s)
         /\ StmId(s) = Ident(ast, s)
BY DEF Label, LabelOf, Mention, StmId, Ident, IsStm

\* Statements that bear different names have different labels.
LEMMA LabelsDiffer ==
  ASSUME TypeInv, NEW s \in DOMAIN ast, NEW r \in DOMAIN ast, ast[s].kind \in StmKinds, ast[r].kind \in StmKinds
  PROVE  /\ Mention(ast, s) = Mention(ast, r) => s = r
         /\ LoopLabel(ast, s) = LoopLabel(ast, r) => s = r
         /\ EndLoopLabel(ast, s) = EndLoopLabel(ast, r) => s = r
         /\ Mention(ast, s) # LoopLabel(ast, r) /\ Mention(ast, s) # EndLoopLabel(ast, r)
         /\ LoopLabel(ast, s) # EndLoopLabel(ast, r)
<1>1. Mention(ast, s) = Mention(ast, r) => Ident(ast, s) = Ident(ast, r)
  BY DEF Mention, LabelOf
<1>2. LoopLabel(ast, s) = LoopLabel(ast, r) => Ident(ast, s) = Ident(ast, r)
  BY DEF LoopLabel
<1>3. EndLoopLabel(ast, s) = EndLoopLabel(ast, r) => Ident(ast, s) = Ident(ast, r)
  BY DEF EndLoopLabel
<1>4. /\ Mention(ast, s) # LoopLabel(ast, r) /\ Mention(ast, s) # EndLoopLabel(ast, r)
      /\ LoopLabel(ast, s) # EndLoopLabel(ast, r)
  BY DEF Mention, LabelOf, LoopLabel, EndLoopLabel
<1> QED
  BY <1>1, <1>2, <1>3, <1>4, IdentifiersDiffer

\* The owner of a label that is still to be written is a body of the statement.
LEMMA OwesBodies ==
  ASSUME TypeInv, TreeInv, GrammarInv, NEW t, Fits(ast, t), NEW s \in Owes(ast, t)
  PROVE  /\ Opened(t) /\ t.node \in DOMAIN ast /\ KidOf(ast, s, t.node)
         /\ IsStatement(ast, s) /\ s \in DOMAIN ast /\ ast[s].kind \in StmKinds
<1>1. t.step \in Closing
  BY DEF Owes, Closing
<1>2. t.node \in DOMAIN ast /\ ast[t.node].kind \in Governing /\ Len(ast[t.node].kids) >= 2
  BY <1>1 DEF Fits
<1>3. /\ Len(ast[t.node].kids) \in Nat /\ DOMAIN ast[t.node].kids = 1..Len(ast[t.node].kids)
  BY <1>2, Places
<1>4. HasElse(ast, t.node) => Len(ast[t.node].kids) >= 3
  BY <1>2 DEF HasElse, GrammarInv, Grammatical
<1>5. PICK i \in {2, 3} : s = ast[t.node].kids[i] /\ i \in DOMAIN ast[t.node].kids
  <2>1. CASE t.step = "control"
    BY <1>2, <1>3, <1>4, <2>1 DEF Owes
  <2>2. CASE t.step = "else"
    <3>1. Len(ast[t.node].kids) >= 3
      BY <2>2 DEF Fits
    <3> QED
      BY <1>3, <2>2, <3>1 DEF Owes
  <2>3. CASE t.step = "end if"
    <3>1. t.saved = 1 => Len(ast[t.node].kids) >= 3
      BY <2>3 DEF Fits
    <3>2. s = ast[t.node].kids[IF t.saved = 1 THEN 3 ELSE 2]
      BY <2>3 DEF Owes
    <3>3. CASE t.saved = 1
      <4>1. 3 \in {2, 3} /\ 3 \in DOMAIN ast[t.node].kids
        BY <1>3, <3>1, <3>3
      <4> QED
        BY <3>2, <3>3, <4>1
    <3>4. CASE t.saved # 1
      <4>1. 2 \in {2, 3} /\ 2 \in DOMAIN ast[t.node].kids
        BY <1>2, <1>3
      <4> QED
        BY <3>2, <3>4, <4>1
    <3> QED
      BY <3>3, <3>4
  <2>4. CASE t.step = "end while"
    <3>1. s = ast[t.node].kids[2]
      BY <2>4 DEF Owes
    <3>2. 2 \in {2, 3} /\ 2 \in DOMAIN ast[t.node].kids
      BY <1>2, <1>3
    <3> QED
      BY <3>1, <3>2
  <2> QED
    BY <2>1, <2>2, <2>3, <2>4 DEF Owes
<1>6. i \in BodyOf(ast[t.node])
  BY <1>2, <1>5 DEF BodyOf
<1>7. IsStatement(ast, s)
  BY <1>2, <1>5, <1>6 DEF TreeInv, BodiesAreStatements
<1> QED
  BY <1>1, <1>2, <1>5, <1>7 DEF Opened, KidOf, IsStatement

\* The lines that a step emits.
Extended(vx, tx, lines) ==
  /\ \A k \in DOMAIN vx :
       \/ k \in DOMAIN tx /\ vx[k] = tx[k]
       \/ \E i \in DOMAIN lines : k \notin DOMAIN tx /\ vx[k] = lines[i] /\ k = Len(tx) + i
  /\ \A k \in DOMAIN tx : k \in DOMAIN vx /\ vx[k] = tx[k]
  /\ \A i \in DOMAIN lines : \E k \in DOMAIN vx : vx[k] = lines[i]

\* A label is one the visit owes, or the one of a loop that starts or ends; a
\* jump is to a label that is still owed or is written here, or back in a loop.
Writes(as, t, D, new, lines) ==
  /\ \A i \in DOMAIN lines : IsLabel(lines[i]) =>
       \/ \E s \in Owes(as, t) : lines[i] = Mention(as, s) /\ \A j \in DOMAIN new : s \notin Owes(as, new[j])
       \/ \E s \in D : lines[i] = LoopLabel(as, s)
       \/ /\ t.step = "end loop" /\ lines[i] = EndLoopLabel(as, t.node)
          /\ \A j \in DOMAIN new : new[j].step # "end loop"
  /\ \A i, j \in DOMAIN lines : IsLabel(lines[i]) /\ lines[i] = lines[j] => i = j
  /\ \A i \in DOMAIN lines : IsJump(lines[i]) =>
       \/ \E s \in DOMAIN as : lines[i][2] = LabelOf(as, s) /\
            (Has(lines, Mention(as, s)) \/ \E j \in DOMAIN new : s \in Owes(as, new[j]))
       \/ t.step = "end loop" /\ lines[i][2] = <<".LOOP_", Ident(as, t.node)>>
  /\ \A s \in Owes(as, t) : Has(lines, Mention(as, s)) \/ \E j \in DOMAIN new : s \in Owes(as, new[j])
  /\ \A j \in DOMAIN new : \A s \in Owes(as, new[j]) : s \in Owes(as, t) \/ \E n \in D : KidOf(as, s, n)
  /\ \A j \in DOMAIN new : new[j].step = "end loop" =>
       new[j].node \in D /\ Has(lines, LoopLabel(as, new[j].node))

LEMMA LabelStep ==
  ASSUME TypeInv, TreeInv, GrammarInv, NEW F \in SUBSET DOMAIN ast,
         NEW ts, NEW new, NEW us, Spliced(us, new, ts), 1 \in DOMAIN ts, OnceInv(ast, program, F, ts),
         NEW D, Walks(ast, ts[1], D, new),
         NEW tx, NEW lines, NEW vx, Extended(vx, tx, lines), Writes(ast, ts[1], D, new, lines),
         LabelInv(ast, F, ts, tx)
  PROVE  LabelInv(ast, F \ D, us, vx)
<1> DEFINE t == ts[1]
<1>1. /\ D \subseteq Due(ast, t) /\ D \subseteq F
      /\ \A n \in D : n \in DOMAIN ast /\ n = t.node /\ ast[n].kind \in StmKinds
  BY DEF Walks, OnceInv, Due, IsStatement
<1>2. /\ \A p \in DOMAIN us :
           \/ p \in DOMAIN new /\ us[p] = new[p]
           \/ \E k \in DOMAIN ts : k # 1 /\ us[p] = ts[k]
      /\ \A i \in DOMAIN new : i \in DOMAIN us /\ us[i] = new[i]
      /\ \A k \in DOMAIN ts : k # 1 => \E p \in DOMAIN us : us[p] = ts[k]
  BY SplicedCases
<1>3. /\ \A k \in DOMAIN vx :
           \/ k \in DOMAIN tx /\ vx[k] = tx[k]
           \/ \E i \in DOMAIN lines : k \notin DOMAIN tx /\ vx[k] = lines[i] /\ k = Len(tx) + i
      /\ \A line : Has(tx, line) \/ Has(lines, line) => Has(vx, line)
  BY DEF Extended, Has
<1>4. ASSUME NEW k \in DOMAIN ts, NEW s \in Owes(ast, ts[k])
      PROVE  /\ Opened(ts[k]) /\ ts[k].node \in DOMAIN ast /\ KidOf(ast, s, ts[k].node)
             /\ IsStatement(ast, s) /\ s \in DOMAIN ast /\ ast[s].kind \in StmKinds
             /\ ts[k].node \notin F
  <2>1. Fits(ast, ts[k])
    BY DEF OnceInv
  <2>2. /\ Opened(ts[k]) /\ ts[k].node \in DOMAIN ast /\ KidOf(ast, s, ts[k].node)
        /\ IsStatement(ast, s) /\ s \in DOMAIN ast /\ ast[s].kind \in StmKinds
    BY <2>1, OwesBodies
  <2> QED
    BY <2>2 DEF OnceInv
\* A label that was written stays final.
<1>5. ASSUME NEW line, Final(ast, F, ts, line)
      PROVE  Final(ast, F \ D, us, line)
  <2>1. PICK s \in DOMAIN ast : ast[s].kind \in StmKinds /\
          \/ line = Mention(ast, s) /\ ~Unlabelled(ast, F, ts, s)
          \/ line = LoopLabel(ast, s) /\ s \notin F
          \/ line = EndLoopLabel(ast, s) /\ s \notin F /\ \A p \in DOMAIN ts : ~Looping(ts[p], s)
    BY <1>5 DEF Final
  <2>2. ASSUME ~Unlabelled(ast, F, ts, s), Unlabelled(ast, F \ D, us, s) PROVE FALSE
    <3>1. /\ \A n \in F : ~KidOf(ast, s, n)
          /\ \A k \in DOMAIN ts : s \notin Owes(ast, ts[k])
      BY <2>2 DEF Unlabelled
    <3>2. PICK p \in DOMAIN us : s \in Owes(ast, us[p])
      BY <2>2, <3>1 DEF Unlabelled
    <3>3. p \in DOMAIN new /\ us[p] = new[p]
      BY <1>2, <3>1, <3>2
    <3>4. s \in Owes(ast, t) \/ \E n \in D : KidOf(ast, s, n)
      BY <3>2, <3>3 DEF Writes
    <3> QED
      BY <1>1, <3>1, <3>4
  <2>3. ASSUME s \notin F, \A k \in DOMAIN ts : ~Looping(ts[k], s),
               NEW p \in DOMAIN us, Looping(us[p], s)
        PROVE  FALSE
    <3>1. p \in DOMAIN new /\ us[p] = new[p]
      BY <1>2, <2>3
    <3>2. s \in D
      BY <2>3, <3>1 DEF Writes, Looping
    <3> QED
      BY <1>1, <2>3, <3>2
  <2> QED
    BY <2>1, <2>2, <2>3 DEF Final
\* A label that is written now is final, and was not written before.
<1>6. ASSUME NEW i \in DOMAIN lines, IsLabel(lines[i])
      PROVE  /\ Final(ast, F \ D, us, lines[i])
             /\ ~Final(ast, F, ts, lines[i])
  <2>1. ASSUME NEW s \in Owes(ast, t), lines[i] = Mention(ast, s),
               \A j \in DOMAIN new : s \notin Owes(ast, new[j])
        PROVE  /\ Final(ast, F \ D, us, lines[i])
               /\ ~Final(ast, F, ts, lines[i])
    <3>1. /\ Opened(t) /\ t.node \in DOMAIN ast /\ KidOf(ast, s, t.node) /\ t.node \notin F
          /\ IsStatement(ast, s) /\ s \in DOMAIN ast /\ ast[s].kind \in StmKinds
      BY <1>4
    <3>2. \A n \in DOMAIN ast : KidOf(ast, s, n) => n = t.node
      BY <3>1, OneParentOf
    <3>3. ASSUME NEW k \in DOMAIN ts, s \in Owes(ast, ts[k]) PROVE k = 1
      <4>1. Opened(ts[k]) /\ ts[k].node = t.node
        BY <1>4, <3>2, <3>3
      <4> QED
        BY <3>1, <4>1 DEF OnceInv
    <3>4. ASSUME NEW p \in DOMAIN us PROVE s \notin Owes(ast, us[p])
      BY <1>2, <2>1, <3>3
    <3>5. ~Unlabelled(ast, F \ D, us, s)
      BY <3>1, <3>2, <3>4 DEF Unlabelled
    <3>6. Final(ast, F \ D, us, lines[i])
      BY <2>1, <3>1, <3>5 DEF Final
    <3>7. Unlabelled(ast, F, ts, s)
      BY DEF Unlabelled
    <3>8. ~Final(ast, F, ts, lines[i])
      BY <2>1, <3>1, <3>7, LabelsDiffer DEF Final
    <3> QED
      BY <3>6, <3>8
  <2>2. ASSUME NEW s \in D, lines[i] = LoopLabel(ast, s)
        PROVE  /\ Final(ast, F \ D, us, lines[i])
               /\ ~Final(ast, F, ts, lines[i])
    <3>1. s \in F /\ s \in DOMAIN ast /\ ast[s].kind \in StmKinds
      BY <1>1
    <3>2. Final(ast, F \ D, us, lines[i])
      BY <2>2, <3>1 DEF Final
    <3>3. ~Final(ast, F, ts, lines[i])
      BY <2>2, <3>1, LabelsDiffer DEF Final
    <3> QED
      BY <3>2, <3>3
  <2>3. ASSUME t.step = "end loop", lines[i] = EndLoopLabel(ast, t.node),
               \A j \in DOMAIN new : new[j].step # "end loop"
        PROVE  /\ Final(ast, F \ D, us, lines[i])
               /\ ~Final(ast, F, ts, lines[i])
    <3>1. t.node \in DOMAIN ast /\ ast[t.node].kind \in StmKinds
      BY <2>3 DEF OnceInv, Fits, StmKinds
    <3>2. Opened(t) /\ t.node \notin F
      BY <2>3 DEF OnceInv, Opened
    <3>3. ASSUME NEW p \in DOMAIN us, Looping(us[p], t.node) PROVE FALSE
      <4>1. PICK k \in DOMAIN ts : k # 1 /\ us[p] = ts[k]
        BY <1>2, <2>3, <3>3 DEF Looping
      <4>2. Opened(ts[k]) /\ ts[k].node = t.node
        BY <3>3, <4>1 DEF Looping, Opened
      <4> QED
        BY <3>2, <4>1, <4>2 DEF OnceInv
    <3>4. Final(ast, F \ D, us, lines[i])
      BY <2>3, <3>1, <3>2, <3>3 DEF Final
    <3>5. Looping(t, t.node)
      BY <2>3 DEF Looping
    <3>6. ~Final(ast, F, ts, lines[i])
      BY <2>3, <3>1, <3>5, LabelsDiffer DEF Final
    <3> QED
      BY <3>4, <3>6
  <2> QED
    BY <1>6, <2>1, <2>2, <2>3 DEF Writes
<1>7. ASSUME NEW k \in DOMAIN vx, IsLabel(vx[k]) PROVE Final(ast, F \ D, us, vx[k])
  BY <1>3, <1>5, <1>6, <1>7 DEF LabelInv
<1>8. ASSUME NEW k \in DOMAIN vx, NEW l \in DOMAIN vx, IsLabel(vx[k]), vx[k] = vx[l]
      PROVE  k = l
  <2>1. ASSUME NEW m \in DOMAIN tx, vx[k] = tx[m], NEW i \in DOMAIN lines, vx[k] = lines[i]
        PROVE  FALSE
    BY <1>6, <1>8, <2>1 DEF LabelInv
  <2>2. CASE k \in DOMAIN tx /\ vx[k] = tx[k]
    <3>1. l \in DOMAIN tx /\ vx[l] = tx[l]
      BY <1>3, <1>8, <2>1, <2>2
    <3> QED
      BY <1>8, <2>2, <3>1 DEF LabelInv
  <2>3. ASSUME NEW i \in DOMAIN lines, vx[k] = lines[i], k = Len(tx) + i
        PROVE  k = l
    <3>1. PICK j \in DOMAIN lines : vx[l] = lines[j] /\ l = Len(tx) + j
      BY <1>3, <1>8, <2>1, <2>3
    <3> QED
      BY <1>8, <2>3, <3>1 DEF Writes
  <2> QED
    BY <1>3, <2>2, <2>3
<1>9. ASSUME NEW k \in DOMAIN vx, IsJump(vx[k]) PROVE Aimed(ast, us, vx, vx[k])
  <2>1. ASSUME Aimed(ast, ts, tx, vx[k]) PROVE Aimed(ast, us, vx, vx[k])
    <3>1. ASSUME NEW s \in DOMAIN ast, vx[k][2] = LabelOf(ast, s), NEW p \in DOMAIN ts,
                 s \in Owes(ast, ts[p])
          PROVE  Aimed(ast, us, vx, vx[k])
      <4>1. CASE p = 1
        BY <1>2, <1>3, <3>1, <4>1 DEF Writes, Aimed
      <4>2. CASE p # 1
        BY <1>2, <3>1, <4>2 DEF Aimed
      <4> QED
        BY <4>1, <4>2
    <3> QED
      BY <1>3, <2>1, <3>1 DEF Aimed
  <2>2. ASSUME NEW i \in DOMAIN lines, vx[k] = lines[i] PROVE Aimed(ast, us, vx, vx[k])
    <3>1. CASE \E s \in DOMAIN ast : lines[i][2] = LabelOf(ast, s) /\
                 (Has(lines, Mention(ast, s)) \/ \E j \in DOMAIN new : s \in Owes(ast, new[j]))
      BY <1>2, <1>3, <2>2, <3>1 DEF Aimed
    <3>2. CASE t.step = "end loop" /\ lines[i][2] = <<".LOOP_", Ident(ast, t.node)>>
      <4>1. Has(tx, LoopLabel(ast, t.node)) /\ t.node \in DOMAIN ast
        BY <3>2 DEF LabelInv, OnceInv, Fits
      <4> QED
        BY <1>3, <2>2, <3>2, <4>1 DEF Aimed
    <3> QED
      BY <1>9, <2>2, <3>1, <3>2 DEF Writes
  <2> QED
    BY <1>3, <1>9, <2>1, <2>2 DEF LabelInv
<1>10. ASSUME NEW p \in DOMAIN us, us[p].step = "end loop" PROVE Has(vx, LoopLabel(ast, us[p].node))
  <2>1. CASE p \in DOMAIN new /\ us[p] = new[p]
    BY <1>3, <1>10, <2>1 DEF Writes
  <2>2. ASSUME NEW k \in DOMAIN ts, us[p] = ts[k] PROVE Has(vx, LoopLabel(ast, us[p].node))
    BY <1>3, <1>10, <2>2 DEF LabelInv
  <2> QED
    BY <1>2, <2>1, <2>2
<1> QED
  BY <1>7, <1>8, <1>9, <1>10 DEF LabelInv

-------------------------------------------------------------------------------
(***************************************************************************)
(* What visits emit.                                                       *)
(***************************************************************************)
LEMMA TextIs ==
  ASSUME NEW S, NEW lines \in Seq(S)
  PROVE  IsText(lines)
<1>1. lines \in [1..Len(lines) -> S] /\ Len(lines) \in Nat
  BY LenProperties
<1>2. lines \in [1..Len(lines) -> Range(lines)]
  BY <1>1 DEF Range
<1> QED
  BY <1>1, <1>2, SeqDef DEF IsText

LEMMA TextGrows ==
  ASSUME NEW tx, IsText(tx), NEW lines, IsText(lines)
  PROVE  IsText(tx \o lines) /\ Extended(tx \o lines, tx, lines)
<1> DEFINE S == Range(tx) \cup Range(lines)
           vx == tx \o lines
<1>1. tx \in Seq(S) /\ lines \in Seq(S)
  BY DEF IsText
<1> HIDE DEF S
<1>2. /\ Len(tx) \in Nat /\ DOMAIN tx = 1..Len(tx)
      /\ Len(lines) \in Nat /\ DOMAIN lines = 1..Len(lines)
  BY <1>1, LenProperties
<1>3. /\ vx \in Seq(S) /\ Len(vx) = Len(tx) + Len(lines)
      /\ \A i \in 1..(Len(tx) + Len(lines)) :
           vx[i] = IF i <= Len(tx) THEN tx[i] ELSE lines[i - Len(tx)]
  BY <1>1, ConcatProperties
<1> HIDE DEF vx
<1>4. DOMAIN vx = 1..(Len(tx) + Len(lines))
  BY <1>3, LenProperties
<1>5. IsText(vx)
  BY <1>3, TextIs
<1>6. ASSUME NEW k \in DOMAIN vx, k \notin DOMAIN tx
      PROVE  \E i \in DOMAIN lines : vx[k] = lines[i] /\ k = Len(tx) + i
  <2>1. /\ ~(k <= Len(tx)) /\ k - Len(tx) \in DOMAIN lines /\ k = Len(tx) + (k - Len(tx))
        /\ k \in 1..(Len(tx) + Len(lines))
    BY <1>2, <1>4, <1>6
  <2>2. vx[k] = lines[k - Len(tx)]
    BY <1>3, <2>1
  <2> QED
    BY <2>1, <2>2
<1>7. ASSUME NEW k \in DOMAIN tx PROVE k \in DOMAIN vx /\ vx[k] = tx[k]
  <2>1. k <= Len(tx) /\ k \in 1..(Len(tx) + Len(lines))
    BY <1>2
  <2> QED
    BY <1>3, <1>4, <2>1
<1>8. ASSUME NEW i \in DOMAIN lines PROVE \E k \in DOMAIN vx : vx[k] = lines[i]
  <2>1. /\ Len(tx) + i \in 1..(Len(tx) + Len(lines)) /\ ~(Len(tx) + i <= Len(tx))
        /\ (Len(tx) + i) - Len(tx) = i
    BY <1>2
  <2>2. vx[Len(tx) + i] = lines[i]
    BY <1>3, <2>1
  <2> QED
    BY <1>4, <2>1, <2>2
<1>9. \A k \in DOMAIN vx : k \in DOMAIN tx => vx[k] = tx[k]
  BY <1>7
<1>10. Extended(vx, tx, lines)
  BY <1>6, <1>7, <1>8, <1>9 DEF Extended
<1> QED
  BY <1>5, <1>10 DEF vx

\* Text without a label and without a jump of if, else and loop.
PlainLine(line) == ~IsLabel(line) /\ ~IsJump(line)
Plain(lines) == IsText(lines) /\ \A i \in DOMAIN lines : PlainLine(lines[i])

LEMMA PlainFew ==
  /\ Plain(<<>>)
  /\ \A a : PlainLine(a) => Plain(<<a>>)
  /\ \A a, b : PlainLine(a) /\ PlainLine(b) => Plain(<<a, b>>)
  /\ \A a, b, c : PlainLine(a) /\ PlainLine(b) /\ PlainLine(c) => Plain(<<a, b, c>>)
<1>1. Plain(<<>>)
  BY EmptySeq DEF Plain, IsText
<1>2. ASSUME NEW a, PlainLine(a) PROVE Plain(<<a>>)
  <2> DEFINE s == <<a>>
  <2>1. s \in Seq({a}) /\ DOMAIN s = {1} /\ s[1] = a
    OBVIOUS
  <2> HIDE DEF s
  <2>2. IsText(s) /\ \A i \in DOMAIN s : s[i] = a
    BY <2>1, TextIs
  <2>3. Plain(s)
    BY <1>2, <2>2 DEF Plain
  <2> QED
    BY <2>3 DEF s
<1>3. ASSUME NEW a, NEW b, PlainLine(a), PlainLine(b) PROVE Plain(<<a, b>>)
  <2> DEFINE s == <<a, b>>
  <2>1. s \in Seq({a, b}) /\ DOMAIN s = 1..2 /\ s[1] = a /\ s[2] = b
    OBVIOUS
  <2> HIDE DEF s
  <2>2. IsText(s) /\ \A i \in DOMAIN s : s[i] = a \/ s[i] = b
    BY <2>1, TextIs
  <2>3. Plain(s)
    BY <1>3, <2>2 DEF Plain
  <2> QED
    BY <2>3 DEF s
<1>4. ASSUME NEW a, NEW b, NEW c, PlainLine(a), PlainLine(b), PlainLine(c)
      PROVE  Plain(<<a, b, c>>)
  <2> DEFINE s == <<a, b, c>>
  <2>1. s \in Seq({a, b, c}) /\ DOMAIN s = 1..3 /\ s[1] = a /\ s[2] = b /\ s[3] = c
    OBVIOUS
  <2> HIDE DEF s
  <2>2. IsText(s) /\ \A i \in DOMAIN s : s[i] = a \/ s[i] = b \/ s[i] = c
    BY <2>1, TextIs
  <2>3. Plain(s)
    BY <1>4, <2>2 DEF Plain
  <2> QED
    BY <2>3 DEF s
<1> QED
  BY <1>1, <1>2, <1>3, <1>4

LEMMA PlainConcat ==
  ASSUME NEW lines, NEW more, Plain(lines), Plain(more)
  PROVE  Plain(lines \o more)
<1> DEFINE s == lines \o more
<1>1. IsText(s) /\ Extended(s, lines, more)
  BY TextGrows DEF Plain
<1> HIDE DEF s
<1>2. Plain(s)
  BY <1>1 DEF Plain, Extended
<1> QED
  BY <1>2 DEF s

LEMMA PlainMap ==
  ASSUME NEW n \in Nat, NEW f, f = [i \in 1..n |-> f[i]], \A i \in 1..n : PlainLine(f[i])
  PROVE  Plain(f)
<1> DEFINE S == {f[i] : i \in 1..n}
<1>1. f \in [1..n -> S]
  OBVIOUS
<1>2. f \in Seq(S)
  BY <1>1, SeqDef
<1>3. DOMAIN f = 1..n
  BY <1>1
<1> QED
  BY <1>2, <1>3, TextIs DEF Plain

\* Induction: a set that holds 0 and with a number the next one holds all of Nat.
LEMMA Induction ==
  ASSUME NEW T, 0 \in T, \A n \in Nat : n \in T => n + 1 \in T
  PROVE  Nat \subseteq T
<1> SUFFICES ASSUME Nat \ T # {} PROVE FALSE
  OBVIOUS
<1>1. PICK n \in Nat \ T : \A m \in Nat \ T : ~(<<m, n>> \in OpToRel(<, Nat))
  BY NatLessThanWellFounded, WFMin
<1>2. \A m \in Nat \ T : ~(m < n)
  BY <1>1 DEF OpToRel
<1>3. n \in Nat /\ n \notin T /\ n # 0
  OBVIOUS
<1>4. n - 1 \in Nat /\ (n - 1) + 1 = n /\ n - 1 < n
  BY <1>3
<1> QED
  BY <1>2, <1>3, <1>4

\* The recursive function FlattenSeq is made of exists.
Flattened(seqs, k, f) ==
  f = [i \in 1..k |-> IF i = 1 THEN seqs[i] ELSE f[i - 1] \o seqs[i]]

LEMMA FlattenExists ==
  ASSUME NEW seqs
  PROVE  \A k \in Nat : \E f : Flattened(seqs, k, f)
<1> DEFINE T == {k \in Nat : \E f : Flattened(seqs, k, f)}
<1>1. 0 \in T
  <2>1. Flattened(seqs, 0, [i \in 1..0 |-> seqs[i]])
    BY DEF Flattened
  <2> QED
    BY <2>1
<1>2. ASSUME NEW k \in Nat, k \in T PROVE k + 1 \in T
  <2>1. PICK f : Flattened(seqs, k, f)
    BY <1>2
  <2> DEFINE g == [i \in 1..(k + 1) |->
                     IF i = k + 1 THEN IF i = 1 THEN seqs[i] ELSE f[k] \o seqs[i] ELSE f[i]]
  <2>2. ASSUME NEW i \in 1..(k + 1)
        PROVE  g[i] = IF i = 1 THEN seqs[i] ELSE g[i - 1] \o seqs[i]
    <3>1. CASE i = k + 1
      <4>1. i # 1 => i - 1 = k /\ k \in 1..(k + 1) /\ k # k + 1
        BY <3>1
      <4> QED
        BY <3>1, <4>1
    <3>2. CASE i # k + 1
      <4>1. i \in 1..k /\ (i # 1 => i - 1 \in 1..k /\ i - 1 \in 1..(k + 1) /\ i - 1 # k + 1)
        BY <3>2
      <4>2. f[i] = IF i = 1 THEN seqs[i] ELSE f[i - 1] \o seqs[i]
        BY <2>1, <4>1 DEF Flattened
      <4>3. g[i] = f[i] /\ (i # 1 => g[i - 1] = f[i - 1])
        BY <3>2, <4>1
      <4> QED
        BY <4>2, <4>3
    <3> QED
      BY <3>1, <3>2
  <2>3. g = [i \in 1..(k + 1) |-> g[i]]
    OBVIOUS
  <2> HIDE DEF g
  <2>4. Flattened(seqs, k + 1, g)
    BY <2>2, <2>3 DEF Flattened
  <2> QED
    BY <2>4
<1> HIDE DEF T
<1>3. Nat \subseteq T
  BY <1>1, <1>2, Induction
<1> QED
  BY <1>3 DEF T

LEMMA FlattenUnfolds ==
  ASSUME NEW seqs, Len(seqs) \in Nat, Len(seqs) # 0
  PROVE  \E f : Flattened(seqs, Len(seqs), f) /\ FlattenSeq(seqs) = f[Len(seqs)]
<1> DEFINE f == CHOOSE g : g = [i \in 1..Len(seqs) |->
                                 IF i = 1 THEN seqs[i] ELSE g[i - 1] \o seqs[i]]
<1>1. \E g : g = [i \in 1..Len(seqs) |-> IF i = 1 THEN seqs[i] ELSE g[i - 1] \o seqs[i]]
  BY FlattenExists DEF Flattened
<1>2. f = [i \in 1..Len(seqs) |-> IF i = 1 THEN seqs[i] ELSE f[i - 1] \o seqs[i]]
  BY <1>1, Zenon
<1>3. FlattenSeq(seqs) = f[Len(seqs)]
  BY Zenon DEF FlattenSeq
<1> HIDE DEF f
<1> QED
  BY <1>2, <1>3 DEF Flattened

LEMMA PlainFlatten ==
  ASSUME NEW n \in Nat, NEW seqs, Len(seqs) = n, \A i \in 1..n : Plain(seqs[i]),
         n = 0 => seqs = <<>>
  PROVE  Plain(FlattenSeq(seqs))
<1>1. CASE n = 0
  BY <1>1, PlainFew DEF FlattenSeq
<1>2. CASE n # 0
  <2>1. PICK f : Flattened(seqs, n, f) /\ FlattenSeq(seqs) = f[n]
    BY <1>2, FlattenUnfolds
  <2> DEFINE T == {k \in Nat : k \in 1..n => Plain(f[k])}
  <2>2. 0 \in T
    OBVIOUS
  <2>3. ASSUME NEW k \in Nat, k \in T PROVE k + 1 \in T
    <3>1. CASE k = 0
      <4>1. 1 \in 1..n => f[1] = seqs[1]
        BY <2>1 DEF Flattened
      <4> QED
        BY <3>1, <4>1
    <3>2. CASE k # 0 /\ k + 1 \in 1..n
      <4> DEFINE i == k + 1
      <4>0. i \in 1..n /\ i # 1
        BY <3>2
      <4>1. f[i] = f[i - 1] \o seqs[i]
        <5> HIDE DEF i
        <5> QED
          BY <2>1, <4>0 DEF Flattened
      <4>2. (k + 1) - 1 = k /\ k \in 1..n
        BY <3>2
      <4>3. Plain(f[k]) /\ Plain(seqs[k + 1])
        BY <2>3, <3>2, <4>2
      <4>4. Plain(f[k + 1])
        BY <4>1, <4>2, <4>3, PlainConcat
      <4> QED
        BY <4>4
    <3> QED
      BY <3>1, <3>2
  <2> HIDE DEF T
  <2>4. Nat \subseteq T
    BY <2>2, <2>3, Induction
  <2>5. n \in T /\ n \in 1..n
    BY <1>2, <2>4
  <2> QED
    BY <2>1, <2>5 DEF T
<1> QED
  BY <1>1, <1>2

-------------------------------------------------------------------------------
(***************************************************************************)
(* The actions.                                                            *)
(***************************************************************************)
LEMMA JumpStep ==
  ASSUME TypeInv, TreeInv, GrammarInv, WalkInv, JumpInv,
         phase = "generating", todo # <<>>, Stays,
         NEW new \in Seq(Tasks(ast)), Continue(new), NEW lines, IsText(lines), Emit(lines),
         NEW D, Walks(ast, Head(todo), D, new), Writes(ast, Head(todo), D, new, lines)
  PROVE  JumpInv'
<1>1. /\ todo \in Seq(Tasks(ast)) /\ Head(todo) = todo[1] /\ 1 \in DOMAIN todo
  BY DEF WalkInv, GenTypeOK, Tasks
<1>2. Spliced(todo', new, todo)
  BY <1>1, SplicedTasks DEF Continue
<1>3. PICK F \in SUBSET DOMAIN ast : OnceInv(ast, program, F, todo) /\ LabelInv(ast, F, todo, text)
  BY DEF JumpInv
<1>4. IsText(text') /\ Extended(text', text, lines)
  BY TextGrows DEF JumpInv, Emit
<1> DEFINE G == F \ D
<1>5. OnceInv(ast, program, G, todo')
  BY <1>1, <1>2, <1>3, OnceStep
<1>6. LabelInv(ast, G, todo', text')
  BY <1>1, <1>2, <1>3, <1>4, LabelStep
<1>7. ast' = ast /\ program' = program /\ phase' = phase
  BY DEF Stays, vars
<1>8. G \in SUBSET DOMAIN ast'
  BY <1>7
<1> HIDE DEF G
<1>9. OnceInv(ast, program, G, todo)' /\ LabelInv(ast, G, todo, text)'
  BY <1>5, <1>6, <1>7
<1>10. IsText(text)'
  BY <1>4 DEF IsText
<1> QED
  BY <1>7, <1>8, <1>9, <1>10 DEF JumpInv

LEMMA NothingEmitted ==
  ASSUME JumpInv, text' = text
  PROVE  Emit(<<>>) /\ Plain(<<>>)
<1>1. text \in Seq(Range(text))
  BY DEF JumpInv, IsText
<1>2. text \o <<>> = text
  BY <1>1, ConcatEmptySeq
<1> QED
  BY <1>2, PlainFew DEF Emit

\* Visits that are not of statements replace one that is not either.
LEMMA PlainStep ==
  ASSUME TypeInv, TreeInv, GrammarInv, WalkInv, JumpInv,
         phase = "generating", todo # <<>>, Stays,
         NEW new \in Seq(Tasks(ast)), Continue(new), NEW lines, Plain(lines), Emit(lines),
         ~Opened(Head(todo)),
         \A i \in DOMAIN new : ~Opened(new[i]) /\ Due(ast, new[i]) = {}
  PROVE  JumpInv'
<1> DEFINE D == {}
<1>1. \A i \in DOMAIN new : Fits(ast, new[i]) /\ Owes(ast, new[i]) = {}
  BY DEF Fits, Owes, Opened, Closing
<1>2. Owes(ast, Head(todo)) = {}
  BY DEF Owes, Opened, Closing
<1>3. Walks(ast, Head(todo), D, new)
  BY <1>1 DEF Walks
<1>4. \A i \in DOMAIN new : new[i].step # "end loop"
  BY DEF Opened
<1>5. Writes(ast, Head(todo), D, new, lines)
  BY <1>1, <1>2, <1>4 DEF Writes, Plain, PlainLine
<1> HIDE DEF D
<1>6. IsText(lines)
  BY DEF Plain
<1> QED
  BY <1>3, <1>5, <1>6, JumpStep

LEMMA PlainReturn ==
  ASSUME TypeInv, TreeInv, GrammarInv, WalkInv, JumpInv,
         phase = "generating", todo # <<>>, Stays,
         Continue(<<>>), NEW lines, Plain(lines), Emit(lines), ~Opened(Head(todo))
  PROVE  JumpInv'
<1> DEFINE new == <<>>
<1>1. new \in Seq(Tasks(ast)) /\ DOMAIN new = {}
  OBVIOUS
<1>2. Continue(new)
  OBVIOUS
<1> HIDE DEF new
<1> QED
  BY <1>1, <1>2, PlainStep

\* An expression is not a statement.
LEMMA ExprNotDue ==
  ASSUME TypeInv, NEW e, IsExpr(ast, e)
  PROVE  Due(ast, Visit(e)) = {} /\ ~Opened(Visit(e))
<1> DEFINE t == Visit(e)
<1>1. t.step = "code" /\ t.node = e
  BY DEF Visit, Task
<1> HIDE DEF t
<1>2. ~IsStatement(ast, e)
  <2>1. e \in DOMAIN ast => e \notin Vars
    BY Places, VarsAssumption
  <2> QED
    BY <2>1 DEF IsExpr, IsStatement, ExprKinds, StmKinds, Conditionals
<1>3. Due(ast, t) = {} /\ ~Opened(t)
  BY <1>1, <1>2 DEF Due, Ahead, Opened, Closing
<1> QED
  BY <1>3 DEF t

\* What is left of the visit of an expression.
Rest(t) == t.step \notin Closing \cup {"code", "end loop"}

LEMMA RestNotDue ==
  ASSUME NEW t, Rest(t)
  PROVE  Due(ast, t) = {} /\ ~Opened(t)
BY DEF Rest, Due, Ahead, Opened, Closing

\* The code of leaves, operations and stores.
LEMMA StoresPlain ==
  ASSUME NEW v, NEW n \in Nat
  PROVE  Plain(StoreBytes(v, n))
<1> DEFINE f == StoreBytes(v, n)
<1>1. f = [i \in 1..n |-> f[i]] /\ \A i \in 1..n : f[i] = <<"sts", v, i - 1, R(i - 1)>>
  BY DEF StoreBytes
<1> HIDE DEF f
<1>2. \A i \in 1..n : PlainLine(f[i])
  BY <1>1 DEF PlainLine, IsLabel, IsJump
<1>3. Plain(f)
  BY <1>1, <1>2, PlainMap
<1> QED
  BY <1>3 DEF f

LEMMA LoadsPlain ==
  ASSUME NEW n, NEW last \in Nat
  PROVE  Plain(LoadBytes(n, 0, last))
<1> DEFINE f == LoadBytes(n, 0, last)
<1>1. (last - 0) + 1 = last + 1 /\ last + 1 \in Nat
  OBVIOUS
<1>2. /\ f = [i \in 1..(last + 1) |-> f[i]]
      /\ \A i \in 1..(last + 1) :
           f[i] = <<"ldi", R((0 + i) - 1), Literal(n), (0 + i) - 1>>
  BY <1>1 DEF LoadBytes
<1> HIDE DEF f
<1>3. \A i \in 1..(last + 1) : PlainLine(f[i])
  BY <1>2 DEF PlainLine, IsLabel, IsJump
<1>4. Plain(f)
  BY <1>1, <1>2, <1>3, PlainMap
<1> QED
  BY <1>4 DEF f

LEMMA BadPlain == \A what : PlainLine(Bad(what)) /\ Plain(<<Bad(what)>>)
<1>1. \A what : PlainLine(Bad(what))
  BY DEF Bad, PlainLine, IsLabel, IsJump
<1> QED
  BY <1>1, PlainFew

LEMMA WidthIs == \A tag : Width(tag) \in Nat
BY DEF Width

LEMMA ConstantPlain ==
  ASSUME VisitCONSTANT
  PROVE  \E lines : Plain(lines) /\ Emit(lines)
<1> DEFINE e == Current
           two == LoadBytes(e, 0, 1)
           four == LoadBytes(e, 0, 3)
           addr == <<<<"ldiaddr", R(0), e>>, <<"ldiaddr", R(1), e>>>>
<1>1. \/ \E what : Emit(<<Bad(what)>>)
      \/ Emit(LoadBytes(e, 0, 0)) \/ Emit(two \o four) \/ Emit(four) \/ Emit(addr)
  BY DEF VisitCONSTANT
<1>2. Plain(LoadBytes(e, 0, 0)) /\ Plain(two) /\ Plain(four)
  BY LoadsPlain
<1>3. Plain(two \o four)
  BY <1>2, PlainConcat
<1>4. Plain(addr)
  <2>1. \A r : PlainLine(<<"ldiaddr", r, e>>)
    BY DEF PlainLine, IsLabel, IsJump
  <2> QED
    BY <2>1, PlainFew
<1> HIDE DEF e, two, four, addr
<1> QED
  BY <1>1, <1>2, <1>3, <1>4, BadPlain

LEMMA IncrementPlain ==
  ASSUME Increment1
  PROVE  \E lines : Plain(lines) /\ Emit(lines)
<1> DEFINE v == Kid(1)
           stores == StoreBytes(v, Width(TagOf(v)))
           one == <<<<"subi", R(0)>>>>
           two == <<<<"adiw", R(0)>>>>
           four == <<<<"adiw", R(0)>>, <<"adc", R(2)>>, <<"adc", R(3)>>>>
<1>1. \/ Emit(<<Bad("PP")>>)
      \/ Emit(one \o stores) \/ Emit(two \o stores) \/ Emit(four \o stores)
  BY DEF Increment1
<1>2. Plain(stores)
  BY StoresPlain, WidthIs
<1>3. Plain(one) /\ Plain(two) /\ Plain(four)
  <2>1. \A r : PlainLine(<<"subi", r>>) /\ PlainLine(<<"adiw", r>>) /\ PlainLine(<<"adc", r>>)
    BY DEF PlainLine, IsLabel, IsJump
  <2> QED
    BY <2>1, PlainFew
<1> HIDE DEF v, stores, one, two, four
<1>4. Plain(one \o stores) /\ Plain(two \o stores) /\ Plain(four \o stores)
  BY <1>2, <1>3, PlainConcat
<1> QED
  BY <1>1, <1>4, BadPlain

\* One text per element of the list.
LEMMA ListPlain ==
  ASSUME TypeInv, GrammarInv, WalkInv, VisitLIST
  PROVE  \E lines : Plain(lines) /\ Emit(lines)
<1> DEFINE els == ListElements(Current)
           Code(el) ==
             IF el.tag \in Incrementable \cup {"F32_T"}
             THEN [k \in 1..Width(el.tag) |-> <<"ldi", FirstRegister + k - 1, el.node, k - 1>>]
                    \o <<Bad("NAME_LIST")>>
             ELSE <<Bad("LIST")>>
           seqs == [i \in DOMAIN els |-> Code(els[i])]
<1>1. Emit(FlattenSeq(seqs))
  BY DEF VisitLIST
<1>2. \A el : Plain(Code(el))
  <2> SUFFICES ASSUME NEW el PROVE Plain(Code(el))
    OBVIOUS
  <2> DEFINE f == [k \in 1..Width(el.tag) |-> <<"ldi", FirstRegister + k - 1, el.node, k - 1>>]
  <2>1. \A k \in 1..Width(el.tag) : f[k] = <<"ldi", FirstRegister + k - 1, el.node, k - 1>>
    OBVIOUS
  <2>2. f = [k \in 1..Width(el.tag) |-> f[k]] /\ Width(el.tag) \in Nat
    BY WidthIs
  <2>3. Code(el) = f \o <<Bad("NAME_LIST")>> \/ Code(el) = <<Bad("LIST")>>
    OBVIOUS
  <2> HIDE DEF f, Code
  <2>4. \A k \in 1..Width(el.tag) : PlainLine(f[k])
    BY <2>1 DEF PlainLine, IsLabel, IsJump
  <2>5. Plain(f)
    BY <2>2, <2>4, PlainMap
  <2> QED
    BY <2>3, <2>5, BadPlain, PlainConcat
<1>3. Current \in DOMAIN ast
  BY VisitedNode DEF VisitLIST
<1>4. Len(ast[Current].kids) \in Nat /\ DOMAIN els = 1..Len(ast[Current].kids)
  BY <1>3, Places DEF ListElements
<1> DEFINE n == Len(ast[Current].kids)
<1> HIDE DEF n, els, Code
<1>5. /\ n \in Nat /\ seqs = [i \in 1..n |-> seqs[i]] /\ DOMAIN seqs = 1..n
      /\ \A i \in 1..n : Plain(seqs[i])
  BY <1>2, <1>4 DEF n
<1> HIDE DEF seqs
<1>6. seqs \in Seq(Range(seqs))
  <2>1. seqs \in [1..n -> Range(seqs)]
    BY <1>5 DEF Range
  <2> QED
    BY <1>5, <2>1, SeqDef
<1>7. Len(seqs) = n
  <2>1. Len(seqs) \in Nat /\ DOMAIN seqs = 1..Len(seqs)
    BY <1>6, LenProperties
  <2>2. \A a, b \in Nat : 1..a = 1..b => a = b
    OBVIOUS
  <2> QED
    BY <1>5, <2>1, <2>2
<1>8. n = 0 => seqs = <<>>
  BY <1>6, <1>7, EmptySeq
<1>9. Plain(FlattenSeq(seqs))
  BY <1>5, <1>7, <1>8, PlainFlatten
<1> QED
  BY <1>1, <1>9

LEMMA ReturnsPlain ==
  ASSUME TypeInv, TreeInv, GrammarInv, WalkInv, JumpInv,
         \/ VisitVAR \/ VisitCONSTANT \/ Pass \/ Increment1 \/ VisitLIST \/ VisitOther
         \/ BinaryCombine \/ Call \/ Store
  PROVE  JumpInv'
<1>1. ASSUME NEW step \in {"code", "pass", "increment", "combine", "call", "store"},
             Doing(step), Stays, Continue(<<>>), \E lines : Plain(lines) /\ Emit(lines)
      PROVE  JumpInv'
  <2>1. phase = "generating" /\ todo # <<>> /\ Head(todo).step = step
    BY <1>1, CutVisit
  <2>2. ~Opened(Head(todo))
    BY <2>1 DEF Opened, Closing
  <2> QED
    BY <1>1, <2>1, <2>2, PlainReturn
<1>2. \A a, b, c : /\ PlainLine(<<"add", a, b>>) /\ PlainLine(<<"cp", a, b>>)
                   /\ PlainLine(<<"call", a>>) /\ PlainLine(<<"mov", a, b>>)
                   /\ PlainLine(<<"movw", a, b>>) /\ PlainLine(<<"lds", a, b, c>>)
  BY DEF PlainLine, IsLabel, IsJump
<1>3. CASE VisitVAR
  <2> DEFINE n == Width(TagOf(Current))
             f == [i \in 1..n |-> <<"lds", R(i - 1), Current, IF i = 4 THEN 4 ELSE i - 1>>]
  <2>1. Emit(f) \/ Emit(<<Bad("VAR")>>)
    BY <1>3 DEF VisitVAR
  <2>2. /\ n \in Nat /\ f = [i \in 1..n |-> f[i]]
        /\ \A i \in 1..n : f[i] = <<"lds", R(i - 1), Current, IF i = 4 THEN 4 ELSE i - 1>>
    BY WidthIs
  <2> HIDE DEF n, f
  <2>3. \A i \in 1..n : PlainLine(f[i])
    BY <2>2 DEF PlainLine, IsLabel, IsJump
  <2>4. Plain(f)
    BY <2>2, <2>3, PlainMap
  <2>5. \E lines : Plain(lines) /\ Emit(lines)
    BY <2>1, <2>4, BadPlain
  <2> QED
    BY <1>1, <1>3, <2>5 DEF VisitVAR
<1>4. CASE VisitCONSTANT
  BY <1>1, <1>4, ConstantPlain DEF VisitCONSTANT, DoingKind
<1>5. CASE Increment1
  BY <1>1, <1>5, IncrementPlain DEF Increment1
<1>6. CASE VisitLIST
  BY <1>1, <1>6, ListPlain DEF VisitLIST, DoingKind
<1>7. CASE Pass
  <2>1. \/ Emit(<<>>) \/ \E what : Emit(<<Bad(what)>>)
        \/ \E a, b : Emit(<<<<"mov", a, b>>>>) \/ Emit(<<<<"movw", a, b>>>>)
    BY <1>7 DEF Pass
  <2>2. \E lines : Plain(lines) /\ Emit(lines)
    BY <1>2, <2>1, BadPlain, PlainFew
  <2> QED
    BY <1>1, <1>7, <2>2 DEF Pass
<1>8. CASE VisitOther
  <2>1. Emit(<<>>) \/ \E what : Emit(<<Bad(what)>>)
    BY <1>8 DEF VisitOther
  <2>2. \E lines : Plain(lines) /\ Emit(lines)
    BY <2>1, BadPlain, PlainFew
  <2> QED
    BY <1>1, <1>8, <2>2 DEF VisitOther, DoingKind
<1>9. CASE BinaryCombine
  <2>1. \/ \E what : Emit(<<Bad(what)>>)
        \/ \E a, b : Emit(<<<<"add", a, b>>>>) \/ Emit(<<<<"cp", a, b>>>>)
    BY <1>9 DEF BinaryCombine
  <2>2. \E lines : Plain(lines) /\ Emit(lines)
    BY <1>2, <2>1, BadPlain, PlainFew
  <2> QED
    BY <1>1, <1>9, <2>2 DEF BinaryCombine
<1>10. CASE Call
  <2>1. \/ \E what : Emit(<<Bad(what)>>) \/ \E a : Emit(<<<<"call", a>>>>)
    BY <1>10 DEF Call
  <2>2. \E lines : Plain(lines) /\ Emit(lines)
    BY <1>2, <2>1, BadPlain, PlainFew
  <2> QED
    BY <1>1, <1>10, <2>2 DEF Call
<1>11. CASE Store
  <2>1. \/ \E what : Emit(<<Bad(what)>>) \/ Emit(StoreBytes(Kid(1), Width(TagOf(Kid(1)))))
    BY <1>11 DEF Store
  <2>2. \E lines : Plain(lines) /\ Emit(lines)
    BY <2>1, BadPlain, StoresPlain, WidthIs
  <2> QED
    BY <1>1, <1>11, <2>2 DEF Store
<1> QED
  BY <1>3, <1>4, <1>5, <1>6, <1>7, <1>8, <1>9, <1>10, <1>11

\* A visit calls another one, of an expression, and goes on with the rest.
LEMMA CallsPlain ==
  ASSUME TypeInv, TreeInv, GrammarInv, WalkInv, JumpInv,
         phase = "generating", todo # <<>>, Stays, ~Opened(Head(todo)),
         NEW e \in Ref(ast), IsExpr(ast, e), NEW then \in Tasks(ast),
         Rest(then),
         Continue(<<Visit(e), then>>), NEW lines, Plain(lines), Emit(lines)
  PROVE  JumpInv'
<1> DEFINE first == Visit(e)
           new == <<first, then>>
<1>1. first \in Tasks(ast)
  BY VisitTask
<1>2. Due(ast, first) = {} /\ ~Opened(first) /\ Due(ast, then) = {} /\ ~Opened(then)
  BY ExprNotDue, RestNotDue
<1> HIDE DEF first
<1> DEFINE S == Tasks(ast)
<1>3. first \in S /\ then \in S
  BY <1>1
<1> HIDE DEF S
<1>4. new \in Seq(S) /\ DOMAIN new = 1..2 /\ new[1] = first /\ new[2] = then
  BY <1>3
<1>5. Continue(new)
  BY DEF first
<1> HIDE DEF new
<1>6. ASSUME NEW i \in DOMAIN new PROVE ~Opened(new[i]) /\ Due(ast, new[i]) = {}
  <2>1. new[i] = first \/ new[i] = then
    BY <1>4
  <2> QED
    BY <1>2, <2>1
<1> QED
  BY <1>4, <1>5, <1>6, PlainStep DEF S

LEMMA OperationsPlain ==
  ASSUME TypeInv, TreeInv, GrammarInv, WalkInv, JumpInv,
         VisitBinary \/ BinaryRight \/ VisitUnary \/ VisitAFF
  PROVE  JumpInv'
<1>1. ASSUME NEW at \in {"code", "right"}, Doing(at), NEW n \in DOMAIN ast, NEW e \in Ref(ast),
             IsExpr(ast, e), NEW step \in {"right", "combine", "pass", "increment", "store"},
             NEW r \in Int, Continue(<<Visit(e), Task(step, n, r)>>), Stays,
             text' = text \/ \E lines : Plain(lines) /\ Emit(lines)
      PROVE  JumpInv'
  <2> DEFINE then == Task(step, n, r)
  <2>1. then \in Tasks(ast) /\ then.step = step
    <3>1. n \in Ref(ast) /\ step \in Steps
      BY DEF Ref, Steps
    <3> QED
      BY <3>1, ThenTask
  <2>2. Continue(<<Visit(e), then>>)
    BY <1>1
  <2> HIDE DEF then
  <2>3. Rest(then)
    BY <2>1 DEF Rest, Closing
  <2>4. phase = "generating" /\ todo # <<>> /\ ~Opened(Head(todo))
    BY <1>1, CutVisit DEF Opened, Closing
  <2>5. PICK lines : Plain(lines) /\ Emit(lines)
    BY <1>1, NothingEmitted
  <2> QED
    BY <1>1, <2>1, <2>2, <2>3, <2>4, <2>5, CallsPlain
<1>2. CASE VisitBinary
  <2>1. /\ DoingKind("code", {"BINARY"}) /\ Stays /\ text' = text
        /\ Continue(<<Visit(Kid(1)), Task("right", Current, currentRegisterCt)>>)
    BY <1>2 DEF VisitBinary
  <2>2. Current \in DOMAIN ast /\ ast[Current].kind = "BINARY" /\ currentRegisterCt \in Int
    BY <2>1, VisitedNode
  <2>3. Kid(1) \in Ref(ast) /\ IsExpr(ast, Kid(1))
    BY <2>2, Operands DEF Kid
  <2>4. Doing("code")
    BY <2>1 DEF DoingKind
  <2> QED
    BY <1>1, <2>1, <2>2, <2>3, <2>4
<1>3. CASE BinaryRight
  <2>1. /\ Doing("right") /\ Stays /\ text' = text
        /\ Continue(<<Visit(Kid(2)), Task("combine", Current, Saved)>>)
    BY <1>3 DEF BinaryRight
  <2>2. /\ Current \in DOMAIN ast /\ ast[Current].kind = "BINARY" /\ Saved \in Int
    BY <2>1, CutVisit DEF Suits
  <2>3. Kid(2) \in Ref(ast) /\ IsExpr(ast, Kid(2))
    BY <2>2, Operands DEF Kid
  <2> QED
    BY <1>1, <2>1, <2>2, <2>3
<1>4. CASE VisitAFF
  <2>1. /\ DoingKind("code", {"AFF"}) /\ Stays /\ text' = text
        /\ Continue(<<Visit(Kid(2)), Task("store", Current, 0)>>)
    BY <1>4 DEF VisitAFF
  <2>2. Current \in DOMAIN ast /\ ast[Current].kind = "AFF"
    BY <2>1, VisitedNode
  <2>3. Kid(2) \in Ref(ast) /\ IsExpr(ast, Kid(2))
    BY <2>2, Operands DEF Kid
  <2>4. Doing("code") /\ 0 \in Int
    BY <2>1 DEF DoingKind
  <2> QED
    BY <1>1, <2>1, <2>2, <2>3, <2>4
<1>5. CASE VisitUnary
  <2>1. /\ DoingKind("code", {"UNARY"}) /\ Stays
        /\ \/ /\ \E step \in {"pass", "increment"} :
                   Continue(<<Visit(Kid(1)), Task(step, Current, 0)>>)
              /\ text' = text \/ Emit(<<>>) \/ Emit(<<Bad("ARG")>>)
           \/ Continue(<<>>) /\ Emit(<<Bad("UNARY")>>)
    BY <1>5 DEF VisitUnary
  <2>2. /\ Current \in DOMAIN ast /\ ast[Current].kind = "UNARY" /\ Doing("code")
        /\ phase = "generating" /\ todo # <<>> /\ Head(todo).step = "code"
    BY <2>1, VisitedNode DEF DoingKind, Doing
  <2>3. Kid(1) \in Ref(ast) /\ IsExpr(ast, Kid(1)) /\ 0 \in Int
    BY <2>2, Operands DEF Kid
  <2>4. CASE Continue(<<>>) /\ Emit(<<Bad("UNARY")>>)
    <3>1. ~Opened(Head(todo))
      BY <2>2 DEF Opened, Closing
    <3> QED
      BY <2>1, <2>2, <2>4, <3>1, BadPlain, PlainReturn
  <2>5. ASSUME NEW step \in {"pass", "increment"},
               Continue(<<Visit(Kid(1)), Task(step, Current, 0)>>),
               text' = text \/ Emit(<<>>) \/ Emit(<<Bad("ARG")>>)
        PROVE  JumpInv'
    <3>1. text' = text \/ \E lines : Plain(lines) /\ Emit(lines)
      BY <2>5, BadPlain, PlainFew
    <3> QED
      BY <1>1, <2>1, <2>2, <2>3, <2>5, <3>1
  <2> QED
    BY <2>1, <2>4, <2>5
<1> QED
  BY <1>2, <1>3, <1>4, <1>5

\* The visits of a call, of an argument and of DataGeneratorVisitor.
LEMMA InTurnPlain ==
  ASSUME TypeInv, TreeInv, GrammarInv, WalkInv, JumpInv, VisitCall \/ Argument \/ DataVisit
  PROVE  JumpInv'
<1>1. ASSUME NEW new \in Seq(Tasks(ast)), Continue(new), Stays, text' = text,
             NEW at \in {"code", "argument", "data"}, Doing(at),
             \A i \in DOMAIN new : ~Opened(new[i]) /\ Due(ast, new[i]) = {}
      PROVE  JumpInv'
  <2>1. phase = "generating" /\ todo # <<>> /\ ~Opened(Head(todo))
    BY <1>1, CutVisit DEF Opened, Closing
  <2>2. Emit(<<>>) /\ Plain(<<>>)
    BY <1>1, NothingEmitted
  <2> QED
    BY <1>1, <2>1, <2>2, PlainStep
<1>2. CASE Argument
  <2>1. Doing("argument") /\ Stays /\ text' = text /\ Continue(<<Visit(Current)>>)
    BY <1>2 DEF Argument
  <2>2. Current \in Ref(ast) /\ IsExpr(ast, Current)
    BY <2>1, CutVisit DEF Suits
  <2> DEFINE t == Visit(Current)
             new == <<t>>
  <2>3. t \in Tasks(ast) /\ Due(ast, t) = {} /\ ~Opened(t)
    BY <2>2, VisitTask, ExprNotDue
  <2>4. Continue(new)
    BY <2>1
  <2> HIDE DEF t
  <2>5. new \in Seq(Tasks(ast)) /\ DOMAIN new = {1} /\ new[1] = t
    BY <2>3
  <2> HIDE DEF new
  <2> QED
    BY <1>1, <2>1, <2>3, <2>4, <2>5
<1>3. CASE DataVisit
  <2> DEFINE nodes == IF Current \in Vars THEN <<>> ELSE DataKids(Current)
             new == [i \in DOMAIN nodes |-> Task("data", nodes[i], 0)]
  <2>1. Doing("data") /\ Stays /\ text' = text
    BY <1>3 DEF DataVisit
  <2>2. nodes \in Seq(Ref(ast)) /\ "data" \in Steps
    <3>1. Current \in Ref(ast)
      BY <2>1, CutVisit
    <3>2. Current \notin Vars => DataKids(Current) \in Seq(Ref(ast))
      BY <3>1, DataNodes DEF Ref
    <3>3. <<>> \in Seq(Ref(ast)) /\ "data" \in Steps
      BY EmptySeq DEF Steps
    <3> QED
      BY <3>2, <3>3
  <2>3. Continue(new)
    <3>1. CASE Current \in Vars
      <4>1. Continue(<<>>)
        BY <1>3, <3>1 DEF DataVisit
      <4>2. new = <<>>
        <5>1. nodes = <<>>
          BY <3>1
        <5>2. DOMAIN nodes = {}
          BY <5>1
        <5>3. new \in Seq(Tasks(ast)) /\ Len(new) = Len(nodes)
          BY <2>2, TasksInTurn
        <5> HIDE DEF new, nodes
        <5> QED
          BY <5>1, <5>3, EmptySeq
      <4> QED
        BY <4>1, <4>2
    <3>2. CASE Current \notin Vars
      BY <1>3, <3>2 DEF DataVisit
    <3> QED
      BY <3>1, <3>2
  <2> HIDE DEF nodes
  <2>4. /\ new \in Seq(Tasks(ast)) /\ Len(new) = Len(nodes)
        /\ \A i \in 1..Len(new) : new[i].step = "data"
    BY <2>2, TasksInTurn
  <2> HIDE DEF new
  <2>5. DOMAIN new = 1..Len(new)
    BY <2>4, LenProperties
  <2>6. \A i \in DOMAIN new : ~Opened(new[i]) /\ Due(ast, new[i]) = {}
    BY <2>4, <2>5, RestNotDue DEF Rest, Closing
  <2> QED
    BY <1>1, <2>1, <2>3, <2>4, <2>6
<1>4. CASE VisitCall
  <2> DEFINE nodes == ast[Current].kids
             args == [i \in DOMAIN nodes |-> Task("argument", nodes[i], 0)]
             then == Task("call", Current, currentRegisterCt)
             last == <<then>>
             new == args \o last
  <2>1. DoingKind("code", {"CALL"}) /\ Stays /\ text' = text /\ Continue(new)
    BY <1>4 DEF VisitCall, Kid
  <2>2. Current \in DOMAIN ast /\ currentRegisterCt \in Int /\ Doing("code")
    BY <2>1, VisitedNode DEF DoingKind
  <2>3. nodes \in Seq(Ref(ast))
    BY <2>2, Children
  <2>4. "argument" \in Steps /\ "call" \in Steps /\ Current \in Ref(ast)
    BY <2>2 DEF Steps, Ref
  <2> HIDE DEF nodes
  <2>5. /\ args \in Seq(Tasks(ast)) /\ \A i \in 1..Len(args) : args[i].step = "argument"
    BY <2>3, <2>4, TasksInTurn
  <2>6. then \in Tasks(ast) /\ then.step = "call"
    BY <2>2, <2>4, ThenTask
  <2> HIDE DEF args, then
  <2>7. last \in Seq(Tasks(ast)) /\ Len(last) = 1 /\ last[1] = then
    BY <2>6
  <2> HIDE DEF last
  <2>8. /\ new \in Seq(Tasks(ast)) /\ Len(new) = Len(args) + Len(last)
        /\ \A i \in 1..(Len(args) + Len(last)) :
             new[i] = IF i <= Len(args) THEN args[i] ELSE last[i - Len(args)]
    BY <2>5, <2>7, ConcatProperties
  <2> HIDE DEF new
  <2>9. Len(args) \in Nat /\ DOMAIN new = 1..(Len(args) + 1)
    BY <2>5, <2>7, <2>8, LenProperties
  <2>10. ASSUME NEW i \in DOMAIN new PROVE new[i].step \in {"argument", "call"}
    <3>1. CASE i <= Len(args)
      BY <2>5, <2>7, <2>8, <2>9, <3>1
    <3>2. CASE ~(i <= Len(args))
      <4>1. i = Len(args) + 1 /\ i - Len(args) = 1
        BY <2>9, <3>2
      <4> QED
        BY <2>6, <2>7, <2>8, <3>2, <4>1
    <3> QED
      BY <3>1, <3>2
  <2>11. \A i \in DOMAIN new : ~Opened(new[i]) /\ Due(ast, new[i]) = {}
    BY <2>10, RestNotDue DEF Rest, Closing
  <2> QED
    BY <1>1, <2>1, <2>2, <2>8, <2>11
<1> QED
  BY <1>2, <1>3, <1>4

-------------------------------------------------------------------------------
(***************************************************************************)
(* Statements.                                                             *)
(***************************************************************************)
\* The visits of a list.
Two(new, a, b) == DOMAIN new = 1..2 /\ new[1] = a /\ new[2] = b

LEMMA TwoVisits ==
  ASSUME NEW e \in Ref(ast), NEW then \in Tasks(ast)
  PROVE  LET new == <<Visit(e), then>>
         IN new \in Seq(Tasks(ast)) /\ Two(new, Visit(e), then)
<1> DEFINE first == Visit(e)
           S == Tasks(ast)
           new == <<first, then>>
<1>1. first \in S /\ then \in S
  BY VisitTask
<1> HIDE DEF first, S
<1>2. new \in Seq(S) /\ DOMAIN new = 1..2 /\ new[1] = first /\ new[2] = then
  BY <1>1
<1> HIDE DEF new
<1>3. new \in Seq(S) /\ Two(new, first, then)
  BY <1>2 DEF Two
<1> QED
  BY <1>3 DEF first, S, new

LEMMA TwoLines ==
  ASSUME NEW a, NEW b
  PROVE  LET lines == <<a, b>> IN IsText(lines) /\ Two(lines, a, b)
<1> DEFINE lines == <<a, b>>
<1>1. lines \in Seq({a, b}) /\ DOMAIN lines = 1..2 /\ lines[1] = a /\ lines[2] = b
  OBVIOUS
<1> HIDE DEF lines
<1>2. IsText(lines) /\ Two(lines, a, b)
  BY <1>1, TextIs DEF Two
<1> QED
  BY <1>2 DEF lines

LEMMA CodeTask ==
  ASSUME NEW e
  PROVE  /\ Visit(e).step = "code" /\ Visit(e).node = e
         /\ \A t : t.step = "code" =>
              /\ Fits(ast, t) /\ ~Opened(t) /\ Owes(ast, t) = {}
              /\ \A s : s \in Due(ast, t) <=> s = t.node /\ IsStatement(ast, s)
<1>1. Visit(e).step = "code" /\ Visit(e).node = e
  BY DEF Visit, Task
<1>2. ASSUME NEW t, t.step = "code"
      PROVE  /\ Fits(ast, t) /\ ~Opened(t) /\ Owes(ast, t) = {}
             /\ \A s : s \in Due(ast, t) <=> s = t.node /\ IsStatement(ast, s)
  BY <1>2 DEF Fits, Opened, Closing, Owes, Due, Ahead
<1> QED
  BY <1>1, <1>2

\* The statement n of the visit t, or one that t led to before, is taken down to
\* its child e, and then the visit is then.
Descends(as, t, n, e, then, D) ==
  /\ D \in {{}, {n}} /\ D \subseteq Due(as, t)
  /\ D = {} => Opened(t)
  /\ IsStatement(as, e) => D = {n} \/ e \in Due(as, t)
  /\ \A s \in Due(as, then) : s # e /\ KidOf(as, s, n) /\ (D = {n} \/ s \in Due(as, t))

\* A child of the statement of the visit at hand is visited, and then the
\* statement is taken up again.
LEMMA BodyStep ==
  ASSUME TypeInv, TreeInv, GrammarInv, WalkInv, JumpInv,
         phase = "generating", todo # <<>>, Stays,
         NEW n \in DOMAIN ast, n = Head(todo).node, NEW e \in Ref(ast), KidOf(ast, e, n),
         NEW then \in Tasks(ast), then.node = n, Opened(then), Fits(ast, then),
         NEW new \in Seq(Tasks(ast)), Two(new, Visit(e), then), Continue(new),
         NEW D, Descends(ast, Head(todo), n, e, then, D),
         NEW lines, IsText(lines), Emit(lines), Writes(ast, Head(todo), D, new, lines)
  PROVE  JumpInv'
<1> DEFINE first == Visit(e)
           t == Head(todo)
<1>1. Two(new, first, then)
  OBVIOUS
<1>a. /\ D \in {{}, {n}} /\ D \subseteq Due(ast, t)
      /\ D = {} => Opened(t)
      /\ IsStatement(ast, e) => D = {n} \/ e \in Due(ast, t)
      /\ \A s \in Due(ast, then) :
           s # e /\ KidOf(ast, s, n) /\ (D = {n} \/ s \in Due(ast, t))
  BY DEF Descends
<1>2. /\ Fits(ast, first) /\ ~Opened(first)
      /\ \A s \in Due(ast, first) : s = e /\ IsStatement(ast, s)
  BY CodeTask
<1> HIDE DEF first, t
<1>3. /\ DOMAIN new = 1..2 /\ new[1] = first /\ new[2] = then
      /\ \A i \in DOMAIN new : i = 1 \/ i = 2
  BY <1>1 DEF Two
<1>4. ASSUME NEW i \in DOMAIN new
      PROVE  /\ Fits(ast, new[i])
             /\ \A s \in Due(ast, new[i]) :
                  (s \in Due(ast, t) /\ s \notin D) \/ \E m \in D : KidOf(ast, s, m)
             /\ Opened(new[i]) => new[i].node \in D \/ (Opened(t) /\ new[i].node = t.node)
  <2>1. CASE i = 1
    <3>1. ASSUME NEW s \in Due(ast, first)
          PROVE  (s \in Due(ast, t) /\ s \notin D) \/ \E m \in D : KidOf(ast, s, m)
      <4>1. s = e /\ IsStatement(ast, e)
        BY <1>2, <3>1
      <4>2. CASE D = {n}
        <5>1. n \in D /\ KidOf(ast, e, n)
          BY <4>2
        <5> QED
          BY <4>1, <5>1
      <4>3. CASE D = {}
        <5>1. e \in Due(ast, t)
          BY <1>a, <4>1, <4>3
        <5> QED
          BY <4>1, <4>3, <5>1
      <4> QED
        BY <1>a, <4>2, <4>3
    <3> QED
      BY <1>2, <1>3, <2>1, <3>1
  <2>2. CASE i = 2
    <3>1. ASSUME NEW s \in Due(ast, then)
          PROVE  (s \in Due(ast, t) /\ s \notin D) \/ \E m \in D : KidOf(ast, s, m)
      <4>1. KidOf(ast, s, n) /\ (D = {n} \/ s \in Due(ast, t))
        BY <1>a, <3>1
      <4>2. CASE D = {n}
        <5>1. n \in D
          BY <4>2
        <5> QED
          BY <4>1, <5>1
      <4>3. CASE D = {}
        <5>1. n \notin D
          BY <4>3
        <5>2. s \in Due(ast, t) /\ s \notin D
          BY <4>1, <4>3, <5>1
        <5> QED
          BY <5>2
      <4> QED
        BY <1>a, <4>2, <4>3
    <3>2. then.node \in D \/ (Opened(t) /\ then.node = t.node)
      BY <1>a DEF t
    <3> QED
      BY <1>3, <2>2, <3>1, <3>2
  <2> QED
    BY <1>3, <2>1, <2>2
<1>5. \A i, j \in DOMAIN new : i # j => Due(ast, new[i]) \cap Due(ast, new[j]) = {}
  BY <1>2, <1>3, <1>a
<1>6. \A i, j \in DOMAIN new : Opened(new[i]) /\ Opened(new[j]) => i = j
  BY <1>2, <1>3
<1>7. Walks(ast, t, D, new)
  BY <1>4, <1>5, <1>6, <1>a DEF Walks, t
<1> QED
  BY <1>1, <1>7, JumpStep DEF t

\* The expression of a statement that governs others is visited.
LEMMA ControlStarts ==
  ASSUME TypeInv, TreeInv, GrammarInv, WalkInv, JumpInv, VisitControl
  PROVE  JumpInv'
<1> DEFINE t == Head(todo)
           n == Current
           e == Kid(1)
           then == Task("control", n, 0)
           new == <<Visit(e), then>>
<1>1. DoingKind("code", Governing) /\ Stays /\ text' = text /\ Continue(new)
  BY DEF VisitControl, Governing
<1>2. /\ n \in DOMAIN ast /\ ast[n].kind \in Governing
      /\ phase = "generating" /\ todo # <<>> /\ t.step = "code" /\ t.node = n
  BY <1>1, VisitedNode, CurrentTask DEF DoingKind, Doing
<1>3. /\ Len(ast[n].kids) >= 2 /\ Len(ast[n].kids) \in Nat
      /\ DOMAIN ast[n].kids = 1..Len(ast[n].kids)
  BY <1>2, Children DEF Grammatical
<1>4. e \in Ref(ast) /\ IsExpr(ast, e) /\ KidOf(ast, e, n)
  <2>1. e \in Ref(ast) /\ IsExpr(ast, e)
    BY <1>2, Operands DEF Kid
  <2>2. 1 \in DOMAIN ast[n].kids
    BY <1>3
  <2> QED
    BY <2>1, <2>2 DEF KidOf, Kid
<1>5. /\ then \in Tasks(ast) /\ then.step = "control" /\ then.node = n
  <2>1. "control" \in Steps /\ n \in Ref(ast) /\ 0 \in Int
    BY <1>2 DEF Steps, Ref
  <2> QED
    BY <2>1, ThenTask
<1>6. ~IsStatement(ast, e)
  BY <1>4, CodeTask, ExprNotDue
<1>7. new \in Seq(Tasks(ast)) /\ Two(new, Visit(e), then)
  BY <1>4, <1>5, TwoVisits
<1>8. Owes(ast, Visit(e)) = {} /\ Visit(e).step = "code"
  BY CodeTask
<1>9. Owes(ast, t) = {} /\ \A s : s \in Due(ast, t) <=> s = n /\ IsStatement(ast, s)
  BY <1>2, CodeTask
<1> HIDE DEF then, t, n, e
<1>10. IsStatement(ast, n)
  BY <1>2 DEF IsStatement, StmKinds, Governing
<1>11. /\ Fits(ast, then) /\ Opened(then)
       /\ \A s \in Due(ast, then) : IsStatement(ast, s) /\ KidOf(ast, s, n)
  <2>1. \A i \in 2..Len(ast[n].kids) : i \in DOMAIN ast[n].kids
    BY <1>3
  <2> QED
    BY <1>2, <1>3, <1>5, <2>1 DEF Fits, Opened, Closing, Due, Ahead, KidOf
<1>12. \A s \in Owes(ast, then) : KidOf(ast, s, n)
  BY <1>5, <1>11, OwesBodies
<1>13. Writes(ast, t, {n}, new, <<>>)
  <2>1. t.step # "end loop" /\ DOMAIN <<>> = {}
    BY <1>2
  <2>2. \A i \in DOMAIN new : new[i] = Visit(e) \/ new[i] = then
    BY <1>7 DEF Two
  <2> HIDE DEF new
  <2>3. \A i \in DOMAIN new : new[i].step # "end loop" /\ \A s \in Owes(ast, new[i]) : KidOf(ast, s, n)
    BY <1>5, <1>8, <1>12, <2>2
  <2> QED
    BY <1>9, <2>1, <2>3 DEF Writes
<1>14. Emit(<<>>) /\ IsText(<<>>)
  BY <1>1, NothingEmitted DEF Plain
<1>15. Continue(new)
  BY <1>1 DEF then, n, e
<1>16. Descends(ast, t, n, e, then, {n})
  BY <1>6, <1>9, <1>10, <1>11 DEF Descends
<1> HIDE DEF new
<1> QED
  BY <1>1, <1>2, <1>4, <1>5, <1>6, <1>7, <1>11, <1>13, <1>14, <1>15, <1>16, BodyStep
     DEF t

\* The visit of a statement that was cut.
LEMMA OpenedVisit ==
  ASSUME WalkInv, JumpInv, NEW step \in Cuts, Doing(step)
  PROVE  /\ phase = "generating" /\ todo # <<>> /\ Head(todo).step = step
         /\ Current = Head(todo).node /\ Saved = Head(todo).saved
         /\ Fits(ast, Head(todo)) /\ Opened(Head(todo)) /\ Current \in DOMAIN ast
         /\ Due(ast, Head(todo)) \subseteq DOMAIN ast
<1>1. /\ phase = "generating" /\ todo # <<>> /\ Head(todo).step = step
      /\ Current = Head(todo).node /\ Saved = Head(todo).saved
  BY CutVisit
<1>2. Head(todo) = todo[1] /\ 1 \in DOMAIN todo
  <2> DEFINE S == Tasks(ast)
  <2>1. todo \in Seq(S)
    BY DEF WalkInv, GenTypeOK, Tasks
  <2>2. todo # <<>>
    BY <1>1
  <2> HIDE DEF S
  <2> QED
    BY <2>1, <2>2
<1>3. Fits(ast, Head(todo))
  BY <1>2 DEF JumpInv, OnceInv
<1>4. Opened(Head(todo))
  BY <1>1 DEF Opened, Cuts
<1>5. Current \in DOMAIN ast
  BY <1>1, <1>3 DEF Fits, Cuts
<1>6. Due(ast, Head(todo)) \subseteq DOMAIN ast
  BY DEF Due, IsStatement
<1> QED
  BY <1>1, <1>3, <1>4, <1>5, <1>6

\* The visit of a statement ends.
LEMMA ReturnStep ==
  ASSUME TypeInv, TreeInv, GrammarInv, WalkInv, JumpInv,
         NEW step \in Cuts, Doing(step), Stays, Continue(<<>>),
         NEW lines, IsText(lines), Emit(lines), Writes(ast, Head(todo), {}, <<>>, lines)
  PROVE  JumpInv'
<1> DEFINE new == <<>>
           D == {}
<1>1. new \in Seq(Tasks(ast)) /\ DOMAIN new = {}
  BY EmptySeq
<1>2. Continue(new)
  OBVIOUS
<1>3. Writes(ast, Head(todo), D, new, lines)
  OBVIOUS
<1>4. phase = "generating" /\ todo # <<>>
  BY OpenedVisit
<1>5. D = {}
  OBVIOUS
<1> HIDE DEF new, D
<1>6. Walks(ast, Head(todo), D, new)
  BY <1>1, <1>5 DEF Walks
<1> QED
  BY <1>1, <1>2, <1>3, <1>4, <1>6, JumpStep

\* It ends with nothing but its label.
LEMMA OwesNothingMore ==
  ASSUME NEW t, NEW s \in DOMAIN ast, Owes(ast, t) = {s}, NEW lines,
         DOMAIN lines # {}, lines[1] = Mention(ast, s), 1 \in DOMAIN lines,
         \A i \in DOMAIN lines : i # 1 => PlainLine(lines[i])
  PROVE  Writes(ast, t, {}, <<>>, lines)
<1> DEFINE new == <<>>
           D == {}
<1>1. DOMAIN new = {}
  OBVIOUS
<1>2. Has(lines, Mention(ast, s))
  BY DEF Has
<1>3. ~IsJump(lines[1])
  BY DEF Mention, IsJump
<1>4. \A i \in DOMAIN lines : IsLabel(lines[i]) => i = 1
  BY DEF PlainLine
<1>5. \A i \in DOMAIN lines : ~IsJump(lines[i])
  BY <1>3 DEF PlainLine
<1> HIDE DEF new
<1>6. Writes(ast, t, D, new, lines)
  BY <1>1, <1>2, <1>4, <1>5 DEF Writes
<1> QED
  BY <1>6 DEF new

LEMMA OneLine ==
  ASSUME NEW a
  PROVE  LET lines == <<a>> IN IsText(lines) /\ DOMAIN lines = {1} /\ lines[1] = a
<1> DEFINE lines == <<a>>
<1>1. lines \in Seq({a}) /\ DOMAIN lines = {1} /\ lines[1] = a
  OBVIOUS
<1> HIDE DEF lines
<1>2. IsText(lines)
  BY <1>1, TextIs
<1> QED
  BY <1>1, <1>2 DEF lines

LEMMA EndIfJumps ==
  ASSUME TypeInv, TreeInv, GrammarInv, WalkInv, JumpInv, EndIf
  PROVE  JumpInv'
<1> DEFINE t == Head(todo)
           s == ast[t.node].kids[IF t.saved = 1 THEN 3 ELSE 2]
           a == Mention(ast, s)
           lines == <<a>>
<1>1. Doing("end if") /\ Stays /\ Continue(<<>>)
  BY DEF EndIf
<1>2. "end if" \in Cuts
  BY DEF Closing, Cuts
<1>3. t.step = "end if" /\ Fits(ast, t) /\ Current = t.node /\ Saved = t.saved
  BY <1>1, <1>2, OpenedVisit
<1>4. Emit(lines)
  <2>1. s = Kid(IF Saved = 1 THEN 3 ELSE 2)
    BY <1>3 DEF Kid
  <2>2. a = <<"label", Label(s)>>
    BY LabelIs
  <2> HIDE DEF s, a
  <2> QED
    BY <2>1, <2>2 DEF EndIf
<1>5. Owes(ast, t) = {s}
  BY <1>3 DEF Owes
<1> HIDE DEF t, s
<1>6. s \in DOMAIN ast
  BY <1>3, <1>5, OwesBodies
<1>7. IsText(lines) /\ DOMAIN lines = {1} /\ lines[1] = a
  BY OneLine
<1> HIDE DEF lines
<1>8. Writes(ast, t, {}, <<>>, lines)
  BY <1>5, <1>6, <1>7, OwesNothingMore DEF a
<1> QED
  BY <1>1, <1>2, <1>4, <1>7, <1>8, ReturnStep DEF t

LEMMA EndWhileJumps ==
  ASSUME TypeInv, TreeInv, GrammarInv, WalkInv, JumpInv, EndWhile
  PROVE  JumpInv'
<1> DEFINE t == Head(todo)
           s == ast[t.node].kids[2]
           a == Mention(ast, s)
           b == <<"tst", R(0)>>
           c == <<"brne", Label1(s)>>
           lines == <<a, b, c>>
<1>1. Doing("end while") /\ Stays /\ Continue(<<>>)
  BY DEF EndWhile
<1>2. "end while" \in Cuts
  BY DEF Closing, Cuts
<1>3. t.step = "end while" /\ Fits(ast, t) /\ Current = t.node
  BY <1>1, <1>2, OpenedVisit
<1>4. Emit(lines)
  <2>1. s = Kid(2)
    BY <1>3 DEF Kid
  <2>2. a = <<"label", Label(s)>>
    BY LabelIs
  <2> HIDE DEF s, a
  <2> QED
    BY <2>1, <2>2 DEF EndWhile
<1>5. Owes(ast, t) = {s}
  BY <1>3 DEF Owes
<1>6. PlainLine(b) /\ PlainLine(c)
  BY DEF PlainLine, IsLabel, IsJump
<1> HIDE DEF t, s, b, c
<1>7. s \in DOMAIN ast
  BY <1>3, <1>5, OwesBodies
<1> HIDE DEF a
<1>8. /\ lines \in Seq({a, b, c}) /\ DOMAIN lines = {1, 2, 3}
      /\ lines[1] = a /\ lines[2] = b /\ lines[3] = c
  OBVIOUS
<1> HIDE DEF lines
<1>9. IsText(lines)
  BY <1>8, TextIs
<1>10. Writes(ast, t, {}, <<>>, lines)
  BY <1>5, <1>6, <1>7, <1>8, OwesNothingMore DEF a
<1> QED
  BY <1>1, <1>2, <1>4, <1>9, <1>10, ReturnStep DEF t

LEMMA PlainSeven ==
  ASSUME NEW a, NEW b, NEW c, NEW d, NEW e, NEW f, NEW g,
         PlainLine(a), PlainLine(b), PlainLine(c), PlainLine(d), PlainLine(e), PlainLine(f),
         PlainLine(g)
  PROVE  Plain(<<a, b, c, d, e, f, g>>)
<1> DEFINE s == <<a, b, c, d, e, f, g>>
           S == {a, b, c, d, e, f, g}
<1>1. s \in Seq(S)
  OBVIOUS
<1>2. DOMAIN s = 1..7
  OBVIOUS
<1>3. \A i \in 1..7 : s[i] \in S
  <2>1. s[1] = a /\ s[2] = b /\ s[3] = c /\ s[4] = d /\ s[5] = e /\ s[6] = f /\ s[7] = g
    OBVIOUS
  <2> HIDE DEF s
  <2> QED
    BY <2>1
<1>4. \A x \in S : PlainLine(x)
  OBVIOUS
<1> HIDE DEF s, S
<1> QED
  BY <1>1, <1>2, <1>3, <1>4, TextIs DEF Plain, s

LEMMA EndForeachJumps ==
  ASSUME TypeInv, TreeInv, GrammarInv, WalkInv, JumpInv, EndForeach
  PROVE  JumpInv'
<1> DEFINE t == Head(todo)
           lines == <<Bad("ldd"), Bad("subi"), Bad("std"), Bad("label"), Bad("ldd"), Bad("cpi"),
                      <<"brne", Label(Kid(2))>>>>
           D == {}
           new == <<>>
<1>1. Doing("end foreach") /\ Stays /\ Continue(<<>>) /\ Emit(lines)
  BY DEF EndForeach
<1>2. "end foreach" \in Cuts
  BY DEF Closing, Cuts
<1>3. t.step = "end foreach"
  BY <1>1, <1>2, OpenedVisit
<1>4. Plain(lines)
  <2>1. PlainLine(<<"brne", Label(Kid(2))>>)
    BY DEF PlainLine, IsLabel, IsJump
  <2> QED
    BY <2>1, BadPlain, PlainSeven
<1> HIDE DEF t, lines
<1>5. Owes(ast, t) = {}
  BY <1>3 DEF Owes
<1>6. DOMAIN new = {} /\ D = {}
  OBVIOUS
<1> HIDE DEF new, D
<1>7. Writes(ast, t, D, new, lines)
  BY <1>4, <1>5, <1>6 DEF Writes, Plain, PlainLine
<1>8. IsText(lines)
  BY <1>4 DEF Plain
<1> QED
  BY <1>1, <1>2, <1>7, <1>8, ReturnStep DEF t, D, new

LEMMA EndLoopJumps ==
  ASSUME TypeInv, TreeInv, GrammarInv, WalkInv, JumpInv, EndLoop
  PROVE  JumpInv'
<1> DEFINE t == Head(todo)
           a == <<"jmp", <<".LOOP_", Ident(ast, t.node)>>>>
           b == EndLoopLabel(ast, t.node)
           lines == <<a, b>>
           D == {}
           new == <<>>
<1>1. Doing("end loop") /\ Stays /\ Continue(<<>>)
  BY DEF EndLoop
<1>2. "end loop" \in Cuts
  BY DEF Closing, Cuts
<1>3. t.step = "end loop" /\ Current = t.node
  BY <1>1, <1>2, OpenedVisit
<1>4. Emit(lines)
  <2>1. StmId(Current) = Ident(ast, t.node)
    BY <1>3, LabelIs
  <2> QED
    BY <2>1 DEF EndLoop, EndLoopLabel
<1>5. /\ ~IsLabel(a) /\ ~IsJump(b) /\ a # b
      /\ a[2] = <<".LOOP_", Ident(ast, t.node)>> /\ b = EndLoopLabel(ast, t.node)
  BY DEF IsLabel, IsJump, EndLoopLabel
<1>6. Owes(ast, t) = {}
  BY <1>3 DEF Owes
<1> HIDE DEF t, a, b
<1>7. IsText(lines) /\ Two(lines, a, b)
  BY TwoLines
<1> HIDE DEF lines
<1>8. DOMAIN new = {} /\ D = {}
  OBVIOUS
<1> HIDE DEF new, D
<1>9. \A i \in DOMAIN lines : \/ i = 1 /\ lines[i] = a /\ ~IsLabel(lines[i])
                              \/ i = 2 /\ lines[i] = b /\ ~IsJump(lines[i])
  BY <1>5, <1>7 DEF Two
<1>10. Writes(ast, t, D, new, lines)
  BY <1>3, <1>5, <1>6, <1>8, <1>9 DEF Writes
<1> QED
  BY <1>1, <1>2, <1>4, <1>7, <1>10, ReturnStep DEF t, D, new

\* A body has one place.
LEMMA BodyKid ==
  ASSUME TypeInv, TreeInv, GrammarInv, NEW n \in DOMAIN ast, NEW i \in BodyOf(ast[n]),
         NEW s, s = ast[n].kids[i]
  PROVE  /\ IsStatement(ast, s) /\ KidOf(ast, s, n) /\ s \in Ref(ast) /\ s \in DOMAIN ast
         /\ \A j \in DOMAIN ast[n].kids : ast[n].kids[j] = s => j = i
<1>1. IsStatement(ast, s) /\ i \in DOMAIN ast[n].kids
  BY DEF TreeInv, BodiesAreStatements, BodyOf
<1>2. KidOf(ast, s, n) /\ s \in DOMAIN ast /\ s \in Ref(ast)
  BY <1>1 DEF KidOf, IsStatement, Ref
<1>3. s \notin Vars
  BY <1>1, OneParentOf
<1>4. \A j \in DOMAIN ast[n].kids : ast[n].kids[j] = s => j = i
  BY <1>1, <1>3 DEF TreeInv, OneParent, Same
<1> QED
  BY <1>1, <1>2, <1>4

\* A visit owes labels when it is one of a statement that was cut.
LEMMA TwoOwe ==
  ASSUME NEW e, NEW then, NEW new, Two(new, Visit(e), then)
  PROVE  /\ \A s : (\E j \in DOMAIN new : s \in Owes(ast, new[j])) <=> s \in Owes(ast, then)
         /\ \A j \in DOMAIN new : new[j].step = "end loop" => new[j] = then
<1>1. Visit(e).step = "code" /\ Owes(ast, Visit(e)) = {}
  BY CodeTask
<1>2. 2 \in DOMAIN new /\ new[2] = then /\ \A j \in DOMAIN new : new[j] = Visit(e) \/ new[j] = then
  BY DEF Two
<1> QED
  BY <1>1, <1>2

\* The false branch, after the true one.
LEMMA ElseJumps ==
  ASSUME TypeInv, TreeInv, GrammarInv, WalkInv, JumpInv, Else
  PROVE  JumpInv'
<1> DEFINE t == Head(todo)
           n == Current
           s == Kid(2)
           e == Kid(3)
           then == Task("end if", n, 1)
           new == <<Visit(e), then>>
           a == <<"rjmp", LabelOf(ast, e)>>
           b == Mention(ast, s)
           lines == <<a, b>>
           D == {}
<1>1. Doing("else") /\ Stays /\ Continue(new)
  BY DEF Else
<1>2. "else" \in Cuts
  BY DEF Closing, Cuts
<1>3. /\ t.step = "else" /\ Fits(ast, t) /\ Opened(t) /\ n = t.node /\ n \in DOMAIN ast
      /\ phase = "generating" /\ todo # <<>>
  BY <1>1, <1>2, OpenedVisit
<1>4. Emit(lines)
  <2>1. a = <<"rjmp", Label(e)>> /\ b = <<"label", Label(s)>>
    BY LabelIs
  <2> HIDE DEF a, b
  <2> QED
    BY <2>1 DEF Else
<1>5. ast[n].kind \in Governing /\ 2 \in DOMAIN ast[n].kids /\ 3 \in DOMAIN ast[n].kids
  <2>1. Len(ast[n].kids) \in Nat /\ DOMAIN ast[n].kids = 1..Len(ast[n].kids)
    BY <1>3, Children
  <2>2. ast[n].kind \in Governing /\ Len(ast[n].kids) >= 3
    BY <1>3 DEF Fits, Closing
  <2> QED
    BY <2>1, <2>2
<1>6. s = ast[n].kids[2] /\ e = ast[n].kids[3]
  BY DEF Kid
<1>7. /\ Owes(ast, t) = {s, e} /\ Owes(ast, then) = {e} /\ Due(ast, then) = {}
      /\ then.step = "end if" /\ then.node = n /\ Opened(then)
      /\ \A r : r \in Due(ast, t) <=> r = e /\ IsStatement(ast, r)
  <2>1. then.step = "end if" /\ then.node = n /\ then.saved = 1
    BY DEF Task
  <2> HIDE DEF then, s, e
  <2> QED
    BY <1>3, <1>6, <2>1 DEF Owes, Due, Ahead, Opened, Closing
<1>8. Fits(ast, then)
  <2>1. then.step = "end if" /\ then.node = n
    BY DEF Task
  <2> HIDE DEF then
  <2> QED
    BY <1>3, <2>1 DEF Fits, Closing
<1>9. then \in Tasks(ast)
  <2>1. "end if" \in Steps /\ n \in Ref(ast) /\ 1 \in Int
    BY <1>3 DEF Steps, Ref
  <2> QED
    BY <2>1, ThenTask
<1> HIDE DEF t, n, s, e, then
<1>10. /\ e \in Ref(ast) /\ KidOf(ast, e, n) /\ e # s /\ IsStatement(ast, e) /\ e \in DOMAIN ast
       /\ s \in DOMAIN ast
  <2>1. 2 \in BodyOf(ast[n]) /\ 3 \in BodyOf(ast[n])
    BY <1>5 DEF BodyOf
  <2>2. s \in DOMAIN ast
    BY <1>3, <1>6, <2>1, BodyKid
  <2> QED
    BY <1>3, <1>5, <1>6, <2>1, <2>2, BodyKid
<1>11. new \in Seq(Tasks(ast)) /\ Two(new, Visit(e), then)
  BY <1>9, <1>10, TwoVisits
<1>12. /\ ~IsLabel(a) /\ ~IsJump(b) /\ a # b /\ a[2] = LabelOf(ast, e) /\ b = Mention(ast, s)
  BY DEF IsLabel, IsJump, Mention
<1> HIDE DEF a, b
<1>13. IsText(lines) /\ Two(lines, a, b)
  BY TwoLines
<1>14. D = {}
  OBVIOUS
<1> HIDE DEF new, lines, D
<1>15. /\ \A j \in DOMAIN new : \A r : r \in Owes(ast, new[j]) => r = e
       /\ \E j \in DOMAIN new : e \in Owes(ast, new[j])
       /\ \A j \in DOMAIN new : new[j].step # "end loop"
  <2>1. /\ \A r : (\E j \in DOMAIN new : r \in Owes(ast, new[j])) <=> r \in Owes(ast, then)
        /\ \A j \in DOMAIN new : new[j].step = "end loop" => new[j] = then
    BY <1>11, TwoOwe
  <2>2. \A r : (\E j \in DOMAIN new : r \in Owes(ast, new[j])) <=> r = e
    BY <1>7, <2>1
  <2>3. \A j \in DOMAIN new : new[j].step # "end loop"
    BY <1>7, <2>1
  <2> QED
    BY <2>2, <2>3
<1>16. \A i \in DOMAIN lines : \/ i = 1 /\ lines[i] = a /\ ~IsLabel(lines[i])
                               \/ i = 2 /\ lines[i] = b /\ ~IsJump(lines[i])
  BY <1>12, <1>13 DEF Two
<1>17. Has(lines, Mention(ast, s))
  BY <1>12, <1>13 DEF Has, Two
<1>18. Writes(ast, t, D, new, lines)
  <2>1. \A i \in DOMAIN lines : IsLabel(lines[i]) =>
          \E r \in Owes(ast, t) : lines[i] = Mention(ast, r) /\ \A j \in DOMAIN new : r \notin Owes(ast, new[j])
    <3>1. s \in Owes(ast, t) /\ \A j \in DOMAIN new : s \notin Owes(ast, new[j])
      BY <1>7, <1>10, <1>15
    <3> QED
      BY <1>12, <1>16, <3>1
  <2>2. \A i, j \in DOMAIN lines : IsLabel(lines[i]) /\ lines[i] = lines[j] => i = j
    BY <1>12, <1>16
  <2>3. \A i \in DOMAIN lines : IsJump(lines[i]) =>
          \E r \in DOMAIN ast : lines[i][2] = LabelOf(ast, r) /\ \E j \in DOMAIN new : r \in Owes(ast, new[j])
    BY <1>10, <1>12, <1>15, <1>16
  <2>4. \A r \in Owes(ast, t) : Has(lines, Mention(ast, r)) \/ \E j \in DOMAIN new : r \in Owes(ast, new[j])
    BY <1>7, <1>15, <1>17
  <2>5. \A j \in DOMAIN new : \A r \in Owes(ast, new[j]) : r \in Owes(ast, t)
    BY <1>7, <1>15
  <2> QED
    BY <1>15, <2>1, <2>2, <2>3, <2>4, <2>5 DEF Writes
<1>19. Descends(ast, Head(todo), n, e, then, D)
  BY <1>3, <1>7, <1>10, <1>14 DEF Descends, t
<1>20. n = Head(todo).node /\ Writes(ast, Head(todo), D, new, lines)
  BY <1>3, <1>18 DEF t
<1> QED
  BY <1>1, <1>3, <1>4, <1>7, <1>8, <1>9, <1>10, <1>11, <1>13, <1>19, <1>20, BodyStep

\* A loop starts with its label.
LEMMA LoopJumps ==
  ASSUME TypeInv, TreeInv, GrammarInv, WalkInv, JumpInv, VisitLOOP
  PROVE  JumpInv'
<1> DEFINE t == Head(todo)
           n == Current
           e == Kid(1)
           then == Task("end loop", n, 0)
           new == <<Visit(e), then>>
           a == LoopLabel(ast, n)
           lines == <<a>>
           D == {n}
<1>1. DoingKind("code", {"LOOP"}) /\ Stays /\ Continue(new)
  BY DEF VisitLOOP
<1>2. /\ n \in DOMAIN ast /\ ast[n].kind = "LOOP"
      /\ phase = "generating" /\ todo # <<>> /\ t.step = "code" /\ t.node = n
  BY <1>1, VisitedNode, CurrentTask DEF DoingKind, Doing
<1>3. Emit(lines)
  <2>1. StmId(n) = Ident(ast, n)
    BY LabelIs
  <2> QED
    BY <2>1 DEF VisitLOOP, LoopLabel
<1>4. 1 \in BodyOf(ast[n]) /\ e = ast[n].kids[1]
  <2>1. DOMAIN ast[n].kids = 1..Len(ast[n].kids) /\ Len(ast[n].kids) = 1
    BY <1>2, Children DEF Grammatical
  <2> QED
    BY <1>2, <2>1 DEF BodyOf, Kid
<1>5. then.step = "end loop" /\ then.node = n
  BY DEF Task
<1>6. then \in Tasks(ast)
  <2>1. "end loop" \in Steps /\ n \in Ref(ast) /\ 0 \in Int
    BY <1>2 DEF Steps, Ref
  <2> QED
    BY <2>1, ThenTask
<1> HIDE DEF t, n, e, then
<1>7. /\ Owes(ast, t) = {} /\ \A s : s \in Due(ast, t) <=> s = n /\ IsStatement(ast, s)
  BY <1>2, CodeTask
<1>8. /\ Owes(ast, then) = {} /\ Due(ast, then) = {} /\ Opened(then) /\ Fits(ast, then)
  BY <1>2, <1>5 DEF Owes, Due, Ahead, Opened, Fits, Closing
<1>9. IsStatement(ast, n)
  BY <1>2 DEF IsStatement, StmKinds
<1>10. e \in Ref(ast) /\ KidOf(ast, e, n)
  BY <1>2, <1>4, BodyKid
<1>11. new \in Seq(Tasks(ast)) /\ Two(new, Visit(e), then)
  BY <1>6, <1>10, TwoVisits
<1>12. IsText(lines) /\ DOMAIN lines = {1} /\ lines[1] = a
  BY OneLine
<1>13. /\ ~IsJump(a) /\ a = LoopLabel(ast, n)
  BY DEF IsJump, LoopLabel
<1>14. D = {n}
  OBVIOUS
<1> HIDE DEF new, lines, D, a
<1>15. /\ \A j \in DOMAIN new : Owes(ast, new[j]) = {}
       /\ \A j \in DOMAIN new : new[j].step = "end loop" => new[j] = then
  <2>1. /\ \A r : (\E j \in DOMAIN new : r \in Owes(ast, new[j])) <=> r \in Owes(ast, then)
        /\ \A j \in DOMAIN new : new[j].step = "end loop" => new[j] = then
    BY <1>11, TwoOwe
  <2>2. \A r : \A j \in DOMAIN new : r \notin Owes(ast, new[j])
    BY <1>8, <2>1
  <2> QED
    BY <2>1, <2>2
<1>16. Writes(ast, t, D, new, lines)
  <2>1. \A i \in DOMAIN lines : i = 1 /\ ~IsJump(lines[i])
    BY <1>12, <1>13
  <2>2. \A i \in DOMAIN lines : \E s \in D : lines[i] = LoopLabel(ast, s)
    BY <1>12, <1>13, <1>14
  <2>3. \A j \in DOMAIN new : new[j].step = "end loop" =>
          new[j].node \in D /\ Has(lines, LoopLabel(ast, new[j].node))
    <3>1. then.node \in D /\ Has(lines, LoopLabel(ast, then.node))
      BY <1>5, <1>12, <1>13, <1>14 DEF Has
    <3> QED
      BY <1>15, <3>1
  <2> QED
    BY <1>7, <1>15, <2>1, <2>2, <2>3 DEF Writes
<1>17. Descends(ast, Head(todo), n, e, then, D)
  BY <1>7, <1>8, <1>9, <1>14 DEF Descends, t
<1>18. n = Head(todo).node /\ Writes(ast, Head(todo), D, new, lines)
  BY <1>2, <1>16 DEF t
<1> QED
  BY <1>1, <1>2, <1>3, <1>5, <1>6, <1>8, <1>10, <1>11, <1>12, <1>17, <1>18, BodyStep

\* Where the visit of such a statement goes on after its expression.
AfterTest == {"end if", "else", "end while", "end foreach"}

LEMMA ThirdKid ==
  ASSUME NEW kids, NEW e, 3 \in DOMAIN kids, \A j \in DOMAIN kids : kids[j] = e => j = 2
  PROVE  kids[3] # e
OBVIOUS

\* What follows the expression of a statement that governs others.
LEMMA ControlGoesOn ==
  ASSUME TypeInv, TreeInv, GrammarInv, WalkInv, JumpInv, Doing("control"), Stays,
         NEW n \in DOMAIN ast, n = Head(todo).node, NEW e, e = ast[n].kids[2],
         NEW step \in AfterTest,
         step = "else" => HasElse(ast, n),
         NEW then \in Tasks(ast), then.step = step, then.node = n, then.saved = 0,
         NEW new \in Seq(Tasks(ast)), Two(new, Visit(e), then), Continue(new),
         NEW lines, IsText(lines), Emit(lines),
         \A i \in DOMAIN lines : IsLabel(lines[i]) =>
           lines[i] = Mention(ast, e) /\ e \notin Owes(ast, then),
         \A i, j \in DOMAIN lines : IsLabel(lines[i]) /\ lines[i] = lines[j] => i = j,
         \A i \in DOMAIN lines : IsJump(lines[i]) =>
           lines[i][2] = LabelOf(ast, e) /\ e \in Owes(ast, then),
         \A r \in Owes(ast, Head(todo)) : Has(lines, Mention(ast, r)) \/ r \in Owes(ast, then)
  PROVE  JumpInv'
<1> DEFINE t == Head(todo)
           D == {}
<1>1. "control" \in Cuts
  BY DEF Closing, Cuts
<1>2. /\ t.step = "control" /\ Fits(ast, t) /\ Opened(t) /\ n = t.node /\ n \in DOMAIN ast
      /\ phase = "generating" /\ todo # <<>>
  BY <1>1, OpenedVisit
<1>3. /\ ast[n].kind \in Governing /\ Len(ast[n].kids) >= 2 /\ Len(ast[n].kids) \in Nat
      /\ DOMAIN ast[n].kids = 1..Len(ast[n].kids)
      /\ HasElse(ast, n) => Len(ast[n].kids) >= 3
  <2>1. /\ Len(ast[n].kids) \in Nat /\ DOMAIN ast[n].kids = 1..Len(ast[n].kids)
        /\ Grammatical(ast, ast[n])
    BY <1>2, Children
  <2>2. ast[n].kind \in Governing /\ Len(ast[n].kids) >= 2
    BY <1>2 DEF Fits, Closing
  <2> QED
    BY <2>1, <2>2 DEF Grammatical, HasElse
<1>4. 2 \in BodyOf(ast[n]) /\ (HasElse(ast, n) => 3 \in BodyOf(ast[n]))
  BY <1>3 DEF BodyOf
<1>5. /\ e \in Ref(ast) /\ KidOf(ast, e, n) /\ IsStatement(ast, e) /\ e \in DOMAIN ast
      /\ \A j \in DOMAIN ast[n].kids : ast[n].kids[j] = e => j = 2
  BY <1>2, <1>4, BodyKid
<1>7. Opened(then) /\ Fits(ast, then)
  BY <1>2, <1>3 DEF Opened, Fits, Closing, AfterTest
<1>8. \A r : r \in Due(ast, t) <=>
        IsStatement(ast, r) /\ \E i \in 2..Len(ast[n].kids) : r = ast[n].kids[i]
  BY <1>2 DEF Due, Ahead
<1>9. e \in Due(ast, t)
  <2>1. 2 \in 2..Len(ast[n].kids)
    BY <1>3
  <2> QED
    BY <1>5, <1>8, <2>1
<1>10. ASSUME NEW r \in Due(ast, then)
       PROVE  r # e /\ KidOf(ast, r, n) /\ r \in Due(ast, t)
  <2>1. step = "else" /\ r = ast[n].kids[3] /\ IsStatement(ast, r)
    BY <1>10 DEF Due, Ahead, AfterTest
  <2>2. 3 \in DOMAIN ast[n].kids /\ 3 \in 2..Len(ast[n].kids)
    BY <1>3, <2>1
  <2>3. r # e
    <3>1. \A j \in DOMAIN ast[n].kids : ast[n].kids[j] = e => j = 2
      BY <1>5
    <3>2. ast[n].kids[3] # e
      BY <2>2, <3>1, ThirdKid
    <3> QED
      BY <2>1, <3>2
  <2>4. r \in Due(ast, t)
    BY <1>8, <2>1, <2>2
  <2>5. KidOf(ast, r, n)
    BY <2>1, <2>2, <1>2 DEF KidOf
  <2> QED
    BY <2>3, <2>4, <2>5
<1>11. Owes(ast, then) \subseteq Owes(ast, t)
  BY <1>2 DEF Owes, AfterTest
<1>13. /\ \A r : (\E j \in DOMAIN new : r \in Owes(ast, new[j])) <=> r \in Owes(ast, then)
       /\ \A j \in DOMAIN new : new[j].step = "end loop" => new[j] = then
  BY TwoOwe
<1>14. \A j \in DOMAIN new : new[j].step # "end loop"
  BY <1>13 DEF AfterTest
<1>15. D = {}
  OBVIOUS
<1> HIDE DEF t, D
<1>16. Writes(ast, t, D, new, lines)
  <2>1. \A i \in DOMAIN lines : IsLabel(lines[i]) =>
          \E r \in Owes(ast, t) : lines[i] = Mention(ast, r) /\ \A j \in DOMAIN new : r \notin Owes(ast, new[j])
    <3>1. e \in Owes(ast, t)
      BY <1>2 DEF Owes
    <3>2. e \notin Owes(ast, then) => \A j \in DOMAIN new : e \notin Owes(ast, new[j])
      BY <1>13
    <3> QED
      BY <3>1, <3>2
  <2>2. \A i \in DOMAIN lines : IsJump(lines[i]) =>
          \E r \in DOMAIN ast : lines[i][2] = LabelOf(ast, r) /\ \E j \in DOMAIN new : r \in Owes(ast, new[j])
    <3>1. e \in Owes(ast, then) => \E j \in DOMAIN new : e \in Owes(ast, new[j])
      BY <1>13
    <3> QED
      BY <1>5, <3>1
  <2>3. \A r \in Owes(ast, t) : Has(lines, Mention(ast, r)) \/ \E j \in DOMAIN new : r \in Owes(ast, new[j])
    BY <1>13 DEF t
  <2>4. \A j \in DOMAIN new : \A r \in Owes(ast, new[j]) : r \in Owes(ast, t)
    BY <1>11, <1>13
  <2> QED
    BY <1>14, <2>1, <2>2, <2>3, <2>4 DEF Writes
<1>17. Descends(ast, Head(todo), n, e, then, D)
  BY <1>2, <1>9, <1>10, <1>15 DEF Descends, t
<1>18. Writes(ast, Head(todo), D, new, lines)
  BY <1>16 DEF t
<1> QED
  BY <1>2, <1>5, <1>7, <1>17, <1>18, BodyStep

LEMMA ControlJumps ==
  ASSUME TypeInv, TreeInv, GrammarInv, WalkInv, JumpInv, Control
  PROVE  JumpInv'
<1> DEFINE t == Head(todo)
           n == Current
           e == Kid(2)
<1>1. Doing("control") /\ Stays
  BY DEF Control
<1>2. "control" \in Cuts
  BY DEF Closing, Cuts
<1>3. t.step = "control" /\ n = t.node /\ n \in DOMAIN ast
  BY <1>1, <1>2, OpenedVisit
<1>4. e = ast[n].kids[2]
  BY DEF Kid
<1>5. /\ ast[n].kind \in Governing /\ DOMAIN ast[n].kids = 1..Len(ast[n].kids)
      /\ Len(ast[n].kids) >= 2 /\ Len(ast[n].kids) \in Nat
  BY <1>1, <1>2, <1>3, OpenedVisit, Children DEF Fits, Closing
<1>6. e \in Ref(ast)
  <2>1. 2 \in BodyOf(ast[n])
    BY <1>5 DEF BodyOf
  <2> QED
    BY <1>3, <1>4, <2>1, BodyKid
<1>7. Owes(ast, t) = {ast[n].kids[i] : i \in IF HasElse(ast, n) THEN {2, 3} ELSE {2}}
  BY <1>3 DEF Owes
<1>8. ASSUME NEW step \in AfterTest, step = "else" => HasElse(ast, n),
             Continue(<<Visit(e), Task(step, n, 0)>>),
             NEW lines, IsText(lines), Emit(lines),
             \A i \in DOMAIN lines : IsLabel(lines[i]) =>
               lines[i] = Mention(ast, e) /\ e \notin Owes(ast, Task(step, n, 0)),
             \A i, j \in DOMAIN lines : IsLabel(lines[i]) /\ lines[i] = lines[j] => i = j,
             \A i \in DOMAIN lines : IsJump(lines[i]) =>
               lines[i][2] = LabelOf(ast, e) /\ e \in Owes(ast, Task(step, n, 0)),
             \A r \in Owes(ast, t) : Has(lines, Mention(ast, r)) \/ r \in Owes(ast, Task(step, n, 0))
      PROVE  JumpInv'
  <2> DEFINE then == Task(step, n, 0)
             new == <<Visit(e), then>>
  <2>1. then \in Tasks(ast) /\ then.step = step /\ then.node = n /\ then.saved = 0
    <3>1. step \in Steps
      BY <1>8 DEF Steps, AfterTest
    <3>2. n \in Ref(ast) /\ 0 \in Int
      BY <1>3 DEF Ref
    <3> QED
      BY <3>1, <3>2, ThenTask
  <2>2. Continue(new)
    BY <1>8
  <2>3. /\ \A i \in DOMAIN lines : IsLabel(lines[i]) =>
             lines[i] = Mention(ast, e) /\ e \notin Owes(ast, then)
        /\ \A i \in DOMAIN lines : IsJump(lines[i]) =>
             lines[i][2] = LabelOf(ast, e) /\ e \in Owes(ast, then)
        /\ \A r \in Owes(ast, t) : Has(lines, Mention(ast, r)) \/ r \in Owes(ast, then)
    BY <1>8
  <2> HIDE DEF then, n, e
  <2>4. new \in Seq(Tasks(ast)) /\ Two(new, Visit(e), then)
    BY <1>6, <2>1, TwoVisits
  <2> HIDE DEF new
  <2> QED
    BY <1>1, <1>3, <1>4, <1>8, <2>1, <2>2, <2>3, <2>4, ControlGoesOn
<1>9. ASSUME NEW step \in AfterTest
      PROVE  /\ step \in {"end if", "end while"} => Owes(ast, Task(step, n, 0)) = {e}
             /\ step = "else" => Owes(ast, Task(step, n, 0)) = {ast[n].kids[i] : i \in {2, 3}}
             /\ step = "end foreach" => Owes(ast, Task(step, n, 0)) = {}
  <2> DEFINE then == Task(step, n, 0)
  <2>1. then.step = step /\ then.node = n /\ then.saved = 0
    BY DEF Task
  <2> HIDE DEF then
  <2>2. step \in {"end if", "end while"} => Owes(ast, then) = {ast[n].kids[2]}
    BY <2>1 DEF Owes
  <2>3. step = "else" => Owes(ast, then) = {ast[n].kids[i] : i \in {2, 3}}
    BY <2>1 DEF Owes
  <2>4. step = "end foreach" => Owes(ast, then) = {}
    BY <2>1 DEF Owes
  <2> QED
    BY <1>4, <2>2, <2>3, <2>4 DEF then

<1>10. ASSUME NEW step \in AfterTest, Owes(ast, t) = Owes(ast, Task(step, n, 0)),
              step = "else" => HasElse(ast, n), Continue(<<Visit(e), Task(step, n, 0)>>),
              NEW lines, Plain(lines), Emit(lines)
       PROVE  JumpInv'
  <2>1. IsText(lines) /\ \A i \in DOMAIN lines : ~IsLabel(lines[i]) /\ ~IsJump(lines[i])
    BY <1>10 DEF Plain, PlainLine
  <2> HIDE DEF t, n, e
  <2> QED
    BY <1>8, <1>10, <2>1
<1>11. CASE ast[n].kind = "IF" /\ Emit(Test(Label(Kid(2)))) /\ ast[n].op \in {"IF", "ELSE"}
            /\ Continue(<<Visit(e), Task(IF ast[n].op = "IF" THEN "end if" ELSE "else", n, 0)>>)
  <2> DEFINE step == IF ast[n].op = "IF" THEN "end if" ELSE "else"
             a == <<"tst", R(0)>>
             b == <<"breq", LabelOf(ast, e)>>
             lines == <<a, b>>
  <2>1. step \in AfterTest /\ Continue(<<Visit(e), Task(step, n, 0)>>)
    BY <1>11 DEF AfterTest
  <2>2. HasElse(ast, n) <=> step = "else"
    BY <1>11 DEF HasElse
  <2>3. Emit(lines)
    <3>1. Label(e) = LabelOf(ast, e)
      BY LabelIs
    <3> QED
      BY <1>11, <3>1 DEF Test
  <2>4. ~IsLabel(a) /\ ~IsLabel(b) /\ ~IsJump(a) /\ b[2] = LabelOf(ast, e)
    BY DEF IsLabel, IsJump
  <2>5. step \in {"end if", "else"}
    OBVIOUS
  <2> HIDE DEF a, b, step, t, n, e
  <2>6. IsText(lines) /\ Two(lines, a, b)
    BY TwoLines
  <2> HIDE DEF lines
  <2>7. /\ \A i \in DOMAIN lines : ~IsLabel(lines[i])
        /\ \A i \in DOMAIN lines : IsJump(lines[i]) => lines[i][2] = LabelOf(ast, e)
    BY <2>4, <2>6 DEF Two
  <2>8. Owes(ast, t) = Owes(ast, Task(step, n, 0)) /\ e \in Owes(ast, Task(step, n, 0))
    <3>1. CASE step = "end if"
      BY <1>4, <1>7, <1>9, <2>1, <2>2, <3>1
    <3>2. CASE step = "else"
      BY <1>4, <1>7, <1>9, <2>1, <2>2, <3>2
    <3> QED
      BY <2>5, <3>1, <3>2
  <2> QED
    BY <1>8, <2>1, <2>2, <2>3, <2>6, <2>7, <2>8
<1>12. CASE /\ ast[n].kind \in {"WHILE", "DO"} /\ Continue(<<Visit(e), Task("end while", n, 0)>>)
            /\ Emit(<<Bad("rjmp"), Bad("label")>>) \/ Emit(<<Bad("label")>>)
  <2>1. "end while" \in AfterTest /\ "end while" # "else" /\ ~HasElse(ast, n)
    BY <1>12 DEF AfterTest, HasElse
  <2>2. Plain(<<Bad("rjmp"), Bad("label")>>) /\ Plain(<<Bad("label")>>)
    BY BadPlain, PlainFew
  <2>3. Owes(ast, t) = Owes(ast, Task("end while", n, 0))
    BY <1>4, <1>7, <1>9, <2>1
  <2> QED
    BY <1>10, <1>12, <2>1, <2>2, <2>3
<1>13. CASE /\ ast[n].kind = "FOREACH" /\ Continue(<<Visit(e), Task("end foreach", n, 0)>>)
            /\ Emit(<<Bad("ldi"), Bad("std"), Bad("rjump"), <<"label", Label(e)>>>>)
  <2> DEFINE a == Bad("ldi")
             b == Bad("std")
             c == Bad("rjump")
             d == Mention(ast, e)
             lines == <<a, b, c, d>>
  <2>1. "end foreach" \in AfterTest /\ "end foreach" # "else" /\ ~HasElse(ast, n)
    BY <1>13 DEF AfterTest, HasElse
  <2>2. Emit(lines)
    <3>1. <<"label", Label(e)>> = d
      BY LabelIs
    <3> HIDE DEF d
    <3> QED
      BY <1>13, <3>1
  <2>3. PlainLine(a) /\ PlainLine(b) /\ PlainLine(c) /\ ~IsJump(d) /\ d = Mention(ast, e)
    BY BadPlain DEF IsJump, Mention
  <2> HIDE DEF a, b, c, d, t, n, e
  <2>4. lines \in Seq({a, b, c, d})
    OBVIOUS
  <2>5. DOMAIN lines = 1..4 /\ lines[1] = a /\ lines[2] = b /\ lines[3] = c /\ lines[4] = d
    OBVIOUS
  <2> HIDE DEF lines
  <2>6. IsText(lines)
    BY <2>4, TextIs
  <2>7. /\ \A i \in DOMAIN lines : ~IsJump(lines[i])
        /\ \A i \in DOMAIN lines : IsLabel(lines[i]) => i = 4 /\ lines[i] = Mention(ast, e)
        /\ Has(lines, Mention(ast, e))
    BY <2>3, <2>5 DEF PlainLine, Has
  <2>8. Owes(ast, t) = {e} /\ Owes(ast, Task("end foreach", n, 0)) = {}
    BY <1>4, <1>7, <1>9, <2>1
  <2>9. \A i, j \in DOMAIN lines : IsLabel(lines[i]) /\ lines[i] = lines[j] => i = j
    BY <2>7
  <2> QED
    BY <1>8, <1>13, <2>1, <2>2, <2>6, <2>7, <2>8, <2>9
<1> QED
  BY <1>11, <1>12, <1>13 DEF Control

\* A block is taken down to its statements, all at once.
LEMMA InsideJumps ==
  ASSUME TypeInv, TreeInv, GrammarInv, WalkInv, JumpInv, VisitInside
  PROVE  JumpInv'
<1> DEFINE t == Head(todo)
           n == Current
           nodes == ast[n].kids
           new == [i \in DOMAIN nodes |-> Task("code", nodes[i], 0)]
           D == {n}
<1>1. DoingKind("code", {"EXPR", "SEQ"}) /\ Stays /\ text' = text /\ Continue(new)
  BY DEF VisitInside, Visit, Kid
<1>2. /\ n \in DOMAIN ast /\ ast[n].kind \in {"EXPR", "SEQ"}
      /\ phase = "generating" /\ todo # <<>> /\ t.step = "code" /\ t.node = n
  BY <1>1, VisitedNode, CurrentTask DEF DoingKind, Doing
<1>3. nodes \in Seq(Ref(ast)) /\ DOMAIN nodes = 1..Len(nodes)
  BY <1>2, Children
<1>4. /\ new \in Seq(Tasks(ast)) /\ Len(new) = Len(nodes)
      /\ \A i \in 1..Len(new) : new[i].step = "code" /\ new[i].node = nodes[i]
  <2>1. "code" \in Steps
    BY DEF Steps
  <2> HIDE DEF nodes
  <2>2. nodes \in Seq(Ref(ast))
    BY <1>3
  <2>3. new \in Seq(Tasks(ast))
    BY <2>1, <2>2, TasksInTurn
  <2>4. Len(new) = Len(nodes)
    BY <2>1, <2>2, TasksInTurn
  <2>5. \A i \in 1..Len(new) : new[i].step = "code"
    BY <2>1, <2>2, TasksInTurn
  <2>6. \A i \in 1..Len(new) : new[i].node = nodes[i]
    BY <2>1, <2>2, TasksInTurn
  <2> QED
    BY <2>3, <2>4, <2>5, <2>6
<1>5. n \in Due(ast, t) /\ Owes(ast, t) = {} /\ n = t.node
  BY <1>2, CodeTask DEF IsStatement, StmKinds
<1>6. D = {n}
  OBVIOUS
<1>7. ASSUME NEW i \in DOMAIN nodes PROVE KidOf(ast, nodes[i], n)
  BY DEF KidOf
<1>8. ASSUME NEW i \in DOMAIN nodes, NEW j \in DOMAIN nodes, nodes[i] = nodes[j],
             IsStatement(ast, nodes[i])
      PROVE  i = j
  <2>1. nodes[i] \notin Vars
    BY <1>8, OneParentOf
  <2> QED
    BY <1>2, <1>8, <2>1 DEF TreeInv, OneParent, Same
<1> HIDE DEF t, n, nodes, new, D
<1>9. DOMAIN new = DOMAIN nodes
  BY <1>3, <1>4, LenProperties
<1>10. \A i \in DOMAIN new :
         /\ new[i].step = "code" /\ Fits(ast, new[i]) /\ ~Opened(new[i]) /\ Owes(ast, new[i]) = {}
         /\ \A s : s \in Due(ast, new[i]) <=> s = nodes[i] /\ IsStatement(ast, s)
  BY <1>3, <1>4, <1>9, CodeTask
<1>11. Walks(ast, t, D, new)
  <2>1. \A i \in DOMAIN new : \A s \in Due(ast, new[i]) : \E m \in D : KidOf(ast, s, m)
    BY <1>6, <1>7, <1>9, <1>10
  <2>2. \A i, j \in DOMAIN new : i # j => Due(ast, new[i]) \cap Due(ast, new[j]) = {}
    BY <1>8, <1>9, <1>10
  <2> QED
    BY <1>5, <1>6, <1>10, <2>1, <2>2 DEF Walks
<1> DEFINE lines == <<>>
<1>12. DOMAIN lines = {}
  OBVIOUS
<1>13. Emit(lines) /\ IsText(lines)
  BY <1>1, NothingEmitted DEF Plain
<1> HIDE DEF lines
<1>14. \A i \in DOMAIN new : new[i].step # "end loop"
  BY <1>10
<1>15. Writes(ast, t, D, new, lines)
  BY <1>5, <1>10, <1>12, <1>14 DEF Writes
<1> QED
  BY <1>1, <1>2, <1>4, <1>11, <1>13, <1>15, JumpStep DEF t

-------------------------------------------------------------------------------
(***************************************************************************)
(* The compiler.                                                           *)
(***************************************************************************)
\* Nothing is generated yet, or nothing any more.
LEMMA NothingJumps ==
  ASSUME NEW as, NEW prog \in Seq(DOMAIN as), NEW ts, ts = <<>>, NEW tx, tx = <<>>
  PROVE  IsText(tx) /\ \E F \in SUBSET DOMAIN as : OnceInv(as, prog, F, ts) /\ LabelInv(as, F, ts, tx)
<1>1. DOMAIN ts = {} /\ DOMAIN tx = {}
  OBVIOUS
<1>2. \A j \in DOMAIN prog : prog[j] \in DOMAIN as
  BY ElementOfSeq, LenProperties
<1>3. IsText(tx)
  BY EmptySeq DEF IsText
<1> DEFINE F == {n \in DOMAIN as : TRUE}
<1>4. F = DOMAIN as /\ F \in SUBSET DOMAIN as
  OBVIOUS
<1> HIDE DEF F
<1>5. \A n \in F : \A i \in DOMAIN as[n].kids :
        IsStatement(as, as[n].kids[i]) => as[n].kids[i] \in F
  BY <1>4 DEF IsStatement
<1>6. OnceInv(as, prog, F, ts)
  BY <1>1, <1>2, <1>4, <1>5 DEF OnceInv
<1>7. LabelInv(as, F, ts, tx)
  BY <1>1 DEF LabelInv
<1> QED
  BY <1>3, <1>4, <1>6, <1>7

\* The code of the next statement of the program is generated.
LEMMA NextStatementJumps ==
  ASSUME TypeInv, TreeInv, JumpInv, NextStatement
  PROVE  JumpInv'
<1> DEFINE e == Head(program)
           t1 == Task("data", e, 0)
           t2 == Visit(e)
<1>1. /\ phase = "generating" /\ phase' = phase /\ ast' = ast /\ todo = <<>> /\ program # <<>>
      /\ program' = Tail(program) /\ todo' = <<t1, t2>> /\ text' = text
  BY DEF NextStatement
<1>2. PICK F \in SUBSET DOMAIN ast : OnceInv(ast, program, F, todo) /\ LabelInv(ast, F, todo, text)
  BY DEF JumpInv
<1>3. program \in Seq(DOMAIN ast) /\ DOMAIN todo = {}
  BY <1>1 DEF TypeInv, TypeOK
<1>4. /\ 1 \in DOMAIN program /\ e = program[1]
      /\ \A j \in DOMAIN program' :
           j + 1 \in DOMAIN program /\ j + 1 # 1 /\ program'[j] = program[j + 1]
  <2> DEFINE s == program
             S == DOMAIN ast
  <2>1. s \in Seq(S) /\ s # <<>> /\ program' = Tail(s)
    BY <1>1, <1>3
  <2> HIDE DEF s, S
  <2>2. Len(s) \in Nat /\ DOMAIN s = 1..Len(s) /\ Len(s) # 0
    BY <2>1, LenProperties, EmptySeq
  <2>3. /\ Tail(s) \in Seq(S) /\ Len(Tail(s)) = Len(s) - 1
        /\ \A i \in 1..(Len(s) - 1) : Tail(s)[i] = s[i + 1]
    BY <2>1, HeadTailProperties
  <2>4. DOMAIN Tail(s) = 1..(Len(s) - 1)
    BY <2>3, LenProperties
  <2>5. 1 \in DOMAIN s /\ Head(s) = s[1]
    BY <2>1, <2>2
  <2>6. \A j \in 1..(Len(s) - 1) : j + 1 \in 1..Len(s) /\ j + 1 # 1
    BY <2>2
  <2> QED
    BY <2>1, <2>2, <2>3, <2>4, <2>5, <2>6 DEF s
<1>5. /\ IsStatement(ast, e) /\ e \in F
      /\ \A n \in DOMAIN ast : ~KidOf(ast, e, n)
      /\ \A j \in DOMAIN program' : program'[j] # e /\ program'[j] \in F
  BY <1>2, <1>4 DEF TreeInv, ProgramLoose, OnceInv, KidOf
<1>6. /\ t1.step = "data" /\ t2.step = "code" /\ t2.node = e
  BY DEF Task, Visit
<1> HIDE DEF t1, t2
<1>7. DOMAIN todo' = 1..2 /\ todo'[1] = t1 /\ todo'[2] = t2
  BY <1>1
<1>8. /\ Fits(ast, t1) /\ ~Opened(t1) /\ Due(ast, t1) = {} /\ Owes(ast, t1) = {}
      /\ Fits(ast, t2) /\ ~Opened(t2) /\ Due(ast, t2) = {e} /\ Owes(ast, t2) = {}
  BY <1>5, <1>6 DEF Fits, Opened, Closing, Due, Ahead, Owes
<1> HIDE DEF e
<1>9. \A p \in DOMAIN todo' :
        \/ p = 1 /\ todo'[p] = t1
        \/ p = 2 /\ todo'[p] = t2
  BY <1>7
<1>10. OnceInv(ast, program', F, todo')
  <2>1. \A n \in F : \A i \in DOMAIN ast[n].kids :
          IsStatement(ast, ast[n].kids[i]) => ast[n].kids[i] \in F
    BY <1>2 DEF OnceInv
  <2>2. \A p \in DOMAIN todo' :
          /\ Fits(ast, todo'[p]) /\ ~Opened(todo'[p])
          /\ Due(ast, todo'[p]) \subseteq {e} /\ (p # 2 => Due(ast, todo'[p]) = {})
    BY <1>8, <1>9
  <2>3. \A p, q \in DOMAIN todo' : p # q => Due(ast, todo'[p]) \cap Due(ast, todo'[q]) = {}
    BY <2>2
  <2>4. \A p \in DOMAIN todo', n \in F : \A s \in Due(ast, todo'[p]) : ~KidOf(ast, s, n)
    BY <1>5, <2>2
  <2> QED
    BY <1>5, <2>1, <2>2, <2>3, <2>4 DEF OnceInv
<1>11. LabelInv(ast, F, todo', text)
  <2>1. \A p \in DOMAIN todo' :
          Owes(ast, todo'[p]) = {} /\ todo'[p].step # "end loop" /\ \A s : ~Looping(todo'[p], s)
    BY <1>6, <1>8, <1>9 DEF Looping
  <2>2. \A s : Unlabelled(ast, F, todo', s) => Unlabelled(ast, F, todo, s)
    BY <2>1 DEF Unlabelled
  <2>3. \A k \in DOMAIN text : Final(ast, F, todo, text[k]) => Final(ast, F, todo', text[k])
    BY <2>1, <2>2 DEF Final
  <2>4. \A k \in DOMAIN text : Aimed(ast, todo, text, text[k]) => Aimed(ast, todo', text, text[k])
    BY <1>3 DEF Aimed
  <2> QED
    BY <1>2, <2>1, <2>3, <2>4 DEF LabelInv
<1>12. /\ OnceInv(ast, program, F, todo)' /\ LabelInv(ast, F, todo, text)'
       /\ IsText(text)' /\ F \in SUBSET DOMAIN ast'
  BY <1>1, <1>10, <1>11 DEF JumpInv, IsText
<1> QED
  BY <1>1, <1>12 DEF JumpInv

LEMMA OutputJumps ==
  ASSUME JumpInv, Output
  PROVE  JumpInv'
<1>1. /\ phase = "generating" /\ phase' = "done" /\ ast' = ast /\ todo' = todo
      /\ program' = program /\ text' = text
  BY DEF Output, genVars
<1> QED
  BY <1>1 DEF JumpInv, IsText

LEMMA ThrowJumps ==
  ASSUME Throw
  PROVE  JumpInv'
<1>1. ast' = <<>> /\ program' = <<>> /\ todo' = <<>> /\ text' = <<>>
  BY DEF Throw, Abort
<1>2. program' \in Seq(DOMAIN ast')
  BY <1>1, EmptySeq
<1>3. IsText(text') /\ \E F \in SUBSET DOMAIN ast' : OnceInv(ast', program', F, todo') /\ LabelInv(ast', F, todo', text')
  BY <1>1, <1>2, NothingJumps
<1> QED
  BY <1>1, <1>3 DEF JumpInv, IsText

\* The parse generates nothing.
LEMMA FrontEndJumps ==
  ASSUME WalkInv, JumpInv, TypeInv', Next, UNCHANGED genVars
  PROVE  JumpInv'
<1>1. phase \in {"definitions", "body", "main"}
  BY FrontEndPhases
<1>2. todo' = <<>> /\ text' = <<>>
  BY <1>1 DEF WalkInv, GenTypeOK, JumpInv, genVars
<1>3. program' \in Seq(DOMAIN ast')
  BY DEF TypeInv, TypeOK
<1>4. IsText(text') /\ \E F \in SUBSET DOMAIN ast' : OnceInv(ast', program', F, todo') /\ LabelInv(ast', F, todo', text')
  BY <1>2, <1>3, NothingJumps
<1> QED
  BY <1>2, <1>4 DEF JumpInv, IsText

\* Every action of the generator keeps the invariant of the labels.
LEMMA GenerateJumps ==
  ASSUME TypeInv, TreeInv, GrammarInv, WalkInv, JumpInv, Generate
  PROVE  JumpInv'
<1>1. CASE Throw
  BY <1>1, ThrowJumps
<1>2. CASE NextStatement \/ Output
  BY <1>2, NextStatementJumps, OutputJumps
<1>3. CASE GenerateExpr /\ ~Throw
  <2>1. \/ VisitVAR \/ VisitCONSTANT \/ Pass \/ Increment1 \/ VisitLIST \/ VisitOther
        \/ BinaryCombine \/ Call \/ VisitBinary \/ BinaryRight \/ VisitUnary
        \/ VisitCall \/ Argument
    BY <1>3 DEF GenerateExpr, VisitLeafThrows, BinaryRightThrows, CallThrows,
       VisitUnaryThrows, IncrementThrows, VisitLISTThrows
  <2> QED
    BY <2>1, ReturnsPlain, OperationsPlain, InTurnPlain
<1>4. CASE GenerateStm /\ ~Throw
  <2>1. \/ Store \/ EndIf \/ EndWhile \/ EndForeach \/ EndLoop \/ VisitInside
        \/ VisitAFF \/ VisitControl \/ Control \/ Else \/ VisitLOOP
    BY <1>4 DEF GenerateStm, StoreThrows
  <2> QED
    BY <2>1, ReturnsPlain, OperationsPlain, EndIfJumps, EndWhileJumps, EndForeachJumps,
       EndLoopJumps, InsideJumps, ControlStarts, ControlJumps, ElseJumps, LoopJumps
<1>5. CASE DataVisit \/ DataVisitThrows
  BY <1>1, <1>5, InTurnPlain DEF DataVisitThrows
<1> QED
  BY <1>1, <1>2, <1>3, <1>4, <1>5 DEF Generate

\* The inductive invariant of the compiler, down to its labels.
JumpsInv == CompilerInv /\ TreeInv /\ JumpInv

LEMMA InitJumpsInv == GenInit => JumpsInv
<1> SUFFICES ASSUME GenInit PROVE JumpsInv
  OBVIOUS
<1>1. ast = <<>> /\ program = <<>> /\ todo = <<>> /\ text = <<>>
  BY DEF GenInit, Init
<1>2. program \in Seq(DOMAIN ast)
  BY <1>1, EmptySeq
<1>3. IsText(text) /\ \E F \in SUBSET DOMAIN ast : OnceInv(ast, program, F, todo) /\ LabelInv(ast, F, todo, text)
  BY <1>1, <1>2, NothingJumps
<1>4. JumpInv
  BY <1>1, <1>3 DEF JumpInv
<1> QED
  BY <1>4, InitCompilerInv, InitTree DEF JumpsInv

LEMMA NextJumpsInv == JumpsInv /\ [CompilerNext]_allVars => JumpsInv'
<1> SUFFICES ASSUME TypeInv, DeclInv, GrammarInv, WalkInv, TreeInv, JumpInv, CompilerInv,
                    [CompilerNext]_allVars
             PROVE  CompilerInv' /\ TreeInv' /\ JumpInv'
  BY DEF JumpsInv, CompilerInv
<1>1. CompilerInv' /\ TypeInv' /\ DeclInv'
  <2>1. CompilerInv'
    BY NextCompilerInv
  <2> QED
    BY <2>1 DEF CompilerInv
<1>2. CASE UNCHANGED allVars
  <2>1. UNCHANGED <<phase, ast, stack, program, todo, text>>
    BY <1>2 DEF allVars, vars, genVars
  <2>2. TreeInv'
    BY <2>1 DEF TreeInv, KidsOlder, OneParent, ValuesLoose, ValuesDiffer, BodiesAreStatements,
       ProgramLoose
  <2>3. JumpInv'
    BY <2>1 DEF JumpInv, IsText
  <2> QED
    BY <1>1, <2>2, <2>3
<1>3. CASE Next /\ UNCHANGED genVars
  BY <1>1, <1>3, NextTree, FrontEndJumps
<1>4. CASE Generate
  BY <1>1, <1>4, GenerateTree, GenerateJumps
<1> QED
  BY <1>2, <1>3, <1>4 DEF CompilerNext

\* Whatever the nesting and the sequence of the statements of a program, every
\* branch and every jump that the visits of if, if ... else and loop write has
\* exactly one label to go to in the whole output, also beside while, do and
\* foreach, whose own jumps do not.
THEOREM JumpsHaveOneTarget == CompilerSpec => []JumpsResolved
<1>1. GenInit => JumpsInv
  BY InitJumpsInv
<1>2. JumpsInv /\ [CompilerNext]_allVars => JumpsInv'
  BY NextJumpsInv
<1>3. JumpsInv => JumpsResolved
  BY JumpInvResolves DEF JumpsInv, CompilerInv
<1> QED
  BY <1>1, <1>2, <1>3, PTL DEF CompilerSpec
===============================================================================
