------------------------------- MODULE FrontEnd -------------------------------
(***************************************************************************)
(* The front end of the arduinoCode compiler: the semantic actions of the  *)
(* bison grammar (src/parser/Parser.y), the objects they build (ast/,      *)
(* type/, environment/) and CheckTypeVisitor, which the grammar calls on   *)
(* every statement that enters a list of statements.                       *)
(*                                                                         *)
(* One action is one reduction.  The parser is bottom-up, so a reduction   *)
(* finds its arguments on the stack of semantic values.                    *)
(*                                                                         *)
(* What the model is about is IDENTITY.  A type is a mutable Java object   *)
(* (TypeTree): cast() overwrites its tag in place, an operator shares the  *)
(* type of its left operand, all the variables of one declaration share    *)
(* one type, and a variable is one shared ExprVAR wherever it is used.     *)
(* cells is the heap of those objects and a reference to a type is an      *)
(* index in it (NullType for null).                                        *)
(***************************************************************************)
EXTENDS Integers, Sequences, Functions

CONSTANTS
  Vars,      \* the identifiers a source may use as variables
  Language,  \* the productions a source uses: tags, literals, operators, ...
  MaxNodes,  \* bound: AST objects one parse creates
  MaxCells,  \* bound: TypeTree objects alive
  MaxStack,  \* bound: semantic values pending at once
  MaxArgs    \* bound: elements of a list of expressions

(***************************************************************************)
(* Type.Tag and Type.sizeMap                                               *)
(***************************************************************************)
sizeMap ==
  [ FREE |-> -1, BOOLEAN |-> 1, ENUM |-> 1, LIST |-> -1, FUNCTION |-> -1,
    RANGE |-> -1, SET |-> -1, STRING |-> 2, STRUCT |-> -1, PIN |-> 1,
    INT8_T |-> 1, INT16_T |-> 2, INT32_T |-> 4, F32_T |-> 4, UINT8_T |-> 1,
    UINT16_T |-> 2, UINT32_T |-> 4 ]

Tag == DOMAIN sizeMap

NumberTags == {"INT8_T", "UINT8_T", "PIN", "INT16_T", "UINT16_T", "INT32_T",
               "UINT32_T", "F32_T"}

DeclTags == NumberTags \cup
            {"BOOLEAN", "STRING", "RANGE", "SET", "LIST", "ENUM", "STRUCT"}

\* The sizes DataGeneratorVisitor.visit(DeclVAR) reserves with .comm.
CommSize(tag) ==
  IF tag \in NumberTags THEN {sizeMap[tag]}
  ELSE IF tag = "LIST" THEN {512} ELSE {}

(***************************************************************************)
(* The productions.  LEVEL stands for LOW, HIGH, INPUT, INPUTPULLUP and    *)
(* OUTPUT, which build the same constant.                                  *)
(***************************************************************************)
literalTag ==
  [ BOOL |-> "BOOLEAN", PIN_LIT |-> "PIN", HEXA |-> "UINT16_T",
    BINAIRE |-> "UINT8_T", INTEGER |-> "UINT32_T", FLOAT |-> "F32_T",
    STRING_LIT |-> "STRING", LEVEL |-> "UINT8_T" ]

Literals == DOMAIN literalTag

AliasOps   == {"PLUS", "MUL", "MINUS", "DIV", "PERC", "BSL", "BSR", "BAND",
               "BOR", "AND", "OR"}
CompareOps == {"GT", "GE", "LT", "LE", "EQ", "NE"}
UnaryOps   == {"NEG", "NOT", "PP", "MM", "PP2", "MM2"}
AffOps     == {"AFF", "AFF_PLUS", "AFF_MINUS", "AFF_MUL", "AFF_DIV", "AFF_PER",
               "AFF_LAND", "AFF_LOR", "AFF_AND", "AFF_OR"}

NoCast == "none"
\* The tag each predefined operation of the grammar casts its arguments to.
argCasts ==
  [ analogReference |-> <<"UINT8_T">>, putc |-> <<"UINT8_T">>,
    puts |-> <<NoCast>>, delay_s |-> <<"UINT16_T">>,
    delay_ms |-> <<"UINT16_T">>, pinMode |-> <<"PIN", "UINT8_T">>,
    digitalWrite |-> <<"PIN", "UINT8_T">>, analogWrite |-> <<"PIN", "UINT16_T">>,
    analogRead |-> <<"PIN">> ]

OneArgProcs == {"analogReference", "putc", "puts", "delay_s", "delay_ms"}
TwoArgProcs == {"pinMode", "digitalWrite", "analogWrite"}
Readers     == {"getc", "available"}

\* The TypeFUNCTION objects %code init registers.  Only those of the four
\* functions usable as expressions can be reached by a cast, so the procedures
\* share one cell.
functionCell == [digitalRead |-> 1, analogRead |-> 2, getc |-> 3, available |-> 4]
ProcedureCell == 5

ASSUME VarsAssumption  == Vars \cap Int = {}
ASSUME BoundAssumption ==
  /\ MaxNodes \in Nat
  /\ MaxCells \in Nat
  /\ MaxStack \in Nat
  /\ MaxArgs \in Nat

VARIABLES
  phase,       \* where the parse is
  cells,       \* the TypeTree objects
  varEnvironment, \* the identifiers declared so far
  varType,     \* the type reference of each variable's ExprVAR
  reserved,    \* per variable, the sizes of its .comm lines
  ast,         \* the AST objects, in the order of their creation
  stack,       \* the semantic values, the top first
  pending,     \* what CheckTypeVisitor has still to visit
  passed,      \* history: the statements whose attestBoolean() returned
  program      \* the list of statements between "begin" and "end"

vars == <<phase, cells, varEnvironment, varType, reserved, ast, stack, pending,
          passed, program>>

Phases  == {"definitions", "body", "main", "generating", "done", "aborted"}
Origins == {"declared", "predefined", "fresh"}

NullType == 0

Ref(as) == Vars \cup DOMAIN as

\* Expr.getType(): null for an object built without one, and for statements.
TypeOf(e) == IF e \in Vars THEN varType[e] ELSE ast[e].type

Node(kind, op, type, kids) ==
  [kind |-> kind, op |-> op, type |-> type, kids |-> kids]

NewCell(tag, origin) == [tag |-> tag, origin |-> origin]

\* The kinds of Conditional statements have their condition as first child.
Conditionals == {"IF", "WHILE", "DO"}
Cond(s) == ast[s].kids[1]

(***************************************************************************)
(* Initial state: the environments after the Parser's constructor.         *)
(***************************************************************************)
Init ==
  /\ phase = "definitions"
  /\ cells = [c \in 1..ProcedureCell |-> NewCell("FUNCTION", "predefined")]
  /\ varEnvironment = {}
  /\ varType = [v \in Vars |-> NullType]
  /\ reserved = [v \in Vars |-> {}]
  /\ ast = <<>>
  /\ stack = <<>>
  /\ pending = <<>>
  /\ passed = {}
  /\ program = <<>>

(***************************************************************************)
(* The parts a reduction is made of.                                       *)
(***************************************************************************)
\* The parser reads statements, and CheckTypeVisitor is not running.
Parsing == phase \in {"body", "main"} /\ pending = <<>>

\* The k-th value from the top is of this sort.
Holds(k, sort) == k <= Len(stack) /\ stack[k].sort = sort

\* The object the k-th value from the top refers to.
Value(k) == stack[k].nodes[1]

Item(sort, nodes) == [sort |-> sort, nodes |-> nodes]

\* Replace the k values of the right-hand side by the one of the left-hand side.
Reduce(k, item) ==
  /\ Len(stack) - k < MaxStack
  /\ stack' = <<item>> \o SubSeq(stack, k + 1, Len(stack))

Create(nodes) ==
  /\ Len(ast) + Len(nodes) <= MaxNodes
  /\ ast' = ast \o nodes

\* YYABORT, or an exception that reaches Main: nothing is printed, and the
\* parser is dropped with everything it built.
Abort ==
  /\ phase' = "aborted"
  /\ cells' = <<>>
  /\ varEnvironment' = {}
  /\ varType' = [v \in Vars |-> NullType]
  /\ reserved' = [v \in Vars |-> {}]
  /\ ast' = <<>>
  /\ stack' = <<>>
  /\ pending' = <<>>
  /\ passed' = {}
  /\ program' = <<>>

\* new TypeTree(tag)
Allocate(tag, origin) ==
  /\ Len(cells) < MaxCells
  /\ cells' = Append(cells, NewCell(tag, origin))

\* TypeTree.cast() on the object c of the heap cs.
Cast(cs, c, tag) == IF tag = NoCast THEN cs ELSE [cs EXCEPT ![c].tag = tag]

Environment == <<varEnvironment, varType, reserved>>
Checker     == <<pending, passed>>

(***************************************************************************)
(* Definitions                                                             *)
(***************************************************************************)
\* Mutant: the variable is registered with a type object nobody allocated.
VarDefinitionUnallocated(ids, tag) ==
  /\ phase = "definitions"
  /\ varEnvironment' = varEnvironment \cup ids
  /\ varType' = [v \in Vars |-> IF v \in ids THEN Len(cells) + 1 ELSE varType[v]]
  /\ reserved' = [v \in Vars |-> IF v \in ids THEN reserved[v] \cup CommSize(tag)
                                              ELSE reserved[v]]
  /\ UNCHANGED <<phase, cells, ast, stack, Checker, program>>

\* var_definition: the identifiers share the one type object.
VarDefinition(ids, tag) ==
  /\ phase = "definitions"
  /\ Allocate(tag, "declared")
  /\ varEnvironment' = varEnvironment \cup ids
  /\ varType' = [v \in Vars |-> IF v \in ids THEN Len(cells) + 1 ELSE varType[v]]
  /\ reserved' = [v \in Vars |-> IF v \in ids THEN reserved[v] \cup CommSize(tag)
                                              ELSE reserved[v]]
  /\ UNCHANGED <<phase, ast, stack, Checker, program>>

\* function_definition, procedure_definition: the block is parsed and checked,
\* and then dropped.
BeginBlock ==
  /\ phase = "definitions"
  /\ phase' = "body"
  /\ UNCHANGED <<cells, Environment, ast, stack, Checker, program>>

EndBlock ==
  /\ phase = "body" /\ pending = <<>>
  /\ Len(stack) = 1 /\ Holds(1, "list")
  /\ stack' = <<>>
  /\ phase' = "definitions"
  /\ UNCHANGED <<cells, Environment, ast, Checker, program>>

Begin ==
  /\ phase = "definitions"
  /\ phase' = "main"
  /\ UNCHANGED <<cells, Environment, ast, stack, Checker, program>>

\* program: the generators start, see CodeGenerator.
End ==
  /\ phase = "main" /\ pending = <<>>
  /\ Len(stack) = 1 /\ Holds(1, "list")
  /\ program' = stack[1].nodes
  /\ stack' = <<>>
  /\ phase' = "generating"
  /\ UNCHANGED <<cells, Environment, ast, Checker>>

\* The next token fits no production: yyerror, and the parse stops.
SyntaxError ==
  /\ phase = "definitions" \/ Parsing
  /\ Abort

(***************************************************************************)
(* Expressions                                                             *)
(***************************************************************************)
\* A reduction to an expression that allocates no type and checks nothing.
ToExpr(k, nodes, e) ==
  /\ Create(nodes)
  /\ Reduce(k, Item("expr", <<e>>))
  /\ UNCHANGED <<phase, Environment, Checker, program>>

Top == Len(ast) + 1   \* the next object created

\* Mutant: literals of one tag share one type object.
ConstantExpressionInterned(l) ==
  LET same == {c \in DOMAIN cells : cells[c] = NewCell(literalTag[l], "fresh")}
  IN /\ Parsing
     /\ same # {}
     /\ ToExpr(0, <<Node("CONSTANT", l, CHOOSE c \in same : TRUE, <<>>)>>, Top)
     /\ UNCHANGED cells
  \/ /\ Parsing /\ same = {}
     /\ Allocate(literalTag[l], "fresh")
     /\ ToExpr(0, <<Node("CONSTANT", l, Len(cells) + 1, <<>>)>>, Top)

ConstantExpression(l) ==
  /\ Parsing
  /\ Allocate(literalTag[l], "fresh")
  /\ ToExpr(0, <<Node("CONSTANT", l, Len(cells) + 1, <<>>)>>, Top)

LeftPart(v) ==
  /\ Parsing /\ v \in varEnvironment
  /\ ToExpr(0, <<>>, v)
  /\ UNCHANGED cells

\* MapEnvironment.get() throws for an identifier nobody declared.
UnknownVariable(v) ==
  /\ Parsing /\ v \notin varEnvironment
  /\ Abort

\* IDENTIFIER '[' expression ']': an ExprGET has no type.
IndexedLeftPart(v) ==
  /\ Parsing /\ v \in varEnvironment /\ Holds(1, "expr")
  /\ ToExpr(1, <<Node("GET", "GET", NullType, <<Value(1), v>>)>>, Top)
  /\ UNCHANGED cells

\* Arithmetic, bitwise and logical operators take their left operand's type.
AliasBinary(op) ==
  /\ Parsing /\ Holds(1, "expr") /\ Holds(2, "expr")
  /\ ToExpr(2, <<Node("BINARY", op, TypeOf(Value(2)), <<Value(2), Value(1)>>)>>, Top)
  /\ UNCHANGED cells

\* Mutant: all comparisons share one boolean type.
ComparisonSharedBoolean(op) ==
  LET booleans == {c \in DOMAIN cells : cells[c].origin = "fresh" /\ cells[c].tag = "BOOLEAN"}
  IN /\ Parsing /\ Holds(1, "expr") /\ Holds(2, "expr")
     /\ IF booleans = {} THEN Allocate("BOOLEAN", "fresh") ELSE UNCHANGED cells
     /\ LET type == IF booleans = {} THEN Len(cells) + 1 ELSE CHOOSE c \in booleans : TRUE
        IN ToExpr(2, <<Node("BINARY", op, type, <<Value(2), Value(1)>>)>>, Top)

\* A comparison has a boolean of its own.
Comparison(op) ==
  /\ Parsing /\ Holds(1, "expr") /\ Holds(2, "expr")
  /\ Allocate("BOOLEAN", "fresh")
  /\ ToExpr(2, <<Node("BINARY", op, Len(cells) + 1, <<Value(2), Value(1)>>)>>, Top)

Unary(op) ==
  /\ Parsing /\ Holds(1, "expr")
  /\ ToExpr(1, <<Node("UNARY", op, TypeOf(Value(1)), <<Value(1)>>)>>, Top)
  /\ UNCHANGED cells

\* The values of a list_of_expressions of n elements, in source order.
Listed(n) == [i \in 1..n |-> Value(n + 1 - i)]

HoldsList(n) == \A i \in 1..n : Holds(i, "expr")

\* IDENTIFIER '(' list_of_expressions ')': a user function has no type.
UserCall(n) ==
  /\ Parsing /\ HoldsList(n)
  /\ ToExpr(n, <<Node("CALL", "user", NullType, Listed(n))>>, Top)
  /\ UNCHANGED cells

\* ExprLIST, ExprSET and ExprRANGE.
Aggregate(kind, n) ==
  /\ Parsing /\ HoldsList(n)
  /\ Allocate(IF kind = "EXPRSET" THEN "SET" ELSE "FREE", "fresh")
  /\ ToExpr(n, <<Node(kind, kind, Len(cells) + 1, Listed(n))>>, Top)

\* getc(), available()
Read(f) ==
  /\ Parsing
  /\ ToExpr(0, <<Node("CALL", f, functionCell[f], <<>>)>>, Top)
  /\ UNCHANGED cells

\* digitalRead(e): the expression becomes the VALUE of a new constant.
DigitalRead ==
  /\ Parsing /\ Holds(1, "expr")
  /\ Allocate("UINT8_T", "fresh")
  /\ ToExpr(1, <<Node("CONSTANT", "EXPR", Len(cells) + 1, <<Value(1)>>),
                 Node("UNARY", "ARG", Len(cells) + 1, <<Top>>),
                 Node("CALL", "digitalRead", functionCell.digitalRead, <<Top + 1>>)>>,
            Top + 2)

AnalogRead ==
  /\ Parsing /\ Holds(1, "expr") /\ TypeOf(Value(1)) # NullType
  /\ cells' = Cast(cells, TypeOf(Value(1)), "PIN")
  /\ ToExpr(1, <<Node("UNARY", "ARG", TypeOf(Value(1)), <<Value(1)>>),
                 Node("CALL", "analogRead", functionCell.analogRead, <<Top>>)>>,
            Top + 1)

\* cast() on an argument without type: NullPointerException.
CastOfNull(p) ==
  LET n == Len(argCasts[p])
  IN /\ Parsing /\ HoldsList(n)
     /\ \E i \in 1..n : argCasts[p][i] # NoCast /\ TypeOf(Listed(n)[i]) = NullType
     /\ Abort

(***************************************************************************)
(* Statements                                                              *)
(***************************************************************************)
ToStm(k, nodes) ==
  /\ Create(nodes)
  /\ Reduce(k, Item("stm", <<Len(ast) + Len(nodes)>>))
  /\ UNCHANGED <<phase, Environment, Checker, program>>

IsLeftPart(e) == e \notin Vars => ast[e].kind = "GET"

\* left_part "++" and left_part "--"
Increment(op) ==
  /\ Parsing /\ Holds(1, "expr") /\ IsLeftPart(Value(1))
  /\ ToStm(1, <<Node("UNARY", op, TypeOf(Value(1)), <<Value(1)>>),
                Node("EXPR", "EXPR", NullType, <<Top>>)>>)
  /\ UNCHANGED cells

Assignment(op) ==
  /\ Parsing /\ Holds(1, "expr") /\ Holds(2, "expr") /\ IsLeftPart(Value(2))
  /\ ToStm(2, <<Node("AFF", op, NullType, <<Value(2), Value(1)>>)>>)
  /\ UNCHANGED cells

OneArgProcedure(p) ==
  /\ Parsing /\ Holds(1, "expr")
  /\ argCasts[p][1] = NoCast \/ TypeOf(Value(1)) # NullType
  /\ cells' = Cast(cells, TypeOf(Value(1)), argCasts[p][1])
  /\ ToStm(1, <<Node("UNARY", "ARG", TypeOf(Value(1)), <<Value(1)>>),
                Node("CALL", p, ProcedureCell, <<Top>>),
                Node("EXPR", "EXPR", NullType, <<Top + 1>>)>>)

TwoArgProcedure(p) ==
  /\ Parsing /\ Holds(1, "expr") /\ Holds(2, "expr")
  /\ TypeOf(Value(2)) # NullType /\ TypeOf(Value(1)) # NullType
  /\ cells' = Cast(Cast(cells, TypeOf(Value(2)), argCasts[p][1]),
                   TypeOf(Value(1)), argCasts[p][2])
  /\ ToStm(2, <<Node("UNARY", "ARG", TypeOf(Value(2)), <<Value(2)>>),
                Node("UNARY", "ARG", TypeOf(Value(1)), <<Value(1)>>),
                Node("CALL", p, ProcedureCell, <<Top, Top + 1>>),
                Node("EXPR", "EXPR", NullType, <<Top + 2>>)>>)

\* peek() and flush(): their types were registered under another name, get()
\* throws, and the reduction leaves a Token where an Expr is expected.
UnregisteredProcedure ==
  /\ Parsing
  /\ Abort

UserCallStm(n) ==
  /\ Parsing /\ HoldsList(n)
  /\ ToStm(n, <<Node("CALL", "user", NullType, Listed(n)),
                Node("EXPR", "EXPR", NullType, <<Top>>)>>)
  /\ UNCHANGED cells

\* "if", "while" and "foreach": an expression, then the statement it governs.
Governed(kind) ==
  /\ Parsing /\ Holds(1, "stm") /\ Holds(2, "expr")
  /\ ToStm(2, <<Node(kind, kind, NullType, <<Value(2), Value(1)>>)>>)
  /\ UNCHANGED cells

IfElse ==
  /\ Parsing /\ Holds(1, "stm") /\ Holds(2, "stm") /\ Holds(3, "expr")
  /\ ToStm(3, <<Node("IF", "ELSE", NullType, <<Value(3), Value(2), Value(1)>>)>>)
  /\ UNCHANGED cells

DoWhile ==
  /\ Parsing /\ Holds(1, "expr") /\ Holds(2, "stm")
  /\ ToStm(2, <<Node("DO", "DO", NullType, <<Value(1), Value(2)>>)>>)
  /\ UNCHANGED cells

Loop ==
  /\ Parsing /\ Holds(1, "stm")
  /\ ToStm(1, <<Node("LOOP", "LOOP", NullType, <<Value(1)>>)>>)
  /\ UNCHANGED cells

\* "break", and "continue" which builds a StmBREAK as well.
Break ==
  /\ Parsing
  /\ ToStm(0, <<Node("BREAK", "BREAK", NullType, <<>>)>>)
  /\ UNCHANGED cells

Return ==
  /\ Parsing /\ Holds(1, "expr")
  /\ ToStm(1, <<Node("RETURN", "RETURN", NullType, <<Value(1)>>)>>)
  /\ UNCHANGED cells

CaseStm ==
  /\ Parsing /\ Holds(1, "stm") /\ Holds(2, "expr")
  /\ Create(<<Node("CASE", "CASE", NullType, <<Value(2), Value(1)>>)>>)
  /\ Reduce(2, Item("case", <<Top>>))
  /\ UNCHANGED <<phase, cells, Environment, Checker, program>>

Switch(n) ==
  /\ Parsing /\ Holds(n + 1, "expr") /\ \A i \in 1..n : Holds(i, "case")
  /\ ToStm(n + 1, <<Node("SWITCH", "SWITCH", NullType, <<Value(n + 1)>> \o Listed(n))>>)
  /\ UNCHANGED cells

\* '{' list_of_stms '}'
Block ==
  /\ Parsing /\ Holds(1, "list")
  /\ ToStm(1, <<Node("SEQ", "SEQ", NullType, stack[1].nodes)>>)
  /\ UNCHANGED cells

\* Mutant: only the first statement of a list is checked.
NextOfListUnchecked ==
  /\ Parsing /\ Holds(1, "stm") /\ Holds(2, "list")
  /\ Reduce(2, Item("list", Append(stack[2].nodes, Value(1))))
  /\ UNCHANGED <<phase, cells, Environment, ast, Checker, program>>

\* list_of_stms: the statement is handed to CheckTypeVisitor.
FirstOfList ==
  /\ Parsing /\ Holds(1, "stm")
  /\ Reduce(1, Item("list", <<Value(1)>>))
  /\ pending' = <<Value(1)>>
  /\ UNCHANGED <<phase, cells, Environment, ast, passed, program>>

NextOfList ==
  /\ Parsing /\ Holds(1, "stm") /\ Holds(2, "list")
  /\ Reduce(2, Item("list", Append(stack[2].nodes, Value(1))))
  /\ pending' = <<Value(1)>>
  /\ UNCHANGED <<phase, cells, Environment, ast, passed, program>>

(***************************************************************************)
(* CheckTypeVisitor, one visit() per step.                                 *)
(***************************************************************************)
Visiting(kinds) ==
  /\ phase \in {"body", "main"} /\ pending # <<>>
  /\ ast[Head(pending)].kind \in kinds

\* Mutant: the left side is given the type of the right side.
CheckAFFSwapped ==
  /\ Visiting({"AFF"})
  /\ LET left == ast[Head(pending)].kids[1]
         right == ast[Head(pending)].kids[2]
     IN IF left \in Vars
        THEN varType' = [varType EXCEPT ![left] = TypeOf(right)] /\ UNCHANGED ast
        ELSE ast' = [ast EXCEPT ![left].type = TypeOf(right)] /\ UNCHANGED varType
  /\ pending' = Tail(pending)
  /\ UNCHANGED <<phase, cells, varEnvironment, reserved, stack, passed, program>>

\* visit(StmAFF): the right side is given the type object of the left side.
CheckAFF ==
  /\ Visiting({"AFF"})
  /\ LET left == ast[Head(pending)].kids[1]
         right == ast[Head(pending)].kids[2]
     IN IF right \in Vars
        THEN varType' = [varType EXCEPT ![right] = TypeOf(left)] /\ UNCHANGED ast
        ELSE ast' = [ast EXCEPT ![right].type = TypeOf(left)] /\ UNCHANGED varType
  /\ pending' = Tail(pending)
  /\ UNCHANGED <<phase, cells, varEnvironment, reserved, stack, passed, program>>

\* attestBoolean() on a type reference returns.
IsBoolean(type) == type # NullType /\ cells[type].tag = "BOOLEAN"

\* visit(StmIF), visit(StmWHILE), visit(StmDO): the body is not visited.
CheckCondition ==
  /\ Visiting(Conditionals)
  /\ IsBoolean(TypeOf(Cond(Head(pending))))
  /\ passed' = passed \cup {Head(pending)}
  /\ pending' = Tail(pending)
  /\ UNCHANGED <<phase, cells, Environment, ast, stack, program>>

\* attestBoolean() throws, or getType() is null: YYABORT.
CheckConditionFails ==
  /\ Visiting(Conditionals)
  /\ ~IsBoolean(TypeOf(Cond(Head(pending))))
  /\ Abort

\* Mutant: the loop is handed to the visitor again, not its body.
CheckInsideAgain ==
  /\ Visiting({"SEQ", "LOOP"})
  /\ pending' = <<Head(pending)>> \o Tail(pending)
  /\ UNCHANGED <<phase, cells, Environment, ast, stack, passed, program>>

\* Mutant: visit(StmLOOP) is overridden as those of while and do are, without the body.
CheckInsideBlocks ==
  /\ Visiting({"SEQ", "LOOP"})
  /\ pending' = (IF ast[Head(pending)].kind = "SEQ" THEN ast[Head(pending)].kids ELSE <<>>)
                  \o Tail(pending)
  /\ UNCHANGED <<phase, cells, Environment, ast, stack, passed, program>>

\* StmSeq.accept() and visit(StmLOOP) hand the visitor on to the statements inside.
CheckInside ==
  /\ Visiting({"SEQ", "LOOP"})
  /\ pending' = ast[Head(pending)].kids \o Tail(pending)
  /\ UNCHANGED <<phase, cells, Environment, ast, stack, passed, program>>

\* The other visits only print.
CheckNothing ==
  /\ Visiting({"EXPR", "FOREACH", "SWITCH", "BREAK", "RETURN"})
  /\ pending' = Tail(pending)
  /\ UNCHANGED <<phase, cells, Environment, ast, stack, passed, program>>

Check == CheckAFF \/ CheckCondition \/ CheckConditionFails \/ CheckInside \/ CheckNothing

(***************************************************************************)
(* The parse of a source written with the productions of Language.         *)
(***************************************************************************)
Define ==
  \/ \E ids \in SUBSET Vars \ {{}}, tag \in DeclTags \cap Language : VarDefinition(ids, tag)
  \/ "BLOCK" \in Language /\ BeginBlock
  \/ EndBlock
  \/ Begin
  \/ End
  \/ SyntaxError

ParseExpr ==
  \/ \E l \in Literals \cap Language : ConstantExpression(l)
  \/ \E v \in Vars :
        \/ LeftPart(v)
        \/ UnknownVariable(v)
        \/ "GET" \in Language /\ IndexedLeftPart(v)
  \/ \E op \in AliasOps \cap Language : AliasBinary(op)
  \/ \E op \in CompareOps \cap Language : Comparison(op)
  \/ \E op \in UnaryOps \cap Language : Unary(op)
  \/ \E n \in 1..MaxArgs :
        \/ "CALL" \in Language /\ UserCall(n)
        \/ \E kind \in {"EXPRLIST", "EXPRSET"} \cap Language : Aggregate(kind, n)
  \/ "EXPRRANGE" \in Language /\ Aggregate("EXPRRANGE", 2)
  \/ \E f \in Readers \cap Language : Read(f)
  \/ "digitalRead" \in Language /\ DigitalRead
  \/ "analogRead" \in Language /\ AnalogRead

ParseStm ==
  \/ \E op \in {"PP", "MM"} \cap Language : Increment(op)
  \/ \E op \in AffOps \cap Language : Assignment(op)
  \/ \E p \in OneArgProcs \cap Language : OneArgProcedure(p)
  \/ \E p \in TwoArgProcs \cap Language : TwoArgProcedure(p)
  \/ \E p \in DOMAIN argCasts \cap Language : CastOfNull(p)
  \/ {"peek", "flush"} \cap Language # {} /\ UnregisteredProcedure
  \/ \E n \in 1..MaxArgs :
        \/ "CALL" \in Language /\ UserCallStm(n)
        \/ "SWITCH" \in Language /\ Switch(n)
  \/ "SWITCH" \in Language /\ CaseStm
  \/ \E kind \in {"IF", "WHILE", "FOREACH"} \cap Language : Governed(kind)
  \/ "ELSE" \in Language /\ IfElse
  \/ "DO" \in Language /\ DoWhile
  \/ "LOOP" \in Language /\ Loop
  \/ "BREAK" \in Language /\ Break
  \/ "RETURN" \in Language /\ Return
  \/ "SEQ" \in Language /\ Block
  \/ FirstOfList
  \/ NextOfList

Next == Define \/ ParseExpr \/ ParseStm \/ Check

\* A visit, once started, runs to its end: it is one sequential call.
Fairness == WF_vars(Check)

Spec == Init /\ [][Next]_vars /\ Fairness

(***************************************************************************)
(* Properties                                                              *)
(***************************************************************************)
Cell == [tag : Tag, origin : Origins]
Sorts == {"expr", "stm", "case", "list"}

ExprKinds == {"CONSTANT", "GET", "BINARY", "UNARY", "CALL", "EXPRLIST", "EXPRSET",
              "EXPRRANGE"}
StmKinds  == Conditionals \cup {"AFF", "EXPR", "FOREACH", "LOOP", "BREAK", "RETURN",
                                "CASE", "SWITCH", "SEQ"}
Ops == Literals \cup AliasOps \cup CompareOps \cup UnaryOps \cup AffOps
         \cup DOMAIN argCasts \cup Readers \cup ExprKinds \cup StmKinds
         \cup {"ARG", "EXPR", "digitalRead", "user", "ELSE"}

\* The type invariant.  Every reference to a type or to an AST object is one
\* to an object that exists.
TypeOK ==
  /\ phase \in Phases
  /\ cells \in Seq(Cell)
  /\ varEnvironment \subseteq Vars
  /\ varType \in [Vars -> NullType..Len(cells)]
  /\ reserved \in [Vars -> SUBSET Nat]
  /\ ast \in Seq([kind : ExprKinds \cup StmKinds, op : Ops, type : NullType..Len(cells),
                  kids : Seq(Ref(ast))])
  /\ stack \in Seq([sort : Sorts, nodes : Seq(Ref(ast))])
  /\ pending \in Seq(DOMAIN ast)
  /\ passed \subseteq DOMAIN ast
  /\ program \in Seq(DOMAIN ast)

\* Whatever is checked, cast and assigned, the type of a variable is always
\* the type object of some declaration (or null, once an indexed element was
\* assigned from it): neither the type of a literal or a comparison nor that of
\* a predefined function ever becomes the type of a variable.
\* (CheckTypeVisitor.visit(StmAFF) moves type objects from left to right only.)
VarTypesDeclared ==
  \A v \in Vars : varType[v] # NullType => cells[varType[v]].origin = "declared"

\* The type reference of the k-th value, when it is an expression a cast can
\* still reach.
Exposed(k) == IF stack[k].sort = "expr" THEN TypeOf(Value(k)) ELSE NullType

Fresh(c) == c # NullType /\ cells[c].origin = "fresh"

\* A literal, a comparison or an aggregate has its type object to itself while
\* it waits on the stack: casting one argument changes no other pending value
\* that is not a variable or a predefined call.  (new TypeTree in each production.)
OwnedTypes ==
  \A i, j \in DOMAIN stack : i # j /\ Exposed(i) = Exposed(j) => ~Fresh(Exposed(i))

\* A condition that passed attestBoolean() and is not (an alias of) a variable
\* is still boolean whenever the generators may look at it, although the code
\* generator runs after ALL the casts of the rest of the source.
ConditionsStayBoolean ==
  \A s \in passed : LET c == TypeOf(Cond(s)) IN Fresh(c) => cells[c].tag = "BOOLEAN"

\* The statements CheckTypeVisitor is owed: those that stand in a list.
InLists ==
  (UNION {Range(stack[i].nodes) : i \in {j \in DOMAIN stack : stack[j].sort = "list"}})
    \cup (UNION {Range(ast[n].kids) : n \in {m \in DOMAIN ast : ast[m].kind = "SEQ"}})
    \cup Range(program)

LoopBodies == {ast[l].kids[1] : l \in {n \in DOMAIN ast : ast[n].kind = "LOOP"}}

\* No statement of a list reaches the generators unchecked: once the visit is
\* over, every condition standing in a list, or as the body of a loop that stands
\* in a list or is itself the body of such a loop, at any depth, has passed
\* attestBoolean().  (The conditions in the branches of an if or the body of a
\* while need not.)
ListsChecked ==
  pending = <<>> /\ phase # "aborted" =>
    \E bodies \in SUBSET LoopBodies :
      LET owed == InLists \cup bodies
      IN \A s \in owed : /\ ast[s].kind \in Conditionals => s \in passed
                         /\ ast[s].kind = "LOOP" => ast[s].kids[1] \in owed

\* A visit of CheckTypeVisitor comes to an end: statements only contain older
\* statements, so accept() cannot recur for ever.
CheckEnds == pending # <<>> ~> pending = <<>> \/ phase = "aborted"
===============================================================================
