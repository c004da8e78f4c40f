----------------------------- MODULE CodeGenerator -----------------------------
(***************************************************************************)
(* The back end of the arduinoCode compiler: what the reduction of program *)
(* does once the whole source is parsed.  For each statement between       *)
(* "begin" and "end", DataGeneratorVisitor and then CodeGeneratorVisitor   *)
(* walk its AST; if neither throws, the assembler text is printed.         *)
(*                                                                         *)
(* The walk is the Java call stack: todo holds what the running visit()    *)
(* methods have still to do, the innermost first, and each visit() is cut  *)
(* where it calls accept().  currentRegisterCt is a field of the visitor   *)
(* that every visit reads and moves, and the register of an expression is  *)
(* a field of an AST object that the AST may share (a variable is one      *)
(* ExprVAR wherever it is used): this is where interleaved visits meet.    *)
(*                                                                         *)
(* An instruction is a tuple: its mnemonic, then its operands.             *)
(***************************************************************************)
EXTENDS FrontEnd, SequencesExt

VARIABLES
  todo,      \* the visits under way
  currentRegisterCt,
  register,  \* Expr.register, 0 until it is set
  text,      \* sectionText
  flash      \* the labels of sectionFLASHData

genVars == <<todo, currentRegisterCt, register, text, flash>>
allVars == <<vars, genVars>>

Byte1 == {"INT8_T", "UINT8_T", "PIN"}
Byte2 == {"INT16_T", "UINT16_T"}
Byte4 == {"INT32_T", "UINT32_T"}

Width(tag) == IF tag \in Byte1 THEN 1 ELSE IF tag \in Byte2 THEN 2 ELSE 4

FirstRegister == 24   \* every assignment and every test starts here
AfterArguments == 26  \* arguments are laid out downwards from here

\* A visit: what to do next with a node, and a local variable of visit().
Task(step, node, saved) == [step |-> step, node |-> node, saved |-> saved]
Visit(e) == Task("code", e, 0)

\* The tag switch statements look at; only for an expression with a type.
TagOf(e)  == cells[TypeOf(e)].tag
HasType(e) == TypeOf(e) # NullType
\* Expr.size()
SizeOf(e) == IF HasType(e) THEN sizeMap[TagOf(e)] ELSE 0

\* Stm.id counts the statements built so far.
IsStm(n) == ast[n].kind \in StmKinds
StmId(s) == Cardinality({n \in 1..(s - 1) : IsStm(n)})
\* ".L" + getId(), and ".L" + (getId()+1), which concatenates a 1.
Label(s)  == <<".L", StmId(s)>>
Label1(s) == <<IF StmId(s) = 0 THEN ".L0" ELSE ".L", 10 * StmId(s) + 1>>

\* The Java class of the value of a constant.
ValueClass(op) ==
  CASE op \in {"PIN_LIT", "HEXA", "BINAIRE", "LEVEL"} -> "Integer"
    [] op = "INTEGER"    -> "Long"
    [] op = "FLOAT"      -> "Float"
    [] op = "BOOL"       -> "Boolean"
    [] op = "STRING_LIT" -> "String"
    [] OTHER             -> "Expr"

Bad(what) == <<"bad", what>>   \* a comment, or text the assembler rejects

GenInit ==
  /\ Init
  /\ todo = <<>>
  /\ currentRegisterCt = FirstRegister
  /\ register = [v \in Vars |-> 0]
  /\ text = <<>>
  /\ flash = <<>>

(***************************************************************************)
(* The parts a visit is made of.                                           *)
(***************************************************************************)
Doing(step) == phase = "generating" /\ todo # <<>> /\ Head(todo).step = step
Current == Head(todo).node
Saved   == Head(todo).saved
Kid(i)  == ast[Current].kids[i]

DoingKind(step, kinds) ==
  Doing(step) /\ Current \notin Vars /\ ast[Current].kind \in kinds

\* The visit goes on with these tasks, then with what was waiting.
Continue(tasks) == todo' = tasks \o Tail(todo)
Emit(instrs)    == text' = text \o instrs
MoveTo(r)       == currentRegisterCt' = r
R(i)            == currentRegisterCt + i

\* Expr.register of e
RegisterOf(e) == IF e \in DOMAIN register THEN register[e] ELSE 0
SetRegister(e, r) ==
  register' = [x \in DOMAIN register \cup {e} |-> IF x = e THEN r ELSE register[x]]

\* Mutant: the visits under way go on.
ThrowKeepsVisits ==
  /\ Abort
  /\ currentRegisterCt' = FirstRegister
  /\ register' = [v \in Vars |-> 0]
  /\ text' = <<>>
  /\ flash' = <<>>
  /\ UNCHANGED todo

\* An exception: caught by the grammar, YYABORT, and nothing is printed.
Throw ==
  /\ Abort
  /\ todo' = <<>>
  /\ currentRegisterCt' = FirstRegister
  /\ register' = [v \in Vars |-> 0]
  /\ text' = <<>>
  /\ flash' = <<>>

Stays == UNCHANGED vars

(***************************************************************************)
(* The loop of the program production.                                     *)
(***************************************************************************)
NextStatement ==
  /\ phase = "generating" /\ todo = <<>> /\ program # <<>>
  /\ todo' = <<Task("data", Head(program), 0), Visit(Head(program))>>
  /\ program' = Tail(program)
  /\ UNCHANGED <<phase, cells, Environment, ast, stack, Checker,
                 currentRegisterCt, register, text, flash>>

\* generateHead(), generateCode() and generateFoot() print the sections.
Output ==
  /\ phase = "generating" /\ todo = <<>> /\ program = <<>>
  /\ phase' = "done"
  /\ UNCHANGED <<cells, Environment, ast, stack, Checker, program, genVars>>

(***************************************************************************)
(* DataGeneratorVisitor                                                    *)
(***************************************************************************)
\* Mutant: visit(StmLOOP) hands the visitor to the loop, not to its body.
DataKidsOfItself(n) == IF ast[n].kind = "LOOP" THEN <<n>> ELSE <<>>

\* The children it visits: no body of an if, a while, a do or a foreach, and
\* no argument of a call.
DataKids(n) ==
  CASE ast[n].kind = "AFF"                            -> <<ast[n].kids[2]>>
    [] ast[n].kind \in Conditionals \cup {"FOREACH"}  -> <<ast[n].kids[1]>>
    [] ast[n].kind \in {"BINARY", "LOOP", "SEQ", "EXPR"} -> ast[n].kids
    [] OTHER                                          -> <<>>

\* A constant has a type, and one of type string the value of a string.
Declarable(n) ==
  HasType(n) /\ (TagOf(n) = "STRING" => ValueClass(ast[n].op) = "String")

DataVisit ==
  /\ Doing("data")
  /\ IF Current \in Vars THEN Continue(<<>>)
     ELSE Continue([i \in DOMAIN DataKids(Current) |->
                      Task("data", DataKids(Current)[i], 0)])
  /\ Current \notin Vars /\ ast[Current].kind = "CONSTANT" => Declarable(Current)
  /\ flash' = IF Current \in Vars THEN flash
              ELSE IF ast[Current].kind = "CALL" /\ ast[Current].op = "user"
              THEN Append(flash, <<"user">>)
              ELSE IF ast[Current].kind = "CONSTANT" /\ TagOf(Current) = "STRING"
              THEN Append(flash, <<"Cst", Current>>)
              ELSE flash
  /\ Stays
  /\ UNCHANGED <<currentRegisterCt, register, text>>

DataVisitThrows ==
  /\ DoingKind("data", {"CONSTANT"}) /\ ~Declarable(Current)
  /\ Throw

(***************************************************************************)
(* CodeGeneratorVisitor: expressions                                       *)
(***************************************************************************)
\* visit(ExprVAR).  The fourth byte is loaded from the wrong address.
VisitVAR ==
  /\ Doing("code") /\ Current \in Vars /\ HasType(Current)
  /\ IF TagOf(Current) \in Byte1 \cup Byte2 \cup Byte4
     THEN /\ Emit([i \in 1..Width(TagOf(Current)) |->
                     <<"lds", R(i - 1), Current, IF i = 4 THEN 4 ELSE i - 1>>])
          /\ SetRegister(Current, currentRegisterCt)
     ELSE Emit(<<Bad("VAR")>>) /\ UNCHANGED register
  /\ Continue(<<>>)
  /\ Stays
  /\ UNCHANGED <<currentRegisterCt, flash>>

\* digitalRead(e) made e the value of a constant, which prints as the text of e:
\* a literal prints as itself, anything else as a Java object.  Between lo8( and )
\* the assembler wants an integer.
Literal(n) == IF ast[n].op = "EXPR" THEN ast[n].kids[1] ELSE n
PrintsLiteral(n) ==
  /\ Literal(n) \notin Vars
  /\ ast[Literal(n)].kind = "CONSTANT"
  /\ TagOf(n) \in Byte1 => ValueClass(ast[Literal(n)].op) \in {"Integer", "Long"}

\* The bytes first..last of a constant, least significant first.
LoadBytes(n, first, last) ==
  [i \in 1..(last - first + 1) |-> <<"ldi", R(first + i - 1), Literal(n), first + i - 1>>]

\* The casts of the value to a Long or a Float succeed.
ValueFits(tag, class) ==
  /\ tag \in Byte2 => class = "Long"
  /\ tag \in {"UINT32_T", "F32_T"} => class \in {"Long", "Float"}

\* visit(ExprCONSTANT).  The case of 16 bits has no break: it runs on into the
\* one of 32 bits.
VisitCONSTANT ==
  /\ DoingKind("code", {"CONSTANT"}) /\ HasType(Current)
  /\ ValueFits(TagOf(Current), ValueClass(ast[Current].op))
  /\ LET tag == TagOf(Current)
     IN /\ Emit(IF ~PrintsLiteral(Current) THEN <<Bad("value")>> ELSE
                CASE tag \in Byte1 -> LoadBytes(Current, 0, 0)
                  [] tag \in Byte2 -> LoadBytes(Current, 0, 1) \o LoadBytes(Current, 0, 3)
                  [] tag \in {"UINT32_T", "F32_T"} -> LoadBytes(Current, 0, 3)
                  [] tag = "STRING" -> <<<<"ldiaddr", R(0), Current>>,
                                         <<"ldiaddr", R(1), Current>>>>
                  [] OTHER -> <<Bad("CONSTANT")>>)
        /\ IF tag \in Byte1 \cup Byte2 \cup {"UINT32_T", "F32_T", "STRING"}
           THEN SetRegister(Current, currentRegisterCt)
           ELSE UNCHANGED register
  /\ Continue(<<>>)
  /\ Stays
  /\ UNCHANGED <<currentRegisterCt, flash>>

\* No type, or a ClassCastException.
VisitLeafThrows ==
  /\ \/ Doing("code") /\ Current \in Vars /\ ~HasType(Current)
     \/ /\ DoingKind("code", {"CONSTANT"})
        /\ HasType(Current) =>
             ~ValueFits(TagOf(Current), ValueClass(ast[Current].op))
  /\ Throw

\* visit(ExprBinary): up to the visit of the left operand ...
VisitBinary ==
  /\ DoingKind("code", {"BINARY"})
  /\ Continue(<<Visit(Kid(1)), Task("right", Current, currentRegisterCt)>>)
  /\ Stays
  /\ UNCHANGED <<currentRegisterCt, register, text, flash>>

\* Mutant: registers are set aside for the result too.
BinaryRightWithResult ==
  /\ Doing("right") /\ HasType(Kid(1))
  /\ MoveTo(currentRegisterCt + SizeOf(Kid(1)) + SizeOf(Kid(2)))
  /\ Continue(<<Visit(Kid(2)), Task("combine", Current, Saved)>>)
  /\ Stays
  /\ UNCHANGED <<register, text, flash>>

\* ... up to the visit of the right one ...
BinaryRight ==
  /\ Doing("right") /\ HasType(Kid(1))
  /\ MoveTo(currentRegisterCt + SizeOf(Kid(1)))
  /\ Continue(<<Visit(Kid(2)), Task("combine", Current, Saved)>>)
  /\ Stays
  /\ UNCHANGED <<register, text, flash>>

BinaryRightThrows == Doing("right") /\ ~HasType(Kid(1)) /\ Throw

\* Mutant: the cursor is not restored after the operation.
BinaryCombineKeepsCursor ==
  /\ Doing("combine")
  /\ LET left == RegisterOf(Kid(1))
         right == RegisterOf(Kid(2))
     IN IF ast[Current].op = "PLUS"
        THEN Emit(<<<<"add", left, right>>>>) /\ SetRegister(Current, left)
        ELSE Emit(<<<<"cp", left, right>>>>) /\ UNCHANGED register
  /\ Continue(<<>>)
  /\ Stays
  /\ UNCHANGED <<currentRegisterCt, flash>>

\* ... and the instruction.  Only the sum has a register of its own.
BinaryCombine ==
  /\ Doing("combine")
  /\ LET left == RegisterOf(Kid(1))
         right == RegisterOf(Kid(2))
     IN CASE ast[Current].op = "EQ" ->
               Emit(<<<<"cp", left, right>>>>) /\ UNCHANGED register
          [] ast[Current].op = "PLUS" ->
               Emit(<<<<"add", left, right>>>>) /\ SetRegister(Current, left)
          [] OTHER -> Emit(<<Bad("BINARY")>>) /\ UNCHANGED register
  /\ MoveTo(Saved)
  /\ Continue(<<>>)
  /\ Stays
  /\ UNCHANGED flash

\* Mutant: an argument of one byte takes one register.
ArgumentSpanUnaligned(size) == size

\* The registers an argument of this size moves the cursor down by, an even
\* number for the sizes there are (a size of -1 moves it up by one).
ArgumentSpan(size) == IF size = 1 THEN 2 ELSE size

\* visit(ExprFUNCTION): the arguments in turn, then the call.
VisitCall ==
  /\ DoingKind("code", {"CALL"})
  /\ MoveTo(AfterArguments)
  /\ Continue([i \in DOMAIN ast[Current].kids |-> Task("argument", Kid(i), 0)]
                \o <<Task("call", Current, currentRegisterCt)>>)
  /\ Stays
  /\ UNCHANGED <<register, text, flash>>

Argument ==
  /\ Doing("argument")
  /\ MoveTo(currentRegisterCt - ArgumentSpan(SizeOf(Current)))
  /\ Continue(<<Visit(Current)>>)
  /\ Stays
  /\ UNCHANGED <<register, text, flash>>

\* Mutant: the cursor is left on the last argument.
CallKeepsCursor ==
  /\ Doing("call") /\ HasType(Current)
  /\ Emit(<<<<"call", ast[Current].op>>>>)
  /\ Continue(<<>>)
  /\ Stays
  /\ UNCHANGED <<currentRegisterCt, register, flash>>

\* The result stays where the callee left it: TypeFUNCTION keeps the result
\* type on its left, getRight() is always null, and no register is recorded.
Call ==
  /\ Doing("call") /\ HasType(Current)
  /\ MoveTo(Saved)
  /\ Emit(IF ast[Current].op = "user" THEN <<Bad("call without end of line")>>
          ELSE <<<<"call", ast[Current].op>>>>)
  /\ Continue(<<>>)
  /\ Stays
  /\ UNCHANGED <<register, flash>>

CallThrows == Doing("call") /\ ~HasType(Current) /\ Throw

\* visit(ExprUnary): a function argument and ++ visit their operand.
VisitUnary ==
  /\ DoingKind("code", {"UNARY"})
  /\ CASE ast[Current].op = "ARG" ->
            /\ HasType(Kid(1))
            /\ Emit(IF TagOf(Kid(1)) \in Byte1 \cup Byte2 THEN <<>> ELSE <<Bad("ARG")>>)
            /\ Continue(<<Visit(Kid(1)), Task("pass", Current, 0)>>)
       [] ast[Current].op = "PP" ->
            /\ UNCHANGED text
            /\ Continue(<<Visit(Kid(1)), Task("increment", Current, 0)>>)
       [] OTHER -> Emit(<<Bad("UNARY")>>) /\ Continue(<<>>)
  /\ Stays
  /\ UNCHANGED <<currentRegisterCt, register, flash>>

VisitUnaryThrows ==
  /\ DoingKind("code", {"UNARY"}) /\ ast[Current].op = "ARG" /\ ~HasType(Kid(1))
  /\ Throw

\* The value is copied where the callee expects it.
Pass ==
  /\ Doing("pass")
  /\ LET from == RegisterOf(Kid(1))
         tag == TagOf(Kid(1))
     IN Emit(IF tag \in Byte1 \cup Byte2 \cup {"STRING"} /\ currentRegisterCt = from THEN <<>> ELSE
             CASE tag \in Byte1 -> <<<<"mov", currentRegisterCt, from>>>>
               [] tag \in Byte2 \cup {"STRING"} -> <<<<"movw", currentRegisterCt, from>>>>
               [] OTHER -> <<Bad("ARG")>>)
  /\ Continue(<<>>)
  /\ Stays
  /\ UNCHANGED <<currentRegisterCt, register, flash>>

\* sts of the n bytes of a variable from the current register on.
StoreBytes(v, n) == [i \in 1..n |-> <<"sts", v, i - 1, R(i - 1)>>]

\* The cast of the target to ExprVAR fails.
NotAVariable(e, tags) == TagOf(e) \in tags /\ e \notin Vars

Incrementable == Byte1 \cup Byte2 \cup Byte4

Increment1 ==
  /\ Doing("increment") /\ HasType(Kid(1)) /\ ~NotAVariable(Kid(1), Incrementable)
  /\ IF TagOf(Kid(1)) \in Incrementable
     THEN /\ Emit((CASE TagOf(Kid(1)) \in Byte1 -> <<<<"subi", R(0)>>>>
                     [] TagOf(Kid(1)) \in Byte2 -> <<<<"adiw", R(0)>>>>
                     [] OTHER -> <<<<"adiw", R(0)>>, <<"adc", R(2)>>, <<"adc", R(3)>>>>)
                  \o StoreBytes(Kid(1), Width(TagOf(Kid(1)))))
          /\ SetRegister(Current, currentRegisterCt)
     ELSE Emit(<<Bad("PP")>>) /\ UNCHANGED register
  /\ Continue(<<>>)
  /\ Stays
  /\ UNCHANGED <<currentRegisterCt, flash>>

IncrementThrows ==
  /\ Doing("increment")
  /\ HasType(Kid(1)) => NotAVariable(Kid(1), Incrementable)
  /\ Throw

\* visit(ExprLIST): the elements are constants or the visit throws.
ListElements(n) ==
  [i \in DOMAIN ast[n].kids |->
     LET e == ast[n].kids[i]
     IN [node |-> e, typed |-> HasType(e),
         tag |-> IF HasType(e) THEN TagOf(e) ELSE "FREE",
         class |-> IF e \in Vars \/ ast[e].kind # "CONSTANT" THEN "null"
                   ELSE ValueClass(ast[e].op)]]

ElementThrows(el) ==
  \/ ~el.typed
  \/ el.tag \in Byte1 /\ el.class = "null"
  \/ el.tag \in Byte2 /\ el.class # "Long"
  \/ el.tag \in Byte4 \cup {"F32_T"} /\ el.class \notin {"Long", "Float"}

\* Each element overwrites the same registers; the sts has no end of line.
VisitLIST ==
  /\ DoingKind("code", {"EXPRLIST"})
  /\ \A i \in DOMAIN ListElements(Current) : ~ElementThrows(ListElements(Current)[i])
  /\ MoveTo(FirstRegister)
  /\ LET els == ListElements(Current)
         Code(el) ==
           IF el.tag \in Incrementable \cup {"F32_T"}
           THEN [k \in 1..Width(el.tag) |-> <<"ldi", FirstRegister + k - 1, el.node, k - 1>>]
                  \o <<Bad("NAME_LIST")>>
           ELSE <<Bad("LIST")>>
     IN /\ Emit(FlattenSeq([i \in DOMAIN els |-> Code(els[i])]))
        /\ IF \E i \in DOMAIN els : els[i].tag \in Byte2 \cup Byte4 \cup {"F32_T"}
           THEN SetRegister(Current, FirstRegister)
           ELSE UNCHANGED register
  /\ Continue(<<>>)
  /\ Stays
  /\ UNCHANGED flash

VisitLISTThrows ==
  /\ DoingKind("code", {"EXPRLIST"})
  /\ \E i \in DOMAIN ListElements(Current) : ElementThrows(ListElements(Current)[i])
  /\ Throw

\* GET is an unimplemented unary operation; the visits the generator does not
\* define only warn.
VisitOther ==
  /\ DoingKind("code", {"GET", "EXPRSET", "EXPRRANGE", "BREAK", "RETURN", "SWITCH"})
  /\ Emit(IF ast[Current].kind = "GET" THEN <<Bad("GET")>> ELSE <<>>)
  /\ Continue(<<>>)
  /\ Stays
  /\ UNCHANGED <<currentRegisterCt, register, flash>>

(***************************************************************************)
(* CodeGeneratorVisitor: statements                                        *)
(***************************************************************************)
\* StmExpr.accept() and StmSeq.accept() hand the visitor on.
VisitInside ==
  /\ DoingKind("code", {"EXPR", "SEQ"})
  /\ Continue([i \in DOMAIN ast[Current].kids |-> Visit(Kid(i))])
  /\ Stays
  /\ UNCHANGED <<currentRegisterCt, register, text, flash>>

\* visit(StmAFF), whatever its operator.
VisitAFF ==
  /\ DoingKind("code", {"AFF"})
  /\ MoveTo(FirstRegister)
  /\ Continue(<<Visit(Kid(2)), Task("store", Current, 0)>>)
  /\ Stays
  /\ UNCHANGED <<register, text, flash>>

Storable == Incrementable \cup {"F32_T"}

\* The value is taken from the current register, not from the register of the
\* right side; the cursor is then moved beyond it.
Store ==
  /\ Doing("store") /\ HasType(Kid(1)) /\ ~NotAVariable(Kid(1), Storable)
  /\ Emit(IF TagOf(Kid(1)) \in Storable THEN StoreBytes(Kid(1), Width(TagOf(Kid(1))))
          ELSE <<Bad("AFF")>>)
  /\ MoveTo(currentRegisterCt + SizeOf(Kid(2)))
  /\ Continue(<<>>)
  /\ Stays
  /\ UNCHANGED <<register, flash>>

StoreThrows ==
  /\ Doing("store")
  /\ HasType(Kid(1)) => NotAVariable(Kid(1), Storable)
  /\ Throw

\* visit(StmIF), visit(StmWHILE), visit(StmDO), visit(StmFOREACH): the expression.
VisitControl ==
  /\ DoingKind("code", Conditionals \cup {"FOREACH"})
  /\ MoveTo(FirstRegister)
  /\ Continue(<<Visit(Kid(1)), Task("control", Current, 0)>>)
  /\ Stays
  /\ UNCHANGED <<register, text, flash>>

\* ... then the test and the branch around the statement it governs.
Test(target) == <<<<"tst", R(0)>>, <<"breq", target>>>>

Control ==
  /\ Doing("control")
  /\ LET n == Current
     IN \/ /\ ast[n].kind = "IF" /\ ast[n].op = "IF"
           /\ Emit(Test(Label(Kid(2))))
           /\ Continue(<<Visit(Kid(2)), Task("end if", n, 0)>>)
        \/ /\ ast[n].kind = "IF" /\ ast[n].op = "ELSE"
           /\ Emit(Test(Label(Kid(2))))
           /\ Continue(<<Visit(Kid(2)), Task("else", n, 0)>>)
        \* "rjmp .Lx :" and a label without its colon.
        \/ /\ ast[n].kind = "WHILE"
           /\ Emit(<<Bad("rjmp"), Bad("label")>>)
           /\ Continue(<<Visit(Kid(2)), Task("end while", n, 0)>>)
        \* The condition of do ... while is computed once, before the body.
        \/ /\ ast[n].kind = "DO"
           /\ Emit(<<Bad("label")>>)
           /\ Continue(<<Visit(Kid(2)), Task("end while", n, 0)>>)
        \/ /\ ast[n].kind = "FOREACH"
           /\ Emit(<<Bad("ldi"), Bad("std"), Bad("rjump"), <<"label", Label(Kid(2))>>>>)
           /\ Continue(<<Visit(Kid(2)), Task("end foreach", n, 0)>>)
  /\ Stays
  /\ UNCHANGED <<currentRegisterCt, register, flash>>

\* Mutant: the code of the true branch runs on into the false one.
ElseFallsThrough ==
  /\ Doing("else")
  /\ Emit(<<<<"label", Label(Kid(2))>>>>)
  /\ Continue(<<Visit(Kid(3)), Task("end if", Current, 1)>>)
  /\ Stays
  /\ UNCHANGED <<currentRegisterCt, register, flash>>

Else ==
  /\ Doing("else")
  /\ Emit(<<<<"rjmp", Label(Kid(3))>>, <<"label", Label(Kid(2))>>>>)
  /\ Continue(<<Visit(Kid(3)), Task("end if", Current, 1)>>)
  /\ Stays
  /\ UNCHANGED <<currentRegisterCt, register, flash>>

\* Mutant: the label is made of the identifier of the if, not of its branch.
EndIfOwnLabel ==
  /\ Doing("end if")
  /\ Emit(<<<<"label", Label(Current)>>>>)
  /\ Continue(<<>>)
  /\ Stays
  /\ UNCHANGED <<currentRegisterCt, register, flash>>

EndIf ==
  /\ Doing("end if")
  /\ Emit(<<<<"label", Label(Kid(IF Saved = 1 THEN 3 ELSE 2))>>>>)
  /\ Continue(<<>>)
  /\ Stays
  /\ UNCHANGED <<currentRegisterCt, register, flash>>

\* The test uses whatever register the body left current.
EndWhile ==
  /\ Doing("end while")
  /\ Emit(<<<<"label", Label(Kid(2))>>, <<"tst", R(0)>>, <<"brne", Label1(Kid(2))>>>>)
  /\ Continue(<<>>)
  /\ Stays
  /\ UNCHANGED <<currentRegisterCt, register, flash>>

EndForeach ==
  /\ Doing("end foreach")
  /\ Emit(<<Bad("ldd"), Bad("subi"), Bad("std"), Bad("label"), Bad("ldd"), Bad("cpi"),
            <<"brne", Label(Kid(2))>>>>)
  /\ Continue(<<>>)
  /\ Stays
  /\ UNCHANGED <<currentRegisterCt, register, flash>>

VisitLOOP ==
  /\ DoingKind("code", {"LOOP"})
  /\ Emit(<<<<"label", <<".LOOP_", StmId(Current)>>>>>>)
  /\ Continue(<<Visit(Kid(1)), Task("end loop", Current, 0)>>)
  /\ Stays
  /\ UNCHANGED <<currentRegisterCt, register, flash>>

EndLoop ==
  /\ Doing("end loop")
  /\ Emit(<<<<"jmp", <<".LOOP_", StmId(Current)>>>>,
            <<"label", <<".END_LOOP_", StmId(Current)>>>>>>)
  /\ Continue(<<>>)
  /\ Stays
  /\ UNCHANGED <<currentRegisterCt, register, flash>>

(***************************************************************************)
(* The compiler: the front end, then the generators.                       *)
(***************************************************************************)
GenerateExpr ==
  \/ VisitVAR \/ VisitCONSTANT \/ VisitLeafThrows
  \/ VisitBinary \/ BinaryRight \/ BinaryRightThrows \/ BinaryCombine
  \/ VisitCall \/ Argument \/ Call \/ CallThrows
  \/ VisitUnary \/ VisitUnaryThrows \/ Pass \/ Increment1 \/ IncrementThrows
  \/ VisitLIST \/ VisitLISTThrows \/ VisitOther

GenerateStm ==
  \/ VisitInside \/ VisitAFF \/ Store \/ StoreThrows
  \/ VisitControl \/ Control \/ Else \/ EndIf \/ EndWhile \/ EndForeach
  \/ VisitLOOP \/ EndLoop

Generate ==
  NextStatement \/ Output \/ DataVisit \/ DataVisitThrows \/ GenerateExpr \/ GenerateStm

CompilerNext == (Next /\ UNCHANGED genVars) \/ Generate

\* The checks and the generation are sequential calls: each runs to its end.
CompilerSpec ==
  /\ GenInit /\ [][CompilerNext]_allVars
  /\ WF_allVars(Check /\ UNCHANGED genVars) /\ WF_allVars(Generate)
(***************************************************************************)
(* The machine: what emitted code computes, byte by byte and symbolically. *)
(***************************************************************************)
\* No text the assembler rejects: registers exist, ldi takes an upper one.
Registers(i) ==
  CASE i[1] \in {"lds", "ldi", "ldiaddr", "subi", "adiw", "adc", "tst"} -> {i[2]}
    [] i[1] \in {"mov", "movw", "add", "cp"} -> {i[2], i[3]}
    [] i[1] = "sts" -> {i[4]}
    [] OTHER -> {}

Accepted(code) ==
  \A k \in DOMAIN code :
    /\ code[k][1] # "bad"
    /\ Registers(code[k]) \subseteq 0..31
    /\ code[k][1] = "adiw" => code[k][2] \in {24, 26, 28, 30}

\* Registers a callee may change.
CallClobbers == 18..27 \cup {0, 30, 31}

PowerOn == [regs |-> [r \in 0..35 |-> <<"reg", r>>],
            mem  |-> [b \in Vars \X (0..4) |-> <<"mem", b>>]]

Execute(m, i) ==
  CASE i[1] = "lds"  -> [m EXCEPT !.regs[i[2]] = m.mem[<<i[3], i[4]>>]]
    [] i[1] = "ldi"  -> [m EXCEPT !.regs[i[2]] = <<"lit", i[3], i[4]>>]
    [] i[1] = "ldiaddr" -> [m EXCEPT !.regs[i[2]] = <<"address", i[3]>>]
    [] i[1] = "mov"  -> [m EXCEPT !.regs[i[2]] = m.regs[i[3]]]
    [] i[1] = "movw" -> [m EXCEPT !.regs[i[2]] = m.regs[i[3]],
                                  !.regs[i[2] + 1] = m.regs[i[3] + 1]]
    [] i[1] = "add"  -> [m EXCEPT !.regs[i[2]] = <<"PLUS", m.regs[i[2]], m.regs[i[3]]>>]
    [] i[1] = "subi" -> [m EXCEPT !.regs[i[2]] = <<"INC", m.regs[i[2]]>>]
    [] i[1] = "sts"  -> [m EXCEPT !.mem[<<i[2], i[3]>>] = m.regs[i[4]]]
    [] i[1] = "call" -> [m EXCEPT !.regs = [r \in DOMAIN m.regs |->
                           IF r = FirstRegister THEN <<"result", i[2]>>
                           ELSE IF r \in CallClobbers THEN <<"any">> ELSE m.regs[r]]]
    [] OTHER -> m

Machine == FoldLeft(Execute, PowerOn, text)

\* The low byte of what an expression means in memory mem.
Meaning(mem) ==
  LET M[e \in Vars \cup DOMAIN ast] ==
        IF e \in Vars THEN mem[<<e, 0>>]
        ELSE IF ast[e].kind = "CONSTANT"
        THEN IF TagOf(e) = "STRING" THEN <<"address", e>> ELSE <<"lit", Literal(e), 0>>
        ELSE IF ast[e].kind = "BINARY" THEN <<ast[e].op, M[ast[e].kids[1]], M[ast[e].kids[2]]>>
        ELSE IF ast[e].kind = "CALL" THEN <<"result", ast[e].op>>
        ELSE <<"other", e>>
  IN M

\* The variables of an expression.
VarsOf ==
  LET V[e \in Vars \cup DOMAIN ast] ==
        IF e \in Vars THEN {e} ELSE UNION {V[ast[e].kids[i]] : i \in DOMAIN ast[e].kids}
  IN V

\* A sum of variables and constants in which no operand that is a variable is
\* used again on the right of its operator, as its one ExprVAR then has the
\* register of its last use, and in which left operands have a size: a sum has the
\* type its left operand had when it was parsed, and if that was one of size -1 and
\* the variable got another by an assignment, the right operand is computed a
\* register below the left one, on which its upper bytes may fall.
Sum ==
  LET S[e \in Vars \cup DOMAIN ast] ==
        \/ e \in Vars
        \/ ast[e].kind = "CONSTANT"
        \/ /\ ast[e].kind = "BINARY" /\ ast[e].op = "PLUS"
           /\ S[ast[e].kids[1]] /\ S[ast[e].kids[2]]
           /\ ast[e].kids[1] \notin VarsOf[ast[e].kids[2]]
           /\ SizeOf(ast[e].kids[1]) > 0
  IN S

\* The number of registers the code of a sum writes, from the current one up.
Span ==
  LET F[e \in Vars \cup DOMAIN ast] ==
        IF e \in Vars THEN SizeOf(e)
        ELSE IF ast[e].kind = "CONSTANT"
        THEN IF TagOf(e) \in Byte1 THEN 1 ELSE 4
        ELSE IF ast[e].kind = "BINARY"
        THEN LET l == ast[e].kids[1]
                 r == ast[e].kids[2]
             IN IF F[l] > SizeOf(l) + F[r] THEN F[l] ELSE SizeOf(l) + F[r]
        ELSE 0
  IN F

(***************************************************************************)
(* Properties                                                              *)
(***************************************************************************)
Steps == {"data", "code", "right", "combine", "argument", "call", "pass", "increment",
          "store", "control", "else", "end if", "end while", "end foreach", "end loop"}

\* The type invariant.  Every visit under way is one of an object that exists,
\* and every register recorded is the one of such an object.
GenTypeOK ==
  /\ todo \in Seq([step : Steps, node : Ref(ast), saved : Int])
  /\ currentRegisterCt \in Int
  /\ DOMAIN register \subseteq Ref(ast)
  /\ \A e \in DOMAIN register : register[e] \in Int
  /\ phase # "generating" => todo = <<>>

\* Machine runs text from top to bottom.
StraightLine ==
  Accepted(text) /\ \A k \in DOMAIN text : text[k][1] \notin {"breq", "rjmp", "brne", "jmp"}

\* What is stored by "v = e;" is the value of e: when e is a sum in which no
\* variable waits in a register while it is loaded again, or the result of a
\* predefined function, the low byte of e is in the register the sts reads.
\* (visit(StmAFF) reads the register under the cursor, not the register the
\* expression recorded; they agree only if every visit restores the cursor.)
AssignmentsCompute ==
  Doing("store") /\ ast[Current].op = "AFF" /\ StraightLine =>
    LET e == Kid(2)
    IN Sum[e] \/ (e \notin Vars /\ ast[e].kind = "CALL" /\ ast[e].op # "user") =>
         Machine.regs[currentRegisterCt] = Meaning(Machine.mem)[e]

\* Where the avr-gcc convention the comments of visit(ExprFUNCTION) describe
\* expects the i-th argument of call c: from r25 down, at even registers.
ArgumentRegister(c, i) ==
  LET A[k \in 0..i] == IF k = 0 THEN AfterArguments
                       ELSE A[k - 1] - ArgumentSpan(SizeOf(ast[c].kids[k]))
  IN A[i]

\* The expression under the ARG node of the i-th argument.
ArgumentOf(c, i) == ast[ast[c].kids[i]].kids[1]

\* The second byte of a leaf.
HighByte(mem, e) == IF e \in Vars THEN mem[<<e, 1>>] ELSE <<"lit", Literal(e), 1>>
IsLeaf(e) == e \in Vars \/ ast[e].kind = "CONSTANT"

\* The argument is a value the generator can compute.
Passable(e) == Sum[e] /\ HasType(e) /\ TagOf(e) \in Byte1 \cup Byte2

Arrives(c, i) ==
  LET e == ArgumentOf(c, i)
      r == ArgumentRegister(c, i)
  IN /\ Machine.regs[r] = Meaning(Machine.mem)[e]
     /\ TagOf(e) \in Byte2 /\ IsLeaf(e) => Machine.regs[r + 1] = HighByte(Machine.mem, e)

\* Every argument is still where the callee expects it when the call is
\* executed, provided the code of the later arguments stays within the two
\* registers below the earlier ones.
ArgumentsArrive ==
  Doing("call") /\ ast[Current].op # "user" /\ StraightLine =>
    LET n == Len(ast[Current].kids)
        Fits(i) == Passable(ArgumentOf(Current, i))
                     /\ (i > 1 => Span[ArgumentOf(Current, i)] <= 2)
    IN (\A i \in 1..n : Fits(i)) => \A i \in 1..n : Arrives(Current, i)

\* Where a left operand of any size leaves the cursor that was at r.
Above(r) == (r - 1)..(r + 4)

\* Whatever was visited in between, nested calls and failed operations
\* included, a statement stores or tests the register it started with.
StatementCursor ==
  Doing("store") \/ Doing("control") => currentRegisterCt = FirstRegister

\* While the right operand of an operation is visited, the cursor is at most the
\* size of the left operand away from where the operation began, whatever
\* operations and calls came in between: operations that are nested on the right
\* use up the registers one left operand at a time.  (visit(ExprLIST) puts the
\* cursor back to the first register, wherever it was.)
OperandsStack ==
  \A q \in DOMAIN todo :
    /\ todo[q].step = "combine"
    /\ \A p \in 1..(q - 1) : todo[p].step \in {"code", "pass", "increment"}
    => currentRegisterCt \in Above(todo[q].saved) \cup Above(FirstRegister)

\* The statements no other statement contains.
Written ==
  SelectSeq([n \in DOMAIN ast |-> n],
            LAMBDA n : IsStm(n) /\ \A m \in DOMAIN ast : n \notin Range(ast[m].kids))

Built(kinds) == \E n \in DOMAIN ast : ast[n].kind \in kinds

\* What a run of a program shows: the tests it makes and the variables it stores.
Then(first, second) == {s \o t : s \in first, t \in second}
Mark(s) == IF TagOf(ast[s].kids[1]) \in Storable THEN <<<<"sts", ast[s].kids[1]>>>>
           ELSE <<<<"bad", "AFF">>>>

StructuredRuns ==
  LET T[n \in DOMAIN ast] ==
        LET k == ast[n].kids
        IN CASE ast[n].kind = "AFF" -> {Mark(n)}
             [] ast[n].kind = "SEQ" ->
                  FoldLeft(LAMBDA acc, s : Then(acc, T[s]), {<<>>}, k)
             [] ast[n].kind = "IF" ->
                  Then({<<<<"tst">>>>}, T[k[2]] \cup (IF ast[n].op = "ELSE" THEN T[k[3]] ELSE {<<>>}))
             [] OTHER -> {<<>>}
  IN FoldLeft(LAMBDA acc, s : Then(acc, T[s]), {<<>>}, Written)

Targets(label) == {k \in DOMAIN text : text[k] = <<"label", label>>}

\* The same, read off the emitted code: both outcomes of each branch.
EmittedRuns ==
  LET P[k \in 1..(Len(text) + 1)] ==
        IF k > Len(text) THEN {<<>>}
        ELSE LET i == text[k]
                 next == P[k + 1]
                 jump == IF i[1] \in {"breq", "rjmp"} THEN UNION {P[t] : t \in Targets(i[2])} ELSE {}
             IN CASE i[1] = "breq" -> next \cup jump
                  [] i[1] = "rjmp" -> jump
                  [] i[1] = "tst"  -> Then({<<<<"tst">>>>}, next)
                  [] i[1] = "sts" /\ i[3] = 0 -> Then({<<<<"sts", i[2]>>>>}, next)
                  [] i = Bad("AFF") -> Then({<<i>>}, next)
                  [] OTHER -> next
  IN P[1]

\* The emitted branches realise the structure of the source: the runs of the
\* code of if, if ... else, blocks and assignments are the runs of the AST.
\* (Labels are made of Stm.id by visit(StmIF), under nesting and in sequence.)
BranchesStructured ==
  phase = "done" /\ ~Built({"WHILE", "DO", "FOREACH", "LOOP"}) =>
    EmittedRuns = StructuredRuns

\* Every jump of if, else and loop has exactly one target in the whole output,
\* also when whiles, dos and foreaches are around it or inside of it.
JumpsResolved ==
  phase = "done" =>
    \A k \in DOMAIN text :
      text[k][1] \in {"breq", "rjmp", "jmp"} =>
        \E target \in DOMAIN text : Targets(text[k][2]) = {target}

\* Generation ends: the code is printed or the compiler gave up.  (The AST has
\* no cycle although its objects are shared, and each visit descends.)
GenerationEnds == phase = "generating" ~> phase \in {"done", "aborted"}

(***************************************************************************)
(* What comments of the source say and the code does not do.               *)
(***************************************************************************)
\* Parser.y:355-357 reserves the place of a variable in memory: a store never
\* leaves it.  (A cast of a variable used as an argument widens its type after
\* the .comm was written.)
StoresFit ==
  \A k \in DOMAIN text :
    text[k][1] = "sts" => \E size \in reserved[text[k][2]] : text[k][3] < size

\* CodeGeneratorVisitor.java:448-450: the result of the condition, zero if
\* false, is in the register that is tested.
ConditionInRegister ==
  Doing("control") /\ StraightLine =>
    LET c == Kid(1)
    IN c \notin Vars /\ ast[c].kind = "BINARY" /\ Sum[ast[c].kids[1]] /\ Sum[ast[c].kids[2]] =>
         Machine.regs[currentRegisterCt] = Meaning(Machine.mem)[c]

\* CodeGeneratorVisitor.java:59-62: an argument of one or two bytes is passed in
\* its own pair of registers, so all the arguments arrive.
AllArgumentsArrive ==
  /\ Doing("call") /\ ast[Current].op # "user" /\ StraightLine
  /\ \A i \in DOMAIN ast[Current].kids :
       Passable(ArgumentOf(Current, i)) /\ IsLeaf(ArgumentOf(Current, i))
  => \A i \in DOMAIN ast[Current].kids : Arrives(Current, i)

\* DataGeneratorVisitor.java:77: a string constant is reserved in FLASH, so the
\* code never takes the address of one that is not.
StringsDeclared ==
  phase = "done" =>
    \A k \in DOMAIN text :
      text[k][1] = "ldiaddr" => <<"Cst", text[k][3]>> \in Range(flash)
===============================================================================
