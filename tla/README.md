# A specification of arduinoCode: the compiler and its runtime

`src/` holds a compiler from a small imperative language, arduinoCode, to AVR
assembler for the ATmega328p, and the C runtime its output is linked with: the
serial port of `uart.c` and the pin functions of the Arduino core. This directory
specifies both in TLA+, checks the specifications with TLC on small instances,
and proves their most important properties with TLAPS for every instance.

- [The system](#the-system): its parts, their state, how they interact, what is hard
- [The modules](#the-modules): which module models which part, and how
- [The runs](#the-runs): what each shows, its bounds, the fairness
- [Where code and comments disagree](#where-code-and-comments-disagree)
- [The proofs](#the-proofs)
- [What is not modelled](#what-is-not-modelled), [Plan](#plan)

`J` below stands for `src/src/fr/ubordeaux/arduinoCode`, `W` for
`src/lib/ArduinoCore-avr-master/cores/arduino`.

## The system

| part | source | state it keeps | operations |
|---|---|---|---|
| lexer | `src/lexer/Lexer.jflex`, `J/Token.java` | position in the source | `yylex` |
| parser | `src/parser/Parser.y` | stack of semantic values; `varEnvironment`, `functionEnvironment`, `typeEnvironment` (`J/environment`) | one semantic action per production |
| AST | `J/ast` | objects that refer to each other; `Expr.type`, `Expr.register`, `Stm.id` | constructors, `accept`, `setType`, `cast`, `setRegister` |
| types | `J/type` | mutable `TypeTree` objects: a tag | constructors, `cast`, `attestBoolean`, `attestEquivalentTo` |
| `CheckTypeVisitor` | `J/visitor` | none of its own: it changes the AST | `visit` per statement |
| `DataGeneratorVisitor` | `J/visitor` | the texts of the FLASH and SRAM sections | `visit`, `generateCode` |
| `CodeGeneratorVisitor` | `J/visitor` | the text of the code, the cursor `currentRegisterCt` | `visit`, `generateCode` |
| UART runtime | `src/lib/avr-uart-master/uart.c`, USART0 | two ring buffers, the last receive status, UCSR0B | `uart0_init/getc/peek/putc/puts/available/flush`, two interrupt handlers |
| Arduino core | `W/wiring_digital.c`, `W/wiring_analog.c`, `pins_arduino.h` | ports, PWM channels, ADC registers, the I bit | `pinMode`, `digitalWrite`, `digitalRead`, `analogReference`, `analogRead`, `analogWrite` |
| C main program | `src/src/arduinoCodeMain.c` | where the start-up is | initialise the UART, `sei`, `main_program`, return |

**How they interact.** The parser is bottom-up and everything hangs on it. A
variable declaration calls `DataGeneratorVisitor` at once, which writes the
`.comm` line with the size of the type the variable has *then*. A production for
an expression or a statement builds AST objects, and those for the board's
functions also `cast()` the types of their arguments in place. Each time a
statement enters a list, `CheckTypeVisitor` walks it, throws if a condition is
not boolean, and gives the right side of an assignment the type object of its
left side. When the whole source is parsed, the production `program` hands each
statement to `DataGeneratorVisitor` and then to `CodeGeneratorVisitor`, and
prints the sections if neither threw. What it prints is `main_program`, which
`main` of `arduinoCodeMain.c` calls once after it has initialised the UART and
enabled the interrupts. `main_program` shares the ring buffers and UCSR0B with the
two handlers of USART0, and the I bit with the pin functions, which turn the
interrupts off for their read-modify-writes of a port.

**What is hard.** The compiler is one sequential thread; what makes it hard is
*sharing*. A type is a mutable object; an arithmetic operator takes the type
object of its left operand; the variables of one declaration have one type
object; a variable is one `ExprVAR` wherever it occurs, with one `register`
field. So an operation on one expression may change another that was checked,
measured or laid out long before. In the code generator, the one register
cursor is read and moved by visits nested in each other, and labels are built
by concatenation.

The runtime is concurrent: a handler may run between any two accesses of the main
program. `getc` leaves its atomic block before it takes the byte; `putc` waits for
a tail only the handler moves, and writes UCSR0B with a load and a store between
which the handler, which clears a bit of it, may run; the pin functions hold the
handlers off, again and again. And `main` leaves out a call: `init()` of
`wiring.c`, which would clock the timers and enable the converter.

**What makes each part correct.**

| part | what must hold | property |
|---|---|---|
| parser, AST | references are to objects that exist | `TypeOK` |
| types | a cast changes nothing but its argument, among what is not a variable | `OwnedTypes` |
| types | a variable's type is that of a declaration | `VarTypesDeclared` |
| `CheckTypeVisitor` | what was checked stays checked | `ConditionsStayBoolean` |
| `CheckTypeVisitor` | every statement of a list is checked | `ListsChecked` |
| visitors | every visit ends | `CheckEnds`, `GenerationEnds` |
| code generator | `v = e` stores `e` | `AssignmentsCompute` |
| code generator | arguments arrive where the callee expects them | `ArgumentsArrive` |
| code generator | visits are of objects that exist, and none goes on after an exception | `GenTypeOK` |
| code generator | visits hand the cursor back; operands take registers side by side | `StatementCursor`, `OperandsStack` |
| code generator | branches realise the structure of the source | `BranchesStructured`, `JumpsResolved` |
| UART | two first in, first out queues: no byte lost, repeated, changed or overtaken, but what finds the receive queue full | `ImplementsSerialPort`, `BytesInOrder`, `AvailableKept` |
| UART | no wakeup of the transmitter is lost, `putc` returns, what was put is sent | `HandlersArmed`, `CallsReturn`, `EverythingSent` |
| Arduino core | each pin has a state of its own | `ImplementsPins`, `NoGlitch` |
| Arduino core | the interrupts come back, and the serial port runs as if it were alone | `InterruptsRestored`, `KeepsSerialPort`, `BoardEverythingSent` |

`PROJECT.json` lists the hazards behind these properties, each at its line.

## The modules

| module | models | extends |
|---|---|---|
| `FrontEnd` | the semantic actions of `Parser.y`, the AST and type objects, `CheckTypeVisitor` | |
| `CodeGenerator` | the production `program`, `DataGeneratorVisitor`, `CodeGeneratorVisitor`, and an AVR machine for the properties | `FrontEnd` |
| `SerialPort` | what the serial port promises: two bounded queues | |
| `Uart` | USART0 of `uart.c`, its two handlers, `main`, and the hardware at the other end; implements `SerialPort` | |
| `Pins` | what the pin functions promise: a mode, a level and a wave per pin | |
| `Wiring` | the pin functions on ports, masks and timers, composed with `Uart` on one processor; implements `Pins` | `Uart` |
| `FrontEnd_proofs`, `FrontEndChecks_proofs` | type correctness of `FrontEnd`, `VarTypesDeclared`; `OwnedTypes`, `ConditionsStayBoolean`, `ListsChecked` | `FrontEnd` |
| `CodeGenerator_proofs` | `GenTypeOK`, `StatementCursor`, `OperandsStack`; that what is generated was checked | `CodeGenerator` |
| `CodeGeneratorJumps_proofs`, `CodeGeneratorValues_proofs`, `CodeGeneratorArguments_proofs` | `JumpsResolved`; `AssignmentsCompute`; `ArgumentsArrive` | `CodeGenerator` |
| `Uart_proofs` | the invariants of `Uart`; that it implements `SerialPort` | `Uart` |
| `Wiring_proofs` | the invariants of `Wiring`, `NoGlitch`; that it implements `Pins` and keeps the serial port | `Wiring` |
| `MCFrontEnd`, `MCCodeGenerator`, `MCUart`, `MCWiring` | instances for TLC | |

### FrontEnd

One action is one reduction: its guard asks for the values of the right-hand
side on top of `stack`, and it replaces them by the value of the left-hand side.
The tokens are not modelled: *any* production may be reduced whenever its values
are there, so the behaviours are the parses of all sources written with the
productions of `Language`.

| TLA+ | code |
|---|---|
| `cells` | the `TypeTree` objects; a reference is an index, 0 is null. Of a type only the tag is kept |
| `cells[c].origin` | history: built by a declaration, by `%code init`, or by an expression |
| `varEnvironment`, `varType` | `varEnvironment`, and the field `type` of each variable's one `ExprVAR` |
| `reserved` | the sizes of the `.comm` lines of a variable |
| `ast` | AST objects in the order of their creation; a variable stands for its `ExprVAR` |
| `stack` | bison's semantic values, the top first |
| `pending` | the call stack of the running `CheckTypeVisitor` |
| `passed` | history: the conditionals whose `attestBoolean()` returned |
| `program` | the list between `begin` and `end` |

`ConstantExpression`, `AliasBinary`, `Comparison`, ... `OneArgProcedure`,
`Assignment`, ... are the productions; `VarDefinition` ... `End` the
definitions and the program; `CheckAFF`, `CheckCondition`,
`CheckConditionFails`, `CheckInside`, `CheckNothing` the visits. Every
exception, `YYABORT` and syntax error is `Abort`: the compiler drops all it
built and prints nothing. A call whose argument has no type (`x[i]`, a user
function) aborts as the code does, with a null pointer. `peek` and `flush` can
never be compiled: `%code init` registers them under another name.

### CodeGenerator

`todo` is the Java call stack of the visitors. Each `visit()` is cut where it
calls `accept()`: `VisitBinary`, `BinaryRight`, `BinaryCombine` are the three
parts of `visit(ExprBinary)`, and so on. `currentRegisterCt` and `register` are
the fields of that name; `text` is the emitted code as a sequence of tuples;
`flash` the labels of the FLASH section. Text that the assembler rejects, and
comments that stand for code that is not implemented, are `<<"bad", what>>`.
What the module says is what the code does, wrong addresses included (the fourth
byte of a 32-bit load is read from offset 4, the case of a 16-bit constant runs
on into the next one).

Properties about the meaning of code need a machine: `Machine` executes
straight-line `text` from `PowerOn` with symbolic bytes, so "register 24 holds
`a + 1`" is an equation between terms, and `Meaning` is the term an expression
denotes. Only low bytes are compared, as `add` is emitted for the low byte alone.
The machine, the operands `avr-as` accepts and the call-used registers of
avr-gcc are not code of this repository and are marked external in the map.

`StructuredRuns` and `EmittedRuns` are two denotations of branching code, one of
the AST and one of the text, as sets of the tests and stores a run may show;
`BranchesStructured` says they are equal.

### Uart

The processor has one main program and handlers that do not nest (a handler runs
with the I bit clear). So a handler is one action, and the main program moves one
access to a shared variable or register at a time: `pc` says which comes next,
`tmp` and `ctl` are its copies. `uart0_putc` is `PutcHead`, `PutcWait`, `PutcStore`,
`PutcAdvance`, `PutcReadControl`, `PutcEnable`: UCSR0B is out of reach of `sbi`, so
`|=` is a load and a store. The bodies of `ATOMIC_BLOCK` are one step each, and
leave the interrupts on (`ATOMIC_FORCEON`). The turns of the waiting loop that
find no room change nothing; `PutcWait` is the turn that ends it.

| TLA+ | code or hardware |
|---|---|
| `TxBuf`, `TxHead`, `TxTail`, `RxBuf`, `RxHead`, `RxTail`, `LastRxError` | the static variables of `uart.c` |
| `interrupts`, `ucsr0b` | the I bit of SREG; RXCIE0 and UDRIE0 of UCSR0B |
| `udr`, `fifo` | the byte the transmitter holds; the two frames the receiver holds |
| `data`, `high` | the two bytes of the last result of `getc` and `peek` |
| `puts`, `arrivals` | how much of `ToPut` and `OnLine` has been used: they bound a behaviour |
| `dropped`, `promised` | history: bytes that found the buffer full; what `available` counted and is not taken yet |

`Boot` is `main` up to the call of `main_program`; `Calls` are the calls a
compiled program may make, in any order; `Exit` its end, where avr-libc's `exit`
turns the interrupts off. `Shift` and `Arrive` are the line.

`SerialPort` has neither indices nor interrupts. `Port == INSTANCE SerialPort WITH
...` maps it: `toSend` and `received` are the `Contents` of the two rings, the
transmitter is `udr`, and the byte `getc` takes is taken when it moves the tail
(`taken` looks it up in the buffer until the next step has read it, where no
handler may have overwritten it: that is the point of the unused slot).

### Wiring

`BoardNext` puts the pin functions beside `Uart`: `Serial(Next)` is a step of the
serial port, and both share `pc`, `interrupts` and the processor. `ddr` and `out`
are DDRx and PORTx as sets of bits per port, `com` the channels connected to
their pins, `ocr` their duties; `PortOf`, `BitOf` and `Timers` are the tables of
`pins_arduino.h`. `pin`, `arg`, `val` are the arguments of the running call,
`after` where `pinMode` returns to (`analogWrite` calls it), `oldSREG` its copy of the I
bit. `pinMode` is `PinMode`, `ModeSave`, `ModeDirection`, `ModeLatch`, `Restore`;
`digitalWrite` is `DigitalWrite`, `WritePwm`, `WriteSave`, `WriteLatch`, `Restore`; and
so on. `Converter` is the ADC, which converts only if ADEN is set. Nothing sets it.

`Pins` has no ports, masks, timers or interrupts. `EachPin` maps it: a pin is an
output if its bit of DDRx is set, its level is its bit of PORTx, its wave is on if
its channel is connected. The two stores by which `pinMode` makes a pin an input
with or without a pull-up are one step of `Pins` (`LevelOf`): the interrupts are off
between them.

The serial port has a view of the board too: `Alone` is `Uart` with `portPc` for `pc`
and `portInterrupts` for the I bit, in which a call of a pin function is a pause of
the program with the interrupts on. `KeepsSerialPort` says that every behaviour of the
board, seen so, is one of `Uart` (its safety part: fairness is another matter when
the interrupts are turned off, and `BoardEverythingSent` is about that).

## The runs

All runs use `CHECK_DEADLOCK FALSE`: the compiler stops when it has printed or
given up, a parse may stop at a bound, and the board stops when `main` returns.

### The compiler

`MaxNodes` (AST objects), `MaxCells` (type objects, five of which are the
predefined ones), `MaxStack` (pending values) and `MaxArgs` (elements of a list
of expressions) bound a source; `Language` chooses its productions, so that each
run spends its states on one question. Two runs parse only (`FrontEnd`), three
compile (`CodeGenerator`).

| run | language | bounds: nodes, cells, stack, args | checks | states |
|---|---|---|---|---|
| `grammar` | one production of each class of expression, each kind of call, simple statements, blocks, loops | 4, 7, 2, 2 | `TypeOK`, `OwnedTypes`, `VarTypesDeclared` | 0.7 M |
| `sharing` | what shares or overwrites types; `if`, `switch`, lists and blocks | 6, 8, 3, 1 | `ConditionsStayBoolean`, `ListsChecked` | 1.7 M |
| `generation` | every visit of the generators: wide values, lists, strings, `++`, what is not implemented, every loop | 4, 7, 2, 2 | `GenTypeOK`, `StatementCursor`, `OperandsStack`, `CheckEnds`, `GenerationEnds` | 0.4 M |
| `straight` | sums, calls, assignments | 7, 8, 3, 1 | `AssignmentsCompute`, `ArgumentsArrive` | 0.8 M |
| `control` | `if`, `else`, blocks, `loop`, `while` | 5, 8, 5, 1 | `BranchesStructured`, `JumpsResolved`, `ListsChecked` | 0.8 M |

Why the bounds are enough for the question of each run:

- `grammar`: two pending values and four objects are what a cast that reaches
  a second value takes (two literals and a call); an assignment is what a
  variable changing its type takes.
- `sharing`: a comparison of variables, the conditional and its statement make
  three objects, three more hold a second comparison and the call that casts its
  type after the check, or a block and a list with the conditional at any place.
- `generation`: every statement with every kind of value, and one nested in another.
- `straight`: seven objects hold a three-operand sum assigned to a variable, or a
  two-argument call (`digitalWrite(e1, e2)`) with an operation in an argument.
- `control`: five objects hold `if` inside either branch of `if ... else` and two
  conditionals in sequence, which is where labels of different statements meet, and
  a conditional in a `loop` in a `loop`. Labels collide by concatenation (`.L1` + `1` and
  `.L11`) only with ten statements and more: there `JumpsResolved` rests on its theorem.

The source has one variable: the sharing in question is between several uses of
a variable, a variable and an expression, and expressions. A type may also pass
from one variable to another in `x = y`. With two variables and three objects the
properties of `grammar` hold as well (0.5 million states), and so does
`ConditionsStayBoolean` with five objects and seven cells (2.9 million);
`VarTypesDeclared` and `TypeOK` are proved for any number of them.

The conditions in the properties are there because without them they are false
of the code, and the next section shows the most important of these cases:
`AssignmentsCompute` asks that no variable is used again to the right of itself
in a sum (its one `register` would then be that of its last use) and that left operands
have a size (with one of size -1 the right operand is computed a register *below* it);
`ArgumentsArrive` that the code of a later argument writes no more than its own
two registers; `ConditionsStayBoolean` speaks of conditions that are not (typed
by) a variable; `JumpsResolved` of the jumps of `if`, `else` and `loop`, beside and
inside `while`, `do` and `foreach`, whose own labels the assembler rejects;
`BranchesStructured` of programs without loops (those that contain one are in the
run for the other two properties); `StatementCursor` of the statements that set the cursor themselves:
`x++` and the loops start where the last assignment left it.

### The board

| run | instance | checks | states |
|---|---|---|---|
| `uart` | buffers of 4, 4 bytes to put, 4 frames of which one has an error | `UartTypeOK`, `HandlersArmed`, `AvailableKept`, `BytesInOrder`, `ImplementsSerialPort`, `CallsReturn`, `EverythingSent` | 0.5 M |
| `board` | pins 3, 4 and 17 (17 analog too), values 0 and 300, one byte to put | `WiringTypeOK`, `InterruptsRestored`, `ImplementsPins`, `NoGlitch`, `KeepsSerialPort`, `BoardEverythingSent` | 0.5 M |

`uart`: four bytes and four frames fill a buffer of four (it holds three) and one
more has to wait or is dropped, and both indices wrap. All bytes are different, so
that a lost, repeated or overtaken one is seen. The real buffers have 128 slots;
indices are compared for equality only, and the theorems below hold for any size.

`board`: 3 and 4 are two bits of one port, 3 and 17 the same bit of two, 3 alone
is on a timer, of 8 bits, which 300 does not fit; 4 and 17 have none, so that
`analogWrite` rounds. The serial port sends one byte from a buffer of two (it holds
one) and receives nothing: what `board` adds to `uart` is that handlers are held
off by pin functions and interrupted calls resume.

### Fairness

- `WF(Check)` in `FrontEnd`, `WF(Generate)` in `CodeGenerator`: a visit, once called,
  is a sequence of Java statements of one thread with nothing to wait for, so it
  goes on. Nothing is assumed about parsing: a source may end anywhere. `CheckEnds`
  and `GenerationEnds` then say that each visit goes on to parts of what it visits: the
  AST is acyclic by construction, so that only a visitor could make them fail.
- `WF(InCall)` in `Uart`: the ATmega executes at least one instruction of the main
  program after each handler, so a call goes on. `WF` of the two handlers: a pending
  interrupt is taken while they are on. `WF(Shift)`: the transmitter has a clock.
  Nothing is assumed about the program (which calls it makes, whether it ends) nor
  about the line (whether frames arrive).
- In `Wiring` the handlers have `SF`: a pin function turns the interrupts off again
  and again, so a handler is never enabled for good; but a pending interrupt is
  taken one instruction after they come back. `WF` of the converter only if it is
  enabled.

### Mutants

Beside the actions stand the mutants named in `PROJECT.json`:
operators that change one definition as a plausible slip would (an argument span
without rounding, a cursor not restored, a label made of the wrong identifier,
an interned literal type, a forgotten check, `=` for `|=`, a byte stored at the wrong
index, `cli()` before the copy of SREG, the bit of another timer channel, a visit that
goes on after an exception or does not go into a loop). With the mutant in place of the
definition, TLC finds the property violated.

## Where code and comments disagree

Five runs expect a violation. Each checks what a comment of the source says.

| run | the comment | what the code does |
|---|---|---|
| `widening` | `Parser.y:355-357`: a declaration reserves the place of the variable in memory | `delay_ms(a)` casts the type of a one-byte `a` to `UINT16_T` after `.comm a,1` was written; the next assignment to `a` stores two bytes |
| `comparing` | `CodeGeneratorVisitor.java:448-450`: the result of the condition is in the register, zero if false | `cp` leaves no result in a register; `tst` then tests the left operand |
| `widearg` | `CodeGeneratorVisitor.java:60`: an argument of one or two bytes has its pair of registers | the missing `break` at line 364 loads four registers and overwrites the previous argument |
| `printing` | `DataGeneratorVisitor.java:77`: a string constant is reserved in FLASH | the arguments of a call are never visited, so the string of `puts("...")` is not |
| `analog` | `wiring_analog.c:80`: "ADSC is cleared when the conversion finishes" | `main` never calls `init()`, which sets ADEN (`wiring.c:242`: "this needs to be called before setup() or some functions won't work there"): no conversion takes place, and `analogRead` returns an ADC register nothing was converted into, if its loop ends at all |

Other departures are modelled as they are, with no comment of the source against
them: the statements governed by `if`, `while`, `do` and `foreach` are not
checked; an indexed element and a user call have no type, so any use that needs
one gives up; `add` adds low bytes only; only `+` and `==` are implemented; the
operator of a compound assignment is ignored; a `do ... while` computes its
condition once; the result of a call is read from `r24` only because the cursor
happens to be there. In the runtime: the error bits `getc` returns are where
UCSR0A has them, so an overrun reads as `UART_FRAME_ERROR` of `uart.h:198`; they are
those of the last byte that arrived, not of the byte returned; bytes still in the
transmit buffer when `main_program` returns are never sent; `analogWrite` connects
the wave before it sets its duty.

## The proofs

The theorems hold for every value of the constants, from these assumptions, which
TLC evaluates on every run: `VarsAssumption`, that no variable is an integer (a
variable and the index of an AST object are both references), and
`BoundAssumption`, that bounds are natural numbers, for the compiler;
`SizesAssumption` (a buffer has at least two slots), `ByteAssumption` and
`WorkAssumption` (bytes and frames are such) for `Uart`; for `Wiring` also
`PinsAssumption`, that pins are among the 20 of the tables, and
`ValuesAssumption`, that values have 16 bits.

**`FrontEnd_proofs!TypeCorrect == Spec => []TypeOK`.** `TypeOK` says that the
values of `stack`, the children and the types in `ast`, the types of variables
and the statements in `pending`, `passed` and `program` are references to objects
that exist. It is not inductive: nothing in it says that the value of a pending
*statement* is an object and not a variable, which `FirstOfList` needs to put it
in `pending`, nor that an assignment has a second child, nor that the predefined
types are there. `TypeInv == TypeOK /\ Shape` adds that. The argument: the heap
and the AST only grow (`NodeSetMonotonic`, `ItemSetMonotonic`); a reduction
takes its values from the stack (`HeldValue`, `ListedValues`) and replaces them
on top of it (`ReducedStack`); and whatever creates well-typed objects and
reduces to one of them preserves the invariant (`BuildTypeInv`, `ExprTypeInv`,
`StmTypeInv`, `ListTypeInv`). Then there is one step per production and visit.
`InitTypeInv`, `NextTypeInv` and PTL give the theorem.

**`FrontEnd_proofs!VariablesKeepDeclaredTypes == Spec => []VarTypesDeclared`.**
A variable's type changes in `VarDefinition`, where it is a new declared type,
and in `CheckAFF`, where the right side takes the type of the left side. So the
left side must have a declared type or none: it is a variable or an indexed
element, and an indexed element gets its type from assignments too. `DeclInv`
says just that: variables and indexed elements (`ExprGET`) have declared types or
none, and the left side of every `StmAFF` is one of the two. It is inductive
relative to `TypeInv`: `Growth...` lemmas cover the productions, which only add
objects and never change an origin, `CheckDeclInv` the visits.

**`FrontEndChecks_proofs`: `FreshTypesOwned`, `PassedConditionsStay`, `NothingUnchecked`.**
`StepKinds` sorts the steps of the front end, once for the three: a reduction
(`Reduced(k)`: it replaces `k` values by one, casts types of those `k` only, adds
objects, and gives the new expression a new type, the type of one of the `k`, or that of a
predefined function), a statement that enters a list and is handed to
`CheckTypeVisitor` (`Enters(k)`), a step that only re-points types to those of left
sides (`Retyped`), and the end of the parse. Then:

- `OwnedTypes` needs only `Predefined` beside it (the types of predefined functions
  are not fresh). A reduction exposes a fresh type either because it has just
  allocated it or because it consumed the one value that had it. A type that
  `CheckAFF` hands on is that of a left side, so by `DeclInv` not fresh.
- `ConditionsStayBoolean` has the inductive invariant `CondInv`. A condition left the
  stack when its statement was built, so by `OwnedTypes` no pending value has its
  fresh type (`ConditionsOwned`), and casts reach only types of pending values.
  That this must be said of every condition and not only of those that have passed is
  the strengthening: a statement may wait for its list while others are reduced.
- `ListsChecked` has `ListInv`: there is a set of statements the visitor has been
  `Through`, which with `pending` holds every statement of a list and the body of every
  loop of the set, and whose conditionals have passed. That it is *some* set
  makes the invariant one about loops in loops of any depth without an induction: a
  visit adds the statement it ends, and nothing has to be known of those inside.

**`CodeGenerator_proofs`: `GeneratorTypeCorrect`, `StatementsKeepTheCursor`,
`OperandsStackUp`, `GeneratedWasChecked`.** The generator is proved together with the front end it
continues (`CompilerSpec`); the inductive invariant `CompilerInv` has four parts:
`TypeInv` and `DeclInv` from above, `GrammarInv` and `WalkInv`.
`GrammarInv` is what the casts and array accesses of the visitors take for
granted: the operands of an operation are expressions, and a node has the children
its `visit()` reads. `WalkInv` is about the visits under way. Neither of the two
properties of the cursor is inductive: when a store is at the head of `todo`, the
cursor is right because of what the visit before it did, which was right because of
the one before. `Orderly` says it of the whole stack of visits: before a visit that
awaits the cursor come only parts of an expression (`ExprTask`), and they give it back
(`Returns`): the last of them that restores a cursor (`right`, `combine`, `call`) saved one in
the window the waiting visit expects, and those after it do not move it (`Quiet`). The
window is the first register for a statement; for an operation, its saved cursor
or the first register, as `visit(ExprLIST)` resets the cursor wherever it was, plus the size of
the left operand while the right one is visited. `OrderlyStep` says that a visit may be
replaced by visits that give back what it would have (`Relays`); `WalkReturns`, `WalkCalls`
and `WalkInTurn` are its three uses, by visits that return, that call `accept()` once
and go on, and that visit their children in turn. Each action is then one of the three.

Stating `GenTypeOK` for all bounds corrected it. It used to give the cursor a lower bound that
holds on the small instances only: a call of a predefined function has a type of size -1,
so a sum of calls moves the cursor *down* one register per level, and seven arguments of
four bytes take it below zero. The code has no bound in either direction; what it does
keep to is `OperandsStack`, per operation.

`GeneratedWasChecked` carries the checks of the front end over to the whole compiler, where
they matter: `CheckedInv` is `OwnedInv`, `CondInv` and `ListInv` with `VisitorsInTurn`, that
`CheckTypeVisitor` has returned before the generators start. A step of the generators keeps
it (`GenerateKeepsChecks`) because it leaves the AST, the types and `passed` alone and only takes
statements off the program. So every conditional the generators reach has passed the
check, and no cast made since has taken its condition's boolean type away, unless the
condition is a variable or has the type of one, as in the property.

**`CodeGeneratorJumps_proofs!JumpsHaveOneTarget == CompilerSpec => []JumpsResolved`.** A label is
made of the identifier of a statement, so each jump has one target if each statement
is visited once and no two have an identifier in common. The inductive invariant says both,
on top of `CompilerInv`:

- `TreeInv`: the AST of statements is a forest. A node has an older node or a variable for
  each child (`KidsOlder`), a statement is the child of one node once (`OneParent`), and what
  waits on the stack or in the program is the child of none (`ValuesLoose`, `ProgramLoose`).
  A production takes its values off the stack, so what it gives a parent had none.
- `OnceInv`, for a set `F` of statements not visited yet: those of the program, those that
  visits under way have still to visit (`Due`), disjoint for different visits, and all below
  them. A visit takes its statement out of `F`, and hands its children to one visit each.
- `LabelInv`: no label of a statement in `F` is in the text; a label that is there is there
  once (`Final`); each jump goes to a label that is there or that a visit under way will
  write (`Aimed`, `Owes`).

`StmId` counts statements by `Cardinality`, so that identifiers are seen to grow with the
statements (`FiniteSetTheorems`) with no induction on the AST. `Label1` concatenates a 1, so that
the one of statement 1 is the `Label` of statement 11; it is only the target of the jump back of
`while` and `do`, and its own label lacks its colon, so no jump of the property can land there.

**`CodeGeneratorValues_proofs!SumsAreComputed == CompilerSpec => []AssignmentsCompute`.** The
machine of the property runs the emitted text; `Ran(text)` is that fold. `RanOne` and `RanConcat` say
that it runs on from where it was, `RanLoads` that loads into the registers from `c` on change
none below. What a sum is and what it means are recursive functions over the AST;
`SumShape` and `MeaningMeans` give their equations, and the invariants speak of any
functions that satisfy these (`Shaped`, `Means`). They are, on top of the invariant above:

- `PlaceInv`: before a visit that waits for the value of a sum there are only visits of parts
  of this sum, whose variables are among its own, and those before an addition began above the
  register of its left operand. So no visit that runs meanwhile writes to that register, and none
  is of the object that waits in it, or of one that was built of it (`Apart`): the one `register` of a
  variable is overwritten only by a use of the variable, which the property excludes, and
  that of an operation by none, as the AST has no cycle and a node one parent.
- `HeldInv`: in straight-line code, the left operand of an addition under way is in the
  register where the addition began, which is the one it recorded, and an operand that was
  just visited is in the register under the cursor.
- `KindInv` and `ResultInv`: the right side of an assignment is a call only if the visit
  before the store was the one that wrote the call, and then the result is in `r24`.

`OtherStep` covers every step that is not of a sum: no visit waits for it. `ReturnPlace` and
`ReturnHeld` are the visits of a variable, a constant and an addition (`VarValued`,
`ConstantValued`, `CombineValued`), `CallPlace` and `CallHeld` the first two parts of an addition.

The attempt corrected the property, which did not ask that left operands have a size. A sum
has the type its left operand had when it was parsed; a variable of a type of size -1
can get another type by an assignment, and the sum is then typed like a number although the visit
of its left operand leaves the cursor one register lower. The right operand is computed there,
and its upper bytes may fall on the left one.

**`CodeGeneratorArguments_proofs!ArgumentsAreInPlace == CompilerSpec => []ArgumentsArrive`.**
`visit(ExprFUNCTION)` visits the arguments one after the other, each with the cursor at the registers
where the function expects it, and the ones that are there have to outlive the code of the later ones.
As before, the invariant speaks of any functions that satisfy the equations of `Sum`, `Span`,
`Meaning` and so on (`World`, `Lives`); `TheWorld` shows that theirs do. It has three parts:

- `ArgInv`, of the parser: a call of a function of the board has two arguments at most,
  and the second one has one or two bytes, because `cast()` gave it such a type, and it gives a type
  object no other when it is applied to it again (`TagsKept`); so the second one is two registers below the first.
- `ArgsInv`: before the visit that writes a call, some of the arguments still have to be visited, in
  order, one may be under way and the others have arrived (`Stage`, `Got`). The cursor is at
  the register of the one under way, or will be once its visits are over, and none of
  these writes beyond the two registers below the one that has arrived (`Under`, from `Span`).
- `Passing`: the hypotheses of the property, of the call.

`AlongStep` takes the invariant through a step that replaces a visit before the call, `AsideArgs` the
steps that cannot be of a part of an argument; `ReturnArgs` is a visit that returns
(`LeafLeaves`, `CombineLeaves`: it leaves the registers beyond its span alone, and both bytes of a leaf
where they should be), `CallerArgs` the parts of an addition, whose operands stay under the limit
of their operation, and `PassArgs` the `mov` or `movw` of an argument from where it was computed to
where it is expected, which is left out when these are the same.

The proof showed that `VisitCONSTANT` and `Pass` were written as a `CASE` of guards that overlap, which means
*any* of the cases that hold and not the first one, as the chain of tests in the code does; they are
now an `IF` before a `CASE` of guards that exclude each other.

**`Uart_proofs`: `IndicesInBuffers`, `HandlersStayArmed`, `AvailableStays`.** One
inductive invariant, `IInv`, gives the three. To the type invariant and the two
properties it adds what the main program relies on in the middle of a call:
`PutcHolds` (its copy of the index is the slot behind the head, that slot is not
the tail once the wait is over, and the copy of UCSR0B it is about to store has
both enable bits), `GetcHolds` (the slot `getc` is reading is the tail, and there
is data where it needs some) and `BeforeControl` (nothing is enabled or waiting
before `uart0_init` has finished). Without `PutcHolds`, `HandlersArmed` is not
inductive: the store could take an enable bit away. One lemma per group of
actions: `BootKeeps`, `CallKeeps`, `PutcKeeps`, `GetcKeeps`, `HandlerKeeps`.

**`Uart_proofs`: `UartImplementsSerialPort`, `BytesStayInOrder`.** The ring lemmas
`Enqueue` and `Dequeue` say that moving the head by one appends to `Contents` and
moving the tail by one takes its head, `WriteOutside` that a store in the unused slot
changes nothing. With `IInv` each step is then a step of `SerialPort` or a stutter:
`BootRefines`, `CallRefines`, `PutcRefines`, `GetcRefines`, `HandlerRefines`.
`PutcAdvance` is `Put`, `GetcTail` is `Take`, `TransmitInterrupt` is `Send`. The order of
the bytes is an invariant on top of that, with `Stored`: between its two stores,
`putc` has its byte in the slot behind the head.

**`Wiring_proofs`: `RegistersKeepTypes`, `InterruptsComeBack`, `PinsDoNotGlitch`.** The
inductive invariant is `BInv`. `CallHolds` is its heart: with the interrupts off the
copy of SREG has them on; a pin function works on one of the program's pins, which
is on a timer where it uses one; and when `pinMode` stores the pull-up, the pin is an
input already. The last conjunct gives `NoGlitch`, with `AssignSets`: setting or
clearing the bit of a pin changes the bit of no other, from the tables (`OwnBit`).
`SerialKeepsBoard` says that the serial port leaves all of this alone.

**`Wiring_proofs`: `WiringImplementsPins`, `SerialPortUndisturbed`, `PortSafeOnBoard`.**
The board has two abstract views, and both are proved step by step. For `Pins`, `BInv` lacks
what the program relies on between two steps of a call: `PinHolds` says that a pin being
written or read has no wave (`WritePwm` has taken it off and nothing else connects one), that
`analogWrite` connects outputs only, and that a duty is stored for a connected wave. With
it, one lemma per action: `DirectionStep`, `LatchStep`, `ConnectStep` and so on are steps of
`Pins`, and the rest stutter; `AssignMode`, `AssignLevel` and `WaveChanged` say that a store
to a port or a mask changes the entry of one pin. For `Uart`, the pin functions stutter
(`PinFunctionsPause`: the port sees the interrupts on from the first step to the last) and a
step of the port is a step of `Uart` there too, those of the handlers in the middle of a pin function
included (`HandlerSteps`). So what is proved of `Uart` carries over: `PortSafeOnBoard` takes
`HandlersArmed` and `AvailableKept` from `Uart_proofs`, instantiated for the view.

**Only model-checked.** `BranchesStructured`: it compares two
recursive functions, of the AST and of the text, whose correspondence is an induction
on nested statements in which the text of a branch is followed by that of others. It
speaks of the fragment `ControlCode` that its run uses, not of every `Language`:
`StructuredRuns` counts assignments and tests only (an increment stores too), and the
statements of a function's body are parsed and checked but never generated, so
that their runs are in no text. `CheckEnds`,
`GenerationEnds`, `CallsReturn`, `EverythingSent` and `BoardEverythingSent`: liveness
properties under fairness, which this prover does not do. No module declares a `RECURSIVE`
operator: recursion is by recursive functions and folds. The library's induction
theorems take a predicate as an operator, which this prover cannot instantiate; where the proofs need
induction (a fold or a recursive function exists), they use `Induction` of
`CodeGeneratorJumps_proofs`: a *set* that holds 0, and with a number the next one, holds all of
`Nat`, from `NatLessThanWellFounded` and `WFMin`.

## What is not modelled

- The lexer: a translation of characters to tokens without state of interest.
- `typeEnvironment`, the user's entries in `functionEnvironment`, and the bodies
  of functions after their check: the code writes and never reads them.
- `attestEquivalentTo`: nothing calls it (the call is commented out in
  `CheckTypeVisitor`).
- The wording of the output (sections, comments, traces), except what the
  assembler does with it.
- `init`, `millis`, `micros`, `delay` of `wiring.c`, `hooks.c` and `uart0_puts_p`:
  linked, and called by nobody. `delay_s` and `delay_ms`, which a program may call,
  are defined nowhere in the repository.
- Pins beyond the 20 of the tables (what the functions then read is up to the
  linker); that USART0 overrides pins 0 and 1; the other USARTs, processors and
  the 16-bit indices of `uart.c`, which the Makefile does not build.
- The effect of a wave on a pin: whether a channel is connected and its duty are
  modelled, what a timer without a clock puts out is not.
- Vendored code that is not linked (`bootloaders`, `firmwares`, `drivers`, the rest
  of the core and its libraries), build files, sample programs. This is nearly all
  of the repository by lines (some 145,000 of 148,000): the Makefile links five
  files of it, and of these the functions above are what a compiled program can reach.
  So the share of all lines the model stands for is small, while the program's own
  code and its runtime are covered but for the points of this list.

## Plan

Done: `FrontEnd`, `CodeGenerator`, `SerialPort`, `Uart`, `Pins`, `Wiring`, their runs, and the
theorems above: every action property and refinement the passing runs check is
proved, and every invariant but the one of `CodeGenerator` under *Only model-checked*. Left:
`BranchesStructured`, for statements of the fragment `ControlCode` of any depth.
