---------------------- MODULE CodeGeneratorValues_proofs ----------------------
(***************************************************************************)
(* Proofs about CodeGenerator: AssignmentsCompute holds for every set of   *)
(* variables, every language and every bound.                              *)
(*                                                                         *)
(* The operands of a sum wait in registers while the others are computed.  *)
(* They are still there because each visit writes from the cursor upwards  *)
(* and because no object but a variable is visited twice.                  *)
(***************************************************************************)
EXTENDS CodeGeneratorJumps_proofs

-------------------------------------------------------------------------------
(***************************************************************************)
(* The machine, one instruction at a time.                                 *)
(***************************************************************************)
\* The machine after the instructions tx.
Ran(tx) == FoldLeft(Execute, PowerOn, tx)

\* f[s] is the machine after the instructions of tx at the places s: what FoldLeft
\* is made of, for the places D.
Folds(tx, D, f) ==
  f = [s \in SUBSET D |->
         IF s = {} THEN PowerOn ELSE Execute(f[s \ {Max(s)}], tx[Max(s)])]

LEMMA MaxOfInterval ==
  ASSUME NEW n \in Nat, NEW s \in SUBSET (1..(n + 1)), n + 1 \in s
  PROVE  Max(s) = n + 1
<1>1. n + 1 \in s /\ \A y \in s : n + 1 >= y
  OBVIOUS
<1>2. \A x \in s : (\A y \in s : x >= y) => x = n + 1
  BY <1>1
<1> QED
  BY <1>1, <1>2 DEF Max

LEMMA FoldsExists ==
  ASSUME NEW tx
  PROVE  \A n \in Nat : \E f : Folds(tx, 1..n, f)
<1> DEFINE T == {n \in Nat : \E f : Folds(tx, 1..n, f)}
<1>1. 0 \in T
  <2> DEFINE f == [s \in SUBSET (1..0) |-> PowerOn]
  <2>1. \A s \in SUBSET (1..0) : s = {}
    OBVIOUS
  <2>2. Folds(tx, 1..0, f)
    BY <2>1 DEF Folds
  <2> QED
    BY <2>2
<1>2. ASSUME NEW n \in Nat, n \in T PROVE n + 1 \in T
  <2>1. PICK f : Folds(tx, 1..n, f)
    BY <1>2
  <2> DEFINE g == [s \in SUBSET (1..(n + 1)) |->
                     IF n + 1 \in s THEN Execute(f[s \ {n + 1}], tx[n + 1]) ELSE f[s]]
  <2>2. ASSUME NEW s \in SUBSET (1..(n + 1))
        PROVE  g[s] = IF s = {} THEN PowerOn ELSE Execute(g[s \ {Max(s)}], tx[Max(s)])
    <3>1. CASE n + 1 \in s
      <4>1. Max(s) = n + 1 /\ s # {}
        BY <3>1, MaxOfInterval
      <4>2. s \ {n + 1} \in SUBSET (1..(n + 1)) /\ n + 1 \notin s \ {n + 1}
        OBVIOUS
      <4>3. g[s \ {n + 1}] = f[s \ {n + 1}]
        BY <4>2
      <4> QED
        BY <3>1, <4>1, <4>3
    <3>2. CASE n + 1 \notin s
      <4>1. s \in SUBSET (1..n)
        BY <3>2
      <4>2. f[s] = IF s = {} THEN PowerOn ELSE Execute(f[s \ {Max(s)}], tx[Max(s)])
        BY <2>1, <4>1 DEF Folds
      <4>3. s \ {Max(s)} \in SUBSET (1..(n + 1)) /\ n + 1 \notin s \ {Max(s)}
        BY <3>2
      <4>4. g[s \ {Max(s)}] = f[s \ {Max(s)}] /\ g[s] = f[s]
        BY <3>2, <4>3
      <4> QED
        BY <4>2, <4>4
    <3> QED
      BY <3>1, <3>2
  <2>3. g = [s \in SUBSET (1..(n + 1)) |-> g[s]]
    OBVIOUS
  <2> HIDE DEF g
  <2>4. Folds(tx, 1..(n + 1), g)
    BY <2>2, <2>3 DEF Folds
  <2> QED
    BY <2>4
<1> HIDE DEF T
<1>3. Nat \subseteq T
  BY <1>1, <1>2, Induction
<1> QED
  BY <1>3 DEF T

LEMMA RanUnfolds ==
  ASSUME NEW tx, NEW n \in Nat, DOMAIN tx = 1..n
  PROVE  \E f : Folds(tx, 1..n, f) /\ Ran(tx) = f[1..n]
<1>0. \E f : Folds(tx, DOMAIN tx, f)
  BY FoldsExists
<1> DEFINE f == CHOOSE g : g = [s \in SUBSET (DOMAIN tx) |->
                  IF s = {} THEN PowerOn ELSE Execute(g[s \ {Max(s)}], tx[Max(s)])]
<1>1. \E g : g = [s \in SUBSET (DOMAIN tx) |->
                  IF s = {} THEN PowerOn ELSE Execute(g[s \ {Max(s)}], tx[Max(s)])]
  BY <1>0 DEF Folds
<1>2. f = [s \in SUBSET (DOMAIN tx) |->
                  IF s = {} THEN PowerOn ELSE Execute(f[s \ {Max(s)}], tx[Max(s)])]
  BY <1>1, Zenon
<1>3. Ran(tx) = f[DOMAIN tx]
  BY Zenon DEF Ran, FoldLeft, MapThenFoldSet
<1> HIDE DEF f
<1>4. Folds(tx, DOMAIN tx, f)
  BY <1>2 DEF Folds
<1> QED
  BY <1>3, <1>4

\* The machines g from m on, after each of the instructions lines.
Trace(g, m, lines) ==
  /\ g[0] = m
  /\ \A k \in DOMAIN lines : g[k] = Execute(g[k - 1], lines[k])

LEMMA RanTrace ==
  ASSUME NEW tx, NEW n \in Nat, DOMAIN tx = 1..n
  PROVE  \E g : Trace(g, PowerOn, tx) /\ Ran(tx) = g[n]
<1>1. PICK f : Folds(tx, 1..n, f) /\ Ran(tx) = f[1..n]
  BY RanUnfolds
<1> DEFINE g == [k \in 0..n |-> f[1..k]]
<1>2. g[0] = PowerOn
  <2>1. 1..0 = {} /\ {} \in SUBSET (1..n) /\ 0 \in 0..n
    OBVIOUS
  <2>2. f[{}] = PowerOn
    BY <1>1, <2>1 DEF Folds
  <2> QED
    BY <2>1, <2>2
<1>3. ASSUME NEW k \in 1..n PROVE g[k] = Execute(g[k - 1], tx[k])
  <2>1. /\ 1..k \in SUBSET (1..n) /\ 1..k # {} /\ (1..k) \ {k} = 1..(k - 1)
        /\ k \in 0..n /\ k - 1 \in 0..n
    <3>1. k \in Nat /\ k >= 1 /\ k <= n
      OBVIOUS
    <3>2. \A i : i \in (1..k) \ {k} <=> i \in 1..(k - 1)
      BY <3>1
    <3>3. (1..k) \ {k} = 1..(k - 1)
      BY <3>2
    <3>4. k \in 1..k /\ \A i \in 1..k : i \in 1..n
      BY <3>1
    <3> QED
      BY <3>1, <3>3, <3>4
  <2>2. Max(1..k) = k
    <3>1. k - 1 \in Nat /\ (k - 1) + 1 = k /\ k \in 1..k
      OBVIOUS
    <3> QED
      BY <3>1, MaxOfInterval
  <2>3. f[1..k] = Execute(f[(1..k) \ {Max(1..k)}], tx[Max(1..k)])
    BY <1>1, <2>1 DEF Folds
  <2>4. g[k] = f[1..k] /\ g[k - 1] = f[1..(k - 1)]
    BY <2>1
  <2> QED
    BY <2>1, <2>2, <2>3, <2>4
<1>4. g[n] = f[1..n]
  OBVIOUS
<1> HIDE DEF g
<1> QED
  BY <1>1, <1>2, <1>3, <1>4 DEF Trace

\* The machine after more instructions is the one from which they were run.
LEMMA RanConcat ==
  ASSUME NEW tx, IsText(tx), NEW lines, IsText(lines)
  PROVE  \E g : Trace(g, Ran(tx), lines) /\ Ran(tx \o lines) = g[Len(lines)]
<1> DEFINE n == Len(tx)
           m == Len(lines)
           us == tx \o lines
<1>1. n \in Nat /\ m \in Nat /\ DOMAIN tx = 1..n /\ DOMAIN lines = 1..m
  BY LenProperties DEF IsText
<1>2. /\ DOMAIN us = 1..(n + m)
      /\ \A i \in 1..(n + m) : us[i] = IF i <= n THEN tx[i] ELSE lines[i - n]
  <2>1. tx \in Seq(Range(tx) \cup Range(lines)) /\ lines \in Seq(Range(tx) \cup Range(lines))
    BY DEF IsText
  <2> QED
    BY <2>1, ConcatProperties, LenProperties
<1> HIDE DEF n, m, us
<1>3. PICK f : Trace(f, PowerOn, tx) /\ Ran(tx) = f[n]
  BY <1>1, RanTrace
<1>4. PICK h : Trace(h, PowerOn, us) /\ Ran(us) = h[n + m]
  BY <1>1, <1>2, RanTrace
<1> DEFINE T == {k \in Nat : k <= n => h[k] = f[k]}
<1>5. 0 \in T
  BY <1>3, <1>4 DEF Trace
<1>6. ASSUME NEW k \in Nat, k \in T PROVE k + 1 \in T
  <2>1. SUFFICES ASSUME k + 1 <= n PROVE h[k + 1] = f[k + 1]
    OBVIOUS
  <2>2. k + 1 \in 1..n /\ k + 1 \in 1..(n + m) /\ (k + 1) - 1 = k
    BY <1>1, <2>1
  <2>3. us[k + 1] = tx[k + 1]
    BY <1>2, <2>1, <2>2
  <2>4. f[k + 1] = Execute(f[(k + 1) - 1], tx[k + 1])
    BY <1>1, <1>3, <2>2 DEF Trace
  <2>5. h[k + 1] = Execute(h[(k + 1) - 1], us[k + 1])
    BY <1>2, <1>4, <2>2 DEF Trace
  <2>6. h[k] = f[k]
    BY <1>1, <1>6, <2>1
  <2> QED
    BY <2>2, <2>3, <2>4, <2>5, <2>6
<1>7. n \in T
  <2> HIDE DEF T
  <2>1. Nat \subseteq T
    BY <1>5, <1>6, Induction
  <2> QED
    BY <1>1, <2>1
<1>8. h[n] = Ran(tx)
  BY <1>1, <1>3, <1>7
<1> HIDE DEF T
<1> DEFINE g == [k \in 0..m |-> h[n + k]]
<1>9. g[0] = Ran(tx) /\ g[m] = Ran(us)
  BY <1>1, <1>4, <1>8
<1>10. ASSUME NEW k \in DOMAIN lines PROVE g[k] = Execute(g[k - 1], lines[k])
  <2>1. /\ k \in 1..m /\ k \in 0..m /\ k - 1 \in 0..m /\ n + k \in 1..(n + m) /\ ~(n + k <= n)
        /\ (n + k) - n = k /\ (n + k) - 1 = n + (k - 1)
    BY <1>1
  <2>2. us[n + k] = lines[k]
    BY <1>2, <2>1
  <2>3. h[n + k] = Execute(h[(n + k) - 1], us[n + k])
    BY <1>2, <1>4, <2>1 DEF Trace
  <2>4. g[k] = h[n + k] /\ g[k - 1] = h[n + (k - 1)]
    BY <2>1
  <2> QED
    BY <2>1, <2>2, <2>3, <2>4
<1> HIDE DEF g
<1>11. Trace(g, Ran(tx), lines)
  BY <1>9, <1>10 DEF Trace
<1> QED
  BY <1>9, <1>11 DEF us, m

-------------------------------------------------------------------------------
(***************************************************************************)
(* What an instruction changes.                                            *)
(***************************************************************************)
IsMachine(m) ==
  /\ m = [regs |-> m.regs, mem |-> m.mem]
  /\ m.regs = [r \in 0..35 |-> m.regs[r]]
  /\ m.mem = [b \in Vars \X (0..4) |-> m.mem[b]]

\* m with other registers, with other contents of the memory.
WithRegs(m, bank) == [regs |-> bank, mem |-> m.mem]
WithMem(m, M) == [regs |-> m.regs, mem |-> M]

LEMMA MachineRegs ==
  ASSUME NEW m, IsMachine(m), NEW bank, bank = [r \in 0..35 |-> bank[r]]
  PROVE  IsMachine(WithRegs(m, bank)) /\ WithRegs(m, bank).regs = bank /\ WithRegs(m, bank).mem = m.mem
BY DEF IsMachine, WithRegs

LEMMA MachineMem ==
  ASSUME NEW m, IsMachine(m), NEW M, M = [b \in Vars \X (0..4) |-> M[b]]
  PROVE  IsMachine(WithMem(m, M)) /\ WithMem(m, M).regs = m.regs /\ WithMem(m, M).mem = M
BY DEF IsMachine, WithMem

LEMMA RecordPut ==
  ASSUME NEW A, NEW B, NEW r, NEW val
  PROVE  [[regs |-> A, mem |-> B] EXCEPT !.regs[r] = val] = [regs |-> [A EXCEPT ![r] = val], mem |-> B]
OBVIOUS

\* An assignment to one register.
Put(m, r, val) == [m.regs EXCEPT ![r] = val]

LEMMA OneRegister ==
  ASSUME NEW m, IsMachine(m), NEW r, NEW val
  PROVE  /\ [m EXCEPT !.regs[r] = val] = WithRegs(m, Put(m, r, val))
         /\ Put(m, r, val) = [q \in 0..35 |-> Put(m, r, val)[q]]
         /\ r \in 0..35 => Put(m, r, val)[r] = val
         /\ \A q \in 0..35 : q # r => Put(m, r, val)[q] = m.regs[q]
<1>1. DOMAIN m.regs = 0..35
  BY DEF IsMachine
<1>2. [m EXCEPT !.regs[r] = val] = WithRegs(m, Put(m, r, val))
  <2> DEFINE A == m.regs
             B == m.mem
  <2>1. m = [regs |-> A, mem |-> B]
    BY DEF IsMachine
  <2>2. [[regs |-> A, mem |-> B] EXCEPT !.regs[r] = val] = [regs |-> [A EXCEPT ![r] = val], mem |-> B]
    BY RecordPut
  <2>3. [m EXCEPT !.regs[r] = val] = [regs |-> [A EXCEPT ![r] = val], mem |-> B]
    BY <2>1, <2>2, Zenon
  <2> QED
    BY <2>3 DEF WithRegs, Put
<1> QED
  BY <1>1, <1>2 DEF Put

\* The instructions that load a constant, a byte of a variable or an address, and what
\* they load.
Loads == {"lds", "ldi", "ldiaddr"}
Loaded(mem, i) ==
  IF i[1] = "lds" THEN mem[<<i[3], i[4]>>]
  ELSE IF i[1] = "ldi" THEN <<"lit", i[3], i[4]>>
  ELSE <<"address", i[3]>>

\* The machines m and n differ at most in these registers.
SameBut(m, n, W) ==
  IsMachine(n) /\ n.mem = m.mem /\ \A r \in (0..35) \ W : n.regs[r] = m.regs[r]

LEMMA ExecuteLoad ==
  ASSUME NEW m, IsMachine(m), NEW i, i[1] \in Loads, i[2] \in 0..35
  PROVE  /\ SameBut(m, Execute(m, i), {i[2]})
         /\ Execute(m, i).regs[i[2]] = Loaded(m.mem, i)
<1> DEFINE bank == Put(m, i[2], Loaded(m.mem, i))
<1>1. Execute(m, i) = [m EXCEPT !.regs[i[2]] = Loaded(m.mem, i)]
  BY DEF Execute, Loads, Loaded
<1>2. Execute(m, i) = WithRegs(m, bank)
  BY <1>1, OneRegister
<1>3. /\ bank = [q \in 0..35 |-> bank[q]] /\ bank[i[2]] = Loaded(m.mem, i)
      /\ \A q \in 0..35 : q # i[2] => bank[q] = m.regs[q]
  BY OneRegister
<1> HIDE DEF bank
<1>4. /\ IsMachine(Execute(m, i)) /\ Execute(m, i).regs = bank /\ Execute(m, i).mem = m.mem
  BY <1>2, <1>3, MachineRegs
<1> QED
  BY <1>3, <1>4 DEF SameBut

LEMMA ExecuteAdd ==
  ASSUME NEW m, IsMachine(m), NEW left \in 0..35, NEW right
  PROVE  /\ SameBut(m, Execute(m, <<"add", left, right>>), {left})
         /\ Execute(m, <<"add", left, right>>).regs[left]
              = <<"PLUS", m.regs[left], m.regs[right]>>
<1> DEFINE i == <<"add", left, right>>
           val == <<"PLUS", m.regs[left], m.regs[right]>>
           bank == Put(m, left, val)
<1>0. i[1] = "add" /\ i[2] = left /\ i[3] = right
  OBVIOUS
<1> HIDE DEF i
<1>1. Execute(m, i) = [m EXCEPT !.regs[left] = val]
  BY <1>0 DEF Execute
<1> HIDE DEF val
<1>2. Execute(m, i) = WithRegs(m, bank)
  BY <1>1, OneRegister
<1>3. bank = [q \in 0..35 |-> bank[q]] /\ bank[left] = val /\ \A q \in 0..35 : q # left => bank[q] = m.regs[q]
  BY OneRegister
<1> HIDE DEF bank
<1>4. IsMachine(Execute(m, i)) /\ Execute(m, i).regs = bank /\ Execute(m, i).mem = m.mem
  BY <1>2, <1>3, MachineRegs
<1> QED
  BY <1>3, <1>4 DEF SameBut, val, i

LEMMA ExecuteCall ==
  ASSUME NEW m, IsMachine(m), NEW op
  PROVE  Execute(m, <<"call", op>>).regs[FirstRegister] = <<"result", op>>
<1> DEFINE i == <<"call", op>>
           bank == [r \in DOMAIN m.regs |-> IF r = FirstRegister THEN <<"result", i[2]>>
                   ELSE IF r \in CallClobbers THEN <<"any">> ELSE m.regs[r]]
<1>0. i[1] = "call" /\ i[2] = op
  OBVIOUS
<1>1. DOMAIN m.regs = 0..35 /\ FirstRegister \in 0..35
  BY DEF IsMachine, FirstRegister
<1>2. bank[FirstRegister] = <<"result", op>>
  BY <1>0, <1>1
<1>3. Execute(m, i) = [m EXCEPT !.regs = bank]
  <2> HIDE DEF i
  <2> QED
    BY <1>0 DEF Execute
<1> HIDE DEF bank
<1>4. [m EXCEPT !.regs = bank].regs = bank
  BY DEF IsMachine
<1> QED
  BY <1>2, <1>3, <1>4

LEMMA RecordStore ==
  ASSUME NEW A, NEW B, NEW b, NEW val
  PROVE  [[regs |-> A, mem |-> B] EXCEPT !.mem[b] = val] = [regs |-> A, mem |-> [B EXCEPT ![b] = val]]
OBVIOUS

LEMMA RecordRegs ==
  ASSUME NEW A, NEW B, NEW C
  PROVE  [[regs |-> A, mem |-> B] EXCEPT !.regs = C] = [regs |-> C, mem |-> B]
OBVIOUS

LEMMA PutMachine ==
  ASSUME NEW m, IsMachine(m), NEW r, NEW val
  PROVE  IsMachine(WithRegs(m, Put(m, r, val)))
<1>1. Put(m, r, val) = [q \in 0..35 |-> Put(m, r, val)[q]]
  BY OneRegister
<1> QED
  BY <1>1, MachineRegs

\* An assignment to one byte of the memory.
Poke(m, b, val) == [m.mem EXCEPT ![b] = val]

LEMMA OneByte ==
  ASSUME NEW m, IsMachine(m), NEW b, NEW val
  PROVE  /\ [m EXCEPT !.mem[b] = val] = WithMem(m, Poke(m, b, val))
         /\ IsMachine(WithMem(m, Poke(m, b, val)))
<1> DEFINE A == m.regs
           B == m.mem
           cell == [B EXCEPT ![b] = val]
<1>1. m = [regs |-> A, mem |-> B]
  BY DEF IsMachine
<1>2. [[regs |-> A, mem |-> B] EXCEPT !.mem[b] = val] = [regs |-> A, mem |-> cell]
  BY RecordStore
<1>3. [m EXCEPT !.mem[b] = val] = [regs |-> A, mem |-> cell]
  <2> HIDE DEF A, B
  <2> QED
    BY <1>1, <1>2, Zenon
<1>4. cell = [x \in Vars \X (0..4) |-> cell[x]]
  <2>1. DOMAIN B = Vars \X (0..4)
    BY DEF IsMachine
  <2> HIDE DEF B
  <2> QED
    BY <2>1
<1>5. cell = Poke(m, b, val)
  BY DEF Poke
<1> HIDE DEF cell
<1>6. IsMachine(WithMem(m, cell))
  BY <1>4, MachineMem
<1> QED
  BY <1>3, <1>5, <1>6 DEF WithMem

LEMMA OneBank ==
  ASSUME NEW m, IsMachine(m), NEW bank, bank = [r \in 0..35 |-> bank[r]]
  PROVE  /\ [m EXCEPT !.regs = bank] = WithRegs(m, bank)
         /\ IsMachine(WithRegs(m, bank))
<1> DEFINE A == m.regs
           B == m.mem
<1>1. m = [regs |-> A, mem |-> B]
  BY DEF IsMachine
<1>2. [[regs |-> A, mem |-> B] EXCEPT !.regs = bank] = [regs |-> bank, mem |-> B]
  BY RecordRegs
<1>3. [m EXCEPT !.regs = bank] = [regs |-> bank, mem |-> B]
  <2> HIDE DEF A, B
  <2> QED
    BY <1>1, <1>2, Zenon
<1>4. IsMachine(WithRegs(m, bank))
  BY MachineRegs
<1> QED
  BY <1>3, <1>4 DEF WithRegs

\* Whatever is executed, the machine stays one.
LEMMA ExecuteMachine ==
  ASSUME NEW m, IsMachine(m), NEW i
  PROVE  IsMachine(Execute(m, i))
<1>1. CASE i[1] = "lds"
  <2> DEFINE val == m.mem[<<i[3], i[4]>>]
  <2>1. Execute(m, i) = [m EXCEPT !.regs[i[2]] = val]
    BY <1>1 DEF Execute
  <2> HIDE DEF val
  <2>2. Execute(m, i) = WithRegs(m, Put(m, i[2], val))
    BY <2>1, OneRegister
  <2> QED
    BY <2>2, PutMachine
<1>2. CASE i[1] = "ldi"
  <2> DEFINE val == <<"lit", i[3], i[4]>>
  <2>1. Execute(m, i) = [m EXCEPT !.regs[i[2]] = val]
    BY <1>2 DEF Execute
  <2> HIDE DEF val
  <2>2. Execute(m, i) = WithRegs(m, Put(m, i[2], val))
    BY <2>1, OneRegister
  <2> QED
    BY <2>2, PutMachine
<1>3. CASE i[1] = "ldiaddr"
  <2> DEFINE val == <<"address", i[3]>>
  <2>1. Execute(m, i) = [m EXCEPT !.regs[i[2]] = val]
    BY <1>3 DEF Execute
  <2> HIDE DEF val
  <2>2. Execute(m, i) = WithRegs(m, Put(m, i[2], val))
    BY <2>1, OneRegister
  <2> QED
    BY <2>2, PutMachine
<1>4. CASE i[1] = "mov"
  <2> DEFINE val == m.regs[i[3]]
  <2>1. Execute(m, i) = [m EXCEPT !.regs[i[2]] = val]
    BY <1>4 DEF Execute
  <2> HIDE DEF val
  <2>2. Execute(m, i) = WithRegs(m, Put(m, i[2], val))
    BY <2>1, OneRegister
  <2> QED
    BY <2>2, PutMachine
<1>5. CASE i[1] = "add"
  <2> DEFINE val == <<"PLUS", m.regs[i[2]], m.regs[i[3]]>>
  <2>1. Execute(m, i) = [m EXCEPT !.regs[i[2]] = val]
    BY <1>5 DEF Execute
  <2> HIDE DEF val
  <2>2. Execute(m, i) = WithRegs(m, Put(m, i[2], val))
    BY <2>1, OneRegister
  <2> QED
    BY <2>2, PutMachine
<1>6. CASE i[1] = "subi"
  <2> DEFINE val == <<"INC", m.regs[i[2]]>>
  <2>1. Execute(m, i) = [m EXCEPT !.regs[i[2]] = val]
    BY <1>6 DEF Execute
  <2> HIDE DEF val
  <2>2. Execute(m, i) = WithRegs(m, Put(m, i[2], val))
    BY <2>1, OneRegister
  <2> QED
    BY <2>2, PutMachine
<1>7. CASE i[1] = "movw"
  <2> DEFINE low == m.regs[i[3]]
             high == m.regs[i[3] + 1]
             n == WithRegs(m, Put(m, i[2], low))
  <2>1. Execute(m, i) = [m EXCEPT !.regs[i[2]] = low, !.regs[i[2] + 1] = high]
    BY <1>7 DEF Execute
  <2> HIDE DEF low, high
  <2>2. [m EXCEPT !.regs[i[2]] = low] = n
    BY OneRegister
  <2>3. [m EXCEPT !.regs[i[2]] = low, !.regs[i[2] + 1] = high] = [n EXCEPT !.regs[i[2] + 1] = high]
    BY <2>2
  <2>4. IsMachine(n)
    BY PutMachine
  <2> HIDE DEF n
  <2>5. Execute(m, i) = WithRegs(n, Put(n, i[2] + 1, high))
    BY <2>1, <2>3, <2>4, OneRegister
  <2> QED
    BY <2>4, <2>5, PutMachine
<1>8. CASE i[1] = "sts"
  <2> DEFINE val == m.regs[i[4]]
             b == <<i[2], i[3]>>
  <2>1. Execute(m, i) = [m EXCEPT !.mem[b] = val]
    BY <1>8 DEF Execute
  <2> HIDE DEF val, b
  <2>2. Execute(m, i) = WithMem(m, Poke(m, b, val))
    BY <2>1, OneByte
  <2> QED
    BY <2>2, OneByte
<1>9. CASE i[1] = "call"
  <2> DEFINE bank == [r \in DOMAIN m.regs |-> IF r = FirstRegister THEN <<"result", i[2]>>
                       ELSE IF r \in CallClobbers THEN <<"any">> ELSE m.regs[r]]
  <2>1. Execute(m, i) = [m EXCEPT !.regs = bank]
    BY <1>9 DEF Execute
  <2>2. bank = [r \in 0..35 |-> bank[r]]
    BY DEF IsMachine
  <2> HIDE DEF bank
  <2>3. Execute(m, i) = WithRegs(m, bank) /\ IsMachine(WithRegs(m, bank))
    BY <2>1, <2>2, OneBank
  <2> QED
    BY <2>3
<1>10. CASE i[1] \notin {"lds", "ldi", "ldiaddr", "mov", "movw", "add", "subi", "sts", "call"}
  BY <1>10 DEF Execute
<1> QED
  BY <1>1, <1>2, <1>3, <1>4, <1>5, <1>6, <1>7, <1>8, <1>9, <1>10

LEMMA PowerOnMachine == IsMachine(PowerOn)
BY DEF IsMachine, PowerOn

LEMMA TraceMachines ==
  ASSUME NEW m, IsMachine(m), NEW lines, NEW n \in Nat, DOMAIN lines = 1..n,
         NEW g, Trace(g, m, lines)
  PROVE  \A k \in 0..n : IsMachine(g[k])
<1> DEFINE T == {k \in Nat : k <= n => IsMachine(g[k])}
<1>1. 0 \in T
  BY DEF Trace
<1>2. ASSUME NEW k \in Nat, k \in T PROVE k + 1 \in T
  <2>1. SUFFICES ASSUME k + 1 <= n PROVE IsMachine(g[k + 1])
    OBVIOUS
  <2>2. k + 1 \in DOMAIN lines /\ (k + 1) - 1 = k /\ k <= n
    BY <2>1
  <2>3. g[k + 1] = Execute(g[(k + 1) - 1], lines[k + 1])
    BY <2>2 DEF Trace
  <2> QED
    BY <1>2, <2>2, <2>3, ExecuteMachine
<1> HIDE DEF T
<1>3. Nat \subseteq T
  BY <1>1, <1>2, Induction
<1> QED
  BY <1>3 DEF T

LEMMA RanMachine ==
  ASSUME NEW tx, IsText(tx)
  PROVE  IsMachine(Ran(tx))
<1>1. Len(tx) \in Nat /\ DOMAIN tx = 1..Len(tx)
  BY LenProperties DEF IsText
<1>2. PICK g : Trace(g, PowerOn, tx) /\ Ran(tx) = g[Len(tx)]
  BY <1>1, RanTrace
<1> QED
  BY <1>1, <1>2, TraceMachines, PowerOnMachine

-------------------------------------------------------------------------------
(***************************************************************************)
(* What the code of a leaf, of an addition and of a call computes.         *)
(***************************************************************************)
\* n is m but for the registers from c on.
Beyond(m, n, c) ==
  IsMachine(n) /\ n.mem = m.mem /\ \A r \in 0..35 : r < c => n.regs[r] = m.regs[r]

\* Instructions that load registers from c on, and val into c.
Loading(mem, lines, c, val) ==
  /\ \A k \in DOMAIN lines :
       /\ lines[k][1] \in Loads /\ lines[k][2] \in 0..35 /\ lines[k][2] >= c
       /\ lines[k][2] = c => Loaded(mem, lines[k]) = val
  /\ lines[1][2] = c

\* The machines g of the n instructions lines, from m on.
LoadRun(g, m, lines, n, c, val) ==
  /\ IsMachine(m) /\ n \in Nat /\ n # 0 /\ DOMAIN lines = 1..n /\ c \in Int
  /\ Loading(m.mem, lines, c, val) /\ Trace(g, m, lines)

LEMMA LoadsTrace ==
  ASSUME NEW g, NEW m, NEW lines, NEW n, NEW c, NEW val, LoadRun(g, m, lines, n, c, val)
  PROVE  Beyond(m, g[n], c) /\ g[n].regs[c] = val
<1>0. /\ IsMachine(m) /\ n \in Nat /\ n # 0 /\ DOMAIN lines = 1..n /\ c \in Int
      /\ Loading(m.mem, lines, c, val) /\ Trace(g, m, lines)
  BY DEF LoadRun
<1> DEFINE T == {k \in Nat : k <= n => Beyond(m, g[k], c) /\ (k # 0 => g[k].regs[c] = val)}
<1>1. 0 \in T
  BY <1>0 DEF Trace, Beyond
<1>2. ASSUME NEW k \in Nat, k \in T PROVE k + 1 \in T
  <2>1. SUFFICES ASSUME k + 1 <= n PROVE Beyond(m, g[k + 1], c) /\ g[k + 1].regs[c] = val
    OBVIOUS
  <2> DEFINE i == lines[k + 1]
  <2>2. k + 1 \in DOMAIN lines /\ (k + 1) - 1 = k /\ k <= n
    BY <1>0, <2>1
  <2>3. g[k + 1] = Execute(g[k], i)
    BY <1>0, <2>2 DEF Trace
  <2>4. Beyond(m, g[k], c) /\ (k # 0 => g[k].regs[c] = val)
    BY <1>2, <2>2
  <2>5. /\ i[1] \in Loads /\ i[2] \in 0..35 /\ i[2] >= c /\ (i[2] = c => Loaded(m.mem, i) = val)
        /\ k = 0 => i[2] = c
    <3>1. /\ i[1] \in Loads /\ i[2] \in 0..35 /\ i[2] >= c
          /\ i[2] = c => Loaded(m.mem, i) = val
      BY <1>0, <2>2 DEF Loading
    <3>2. k = 0 => k + 1 = 1
      OBVIOUS
    <3>3. lines[1][2] = c
      BY <1>0 DEF Loading
    <3>4. k = 0 => i[2] = c
      BY <3>2, <3>3
    <3> QED
      BY <3>1, <3>4
  <2> HIDE DEF i
  <2>6. IsMachine(g[k]) /\ g[k].mem = m.mem
    BY <2>4 DEF Beyond
  <2>7. SameBut(g[k], g[k + 1], {i[2]}) /\ g[k + 1].regs[i[2]] = Loaded(m.mem, i)
    BY <2>3, <2>5, <2>6, ExecuteLoad
  <2>8. Beyond(m, g[k + 1], c)
    <3>1. IsMachine(g[k + 1]) /\ g[k + 1].mem = m.mem
      BY <2>6, <2>7 DEF SameBut
    <3>2. ASSUME NEW r \in 0..35, r < c PROVE g[k + 1].regs[r] = m.regs[r]
      <4>1. r \in (0..35) \ {i[2]}
        BY <1>0, <2>5, <3>2
      <4>2. g[k + 1].regs[r] = g[k].regs[r]
        BY <2>7, <4>1 DEF SameBut
      <4>3. g[k].regs[r] = m.regs[r]
        BY <2>4, <3>2 DEF Beyond
      <4> QED
        BY <4>2, <4>3
    <3> QED
      BY <3>1, <3>2 DEF Beyond
  <2>9. c \in 0..35
    <3>1. 1 \in DOMAIN lines
      BY <1>0
    <3> QED
      BY <1>0, <3>1 DEF Loading
  <2>10. g[k + 1].regs[c] = val
    <3>1. CASE i[2] = c
      BY <2>5, <2>7, <3>1
    <3>2. CASE i[2] # c
      BY <2>4, <2>5, <2>7, <2>9, <3>2 DEF SameBut
    <3> QED
      BY <3>1, <3>2
  <2> QED
    BY <2>8, <2>10
<1> HIDE DEF T
<1>3. Nat \subseteq T
  BY <1>1, <1>2, Induction
<1>4. n \in T
  BY <1>0, <1>3
<1> QED
  BY <1>0, <1>4 DEF T

LEMMA RanLoads ==
  ASSUME NEW tx, IsText(tx), NEW lines, IsText(lines), Len(lines) # 0, NEW c \in Int, NEW val,
         Loading(Ran(tx).mem, lines, c, val)
  PROVE  /\ Beyond(Ran(tx), Ran(tx \o lines), c)
         /\ Ran(tx \o lines).regs[c] = val
<1>1. PICK g : Trace(g, Ran(tx), lines) /\ Ran(tx \o lines) = g[Len(lines)]
  BY RanConcat
<1>2. Len(lines) \in Nat /\ DOMAIN lines = 1..Len(lines)
  BY LenProperties DEF IsText
<1>3. IsMachine(Ran(tx))
  BY RanMachine
<1> DEFINE n == Len(lines)
           m == Ran(tx)
           last == Ran(tx \o lines)
<1>4. n \in Nat /\ n # 0 /\ DOMAIN lines = 1..n
  BY <1>2
<1>5. Trace(g, m, lines) /\ last = g[n] /\ IsMachine(m) /\ Loading(m.mem, lines, c, val)
  BY <1>1, <1>3
<1> HIDE DEF n, m, last
<1>6. Beyond(m, g[n], c) /\ g[n].regs[c] = val
  <2>1. LoadRun(g, m, lines, n, c, val)
    BY <1>4, <1>5 DEF LoadRun
  <2> QED
    BY <2>1, LoadsTrace
<1>7. Beyond(m, last, c) /\ last.regs[c] = val
  BY <1>5, <1>6
<1> QED
  BY <1>7 DEF m, last

LEMMA RanOne ==
  ASSUME NEW tx, IsText(tx), NEW i
  PROVE  Ran(tx \o <<i>>) = Execute(Ran(tx), i)
<1> DEFINE lines == <<i>>
<1>1. DOMAIN lines = 1..1 /\ Len(lines) = 1 /\ lines[1] = i /\ lines \in Seq({i})
  OBVIOUS
<1> HIDE DEF lines
<1>2. IsText(lines)
  BY <1>1, TextIs
<1>3. PICK g : Trace(g, Ran(tx), lines) /\ Ran(tx \o lines) = g[Len(lines)]
  BY <1>2, RanConcat
<1>4. g[0] = Ran(tx) /\ g[1] = Execute(g[1 - 1], lines[1])
  <2>1. 1 \in DOMAIN lines
    BY <1>1
  <2> QED
    BY <1>3, <2>1 DEF Trace
<1>5. Ran(tx \o lines) = Execute(Ran(tx), i)
  BY <1>1, <1>3, <1>4
<1> QED
  BY <1>5 DEF lines

-------------------------------------------------------------------------------
(***************************************************************************)
(* The recursive functions VarsOf, Sum and Meaning satisfy the equations   *)
(* that define them, as the children of a node are older than the node.    *)
(***************************************************************************)
LEMMA KidsBelow ==
  ASSUME TypeInv, GrammarInv, TreeInv, NEW n \in DOMAIN ast
  PROVE  /\ n \in Nat /\ n \notin Vars
         /\ \A i \in DOMAIN ast[n].kids : ast[n].kids[i] \in Vars \cup 1..(n - 1)
         /\ ast[n].kind = "BINARY" =>
              /\ 1 \in DOMAIN ast[n].kids /\ 2 \in DOMAIN ast[n].kids
              /\ ast[n].kids[1] \in Vars \cup 1..(n - 1)
              /\ ast[n].kids[2] \in Vars \cup 1..(n - 1)
<1>1. n \in Nat /\ n \notin Vars
  BY Places, VarsAssumption
<1>2. \A i \in DOMAIN ast[n].kids : ast[n].kids[i] \in Vars \cup 1..(n - 1)
  BY DEF TreeInv, KidsOlder
<1>3. ast[n].kind = "BINARY" => 1 \in DOMAIN ast[n].kids /\ 2 \in DOMAIN ast[n].kids
  <2>1. /\ Len(ast[n].kids) \in Nat /\ DOMAIN ast[n].kids = 1..Len(ast[n].kids)
        /\ Grammatical(ast, ast[n])
    BY Children
  <2>2. ast[n].kind = "BINARY" => Len(ast[n].kids) = 2
    BY <2>1 DEF Grammatical
  <2>3. 1 \in 1..2 /\ 2 \in 1..2
    OBVIOUS
  <2> QED
    BY <2>1, <2>2, <2>3
<1> QED
  BY <1>1, <1>2, <1>3

VarsStep(V, e) == IF e \in Vars THEN {e} ELSE UNION {V[ast[e].kids[i]] : i \in DOMAIN ast[e].kids}
SumStep(S, e) ==
  \/ e \in Vars
  \/ ast[e].kind = "CONSTANT"
  \/ /\ ast[e].kind = "BINARY" /\ ast[e].op = "PLUS"
     /\ S[ast[e].kids[1]] /\ S[ast[e].kids[2]]
     /\ ast[e].kids[1] \notin VarsOf[ast[e].kids[2]]
     /\ SizeOf(ast[e].kids[1]) > 0
MeaningStep(mem, M, e) ==
  IF e \in Vars THEN mem[<<e, 0>>]
  ELSE IF ast[e].kind = "CONSTANT"
  THEN IF TagOf(e) = "STRING" THEN <<"address", e>> ELSE <<"lit", Literal(e), 0>>
  ELSE IF ast[e].kind = "BINARY" THEN <<ast[e].op, M[ast[e].kids[1]], M[ast[e].kids[2]]>>
  ELSE IF ast[e].kind = "CALL" THEN <<"result", ast[e].op>>
  ELSE <<"other", e>>

\* Of the variables and the first k nodes.
VarsOn(k, V)         == V = [e \in Vars \cup 1..k |-> VarsStep(V, e)]
SumOn(k, S)          == S = [e \in Vars \cup 1..k |-> SumStep(S, e)]
MeaningOn(mem, k, M) == M = [e \in Vars \cup 1..k |-> MeaningStep(mem, M, e)]

LEMMA VarsExists ==
  ASSUME TypeInv, GrammarInv, TreeInv
  PROVE  \E V : V = [e \in Vars \cup DOMAIN ast |-> VarsStep(V, e)]
<1> DEFINE T == {k \in Nat : k <= Len(ast) => \E V : VarsOn(k, V)}
<1>0. Len(ast) \in Nat /\ DOMAIN ast = 1..Len(ast)
  BY TypeOKDef DEF TypeInv
<1>1. 0 \in T
  <2> DEFINE V == [e \in Vars \cup 1..0 |-> {e}]
  <2>1. \A e \in Vars \cup 1..0 : e \in Vars
    OBVIOUS
  <2>2. VarsOn(0, V)
    BY <2>1 DEF VarsOn, VarsStep
  <2> QED
    BY <2>2
<1>2. ASSUME NEW k \in Nat, k \in T PROVE k + 1 \in T
  <2>0. SUFFICES ASSUME k + 1 <= Len(ast) PROVE \E V : VarsOn(k + 1, V)
    OBVIOUS
  <2>1. PICK V : VarsOn(k, V)
    BY <1>0, <1>2, <2>0
  <2>2. k + 1 \in DOMAIN ast /\ k + 1 \notin Vars /\ (k + 1) - 1 = k
    BY <1>0, <2>0, KidsBelow
  <2> DEFINE W == [e \in Vars \cup 1..(k + 1) |-> IF e = k + 1 THEN VarsStep(V, k + 1) ELSE V[e]]
  <2>3. \A e \in Vars \cup 1..k : e # k + 1 /\ e \in Vars \cup 1..(k + 1) /\ W[e] = V[e]
    BY <2>2
  <2>4. ASSUME NEW e \in Vars \cup 1..(k + 1) PROVE W[e] = VarsStep(W, e)
    <3>1. ASSUME e \notin Vars, NEW i \in DOMAIN ast[e].kids
          PROVE  W[ast[e].kids[i]] = V[ast[e].kids[i]]
      <4>1. e \in DOMAIN ast /\ e - 1 <= k
        BY <1>0, <2>0, <3>1
      <4>2. ast[e].kids[i] \in Vars \cup 1..(e - 1)
        BY <4>1, KidsBelow
      <4>3. ast[e].kids[i] \in Vars \cup 1..k
        <5> DEFINE d == ast[e].kids[i]
        <5>1. d \in Vars \cup 1..(e - 1) /\ e \in Int
          BY <1>0, <4>1, <4>2
        <5> HIDE DEF d
        <5>2. d \in Vars \cup 1..k
          BY <4>1, <5>1
        <5> QED
          BY <5>2 DEF d
      <4> QED
        BY <2>3, <4>3
    <3>2. VarsStep(W, e) = VarsStep(V, e)
      <4> HIDE DEF W
      <4> QED
        BY <3>1 DEF VarsStep
    <3>3. e # k + 1 => e \in Vars \cup 1..k
      OBVIOUS
    <3>4. e # k + 1 => V[e] = VarsStep(V, e)
      BY <2>1, <3>3 DEF VarsOn
    <3>5. W[e] = IF e = k + 1 THEN VarsStep(V, k + 1) ELSE V[e]
      OBVIOUS
    <3> HIDE DEF W
    <3> QED
      BY <3>2, <3>4, <3>5
  <2>5. W = [e \in Vars \cup 1..(k + 1) |-> W[e]]
    OBVIOUS
  <2> HIDE DEF W
  <2>6. VarsOn(k + 1, W)
    BY <2>4, <2>5 DEF VarsOn
  <2> QED
    BY <2>6
<1>3. Nat \subseteq T
  <2> HIDE DEF T
  <2> QED
    BY <1>1, <1>2, Induction
<1>4. Len(ast) <= Len(ast) /\ Len(ast) \in T
  <2> HIDE DEF T
  <2> QED
    BY <1>0, <1>3
<1>5. PICK V : VarsOn(Len(ast), V)
  BY <1>4
<1> QED
  BY <1>0, <1>5 DEF VarsOn

LEMMA SumExists ==
  ASSUME TypeInv, GrammarInv, TreeInv
  PROVE  \E S : S = [e \in Vars \cup DOMAIN ast |-> SumStep(S, e)]
<1> DEFINE T == {k \in Nat : k <= Len(ast) => \E S : SumOn(k, S)}
<1>0. Len(ast) \in Nat /\ DOMAIN ast = 1..Len(ast)
  BY TypeOKDef DEF TypeInv
<1>1. 0 \in T
  <2> DEFINE S == [e \in Vars \cup 1..0 |-> TRUE]
  <2>1. \A e \in Vars \cup 1..0 : e \in Vars
    OBVIOUS
  <2>2. SumOn(0, S)
    BY <2>1 DEF SumOn, SumStep
  <2> QED
    BY <2>2
<1>2. ASSUME NEW k \in Nat, k \in T PROVE k + 1 \in T
  <2>0. SUFFICES ASSUME k + 1 <= Len(ast) PROVE \E S : SumOn(k + 1, S)
    OBVIOUS
  <2>1. PICK S : SumOn(k, S)
    BY <1>0, <1>2, <2>0
  <2>2. k + 1 \in DOMAIN ast /\ k + 1 \notin Vars /\ (k + 1) - 1 = k
    BY <1>0, <2>0, KidsBelow
  <2> DEFINE W == [e \in Vars \cup 1..(k + 1) |-> IF e = k + 1 THEN SumStep(S, k + 1) ELSE S[e]]
  <2>3. \A e \in Vars \cup 1..k : e # k + 1 /\ e \in Vars \cup 1..(k + 1) /\ W[e] = S[e]
    BY <2>2
  <2>4. ASSUME NEW e \in Vars \cup 1..(k + 1) PROVE W[e] = SumStep(W, e)
    <3>1. ASSUME e \notin Vars, ast[e].kind = "BINARY", NEW i \in {1, 2}
          PROVE  W[ast[e].kids[i]] = S[ast[e].kids[i]]
      <4>1. e \in DOMAIN ast /\ e - 1 <= k
        BY <1>0, <2>0, <3>1
      <4>2. ast[e].kids[i] \in Vars \cup 1..(e - 1)
        BY <3>1, <4>1, KidsBelow
      <4>3. ast[e].kids[i] \in Vars \cup 1..k
        <5> DEFINE d == ast[e].kids[i]
        <5>1. d \in Vars \cup 1..(e - 1) /\ e \in Int
          BY <1>0, <4>1, <4>2
        <5> HIDE DEF d
        <5>2. d \in Vars \cup 1..k
          BY <4>1, <5>1
        <5> QED
          BY <5>2 DEF d
      <4> QED
        BY <2>3, <4>3
    <3>2. SumStep(W, e) = SumStep(S, e)
      <4> HIDE DEF W
      <4> QED
        BY <3>1 DEF SumStep
    <3>3. e # k + 1 => e \in Vars \cup 1..k
      OBVIOUS
    <3>4. e # k + 1 => S[e] = SumStep(S, e)
      BY <2>1, <3>3 DEF SumOn
    <3>5. W[e] = IF e = k + 1 THEN SumStep(S, k + 1) ELSE S[e]
      OBVIOUS
    <3> HIDE DEF W
    <3> QED
      BY <3>2, <3>4, <3>5
  <2>5. W = [e \in Vars \cup 1..(k + 1) |-> W[e]]
    OBVIOUS
  <2> HIDE DEF W
  <2>6. SumOn(k + 1, W)
    BY <2>4, <2>5 DEF SumOn
  <2> QED
    BY <2>6
<1>3. Nat \subseteq T
  <2> HIDE DEF T
  <2> QED
    BY <1>1, <1>2, Induction
<1>4. Len(ast) <= Len(ast) /\ Len(ast) \in T
  <2> HIDE DEF T
  <2> QED
    BY <1>0, <1>3
<1>5. PICK S : SumOn(Len(ast), S)
  BY <1>4
<1> QED
  BY <1>0, <1>5 DEF SumOn

LEMMA MeaningExists ==
  ASSUME TypeInv, GrammarInv, TreeInv, NEW mem
  PROVE  \E M : M = [e \in Vars \cup DOMAIN ast |-> MeaningStep(mem, M, e)]
<1> DEFINE T == {k \in Nat : k <= Len(ast) => \E M : MeaningOn(mem, k, M)}
<1>0. Len(ast) \in Nat /\ DOMAIN ast = 1..Len(ast)
  BY TypeOKDef DEF TypeInv
<1>1. 0 \in T
  <2> DEFINE M == [e \in Vars \cup 1..0 |-> mem[<<e, 0>>]]
  <2>1. \A e \in Vars \cup 1..0 : e \in Vars
    OBVIOUS
  <2>2. MeaningOn(mem, 0, M)
    BY <2>1 DEF MeaningOn, MeaningStep
  <2> QED
    BY <2>2
<1>2. ASSUME NEW k \in Nat, k \in T PROVE k + 1 \in T
  <2>0. SUFFICES ASSUME k + 1 <= Len(ast) PROVE \E M : MeaningOn(mem, k + 1, M)
    OBVIOUS
  <2>1. PICK M : MeaningOn(mem, k, M)
    BY <1>0, <1>2, <2>0
  <2>2. k + 1 \in DOMAIN ast /\ k + 1 \notin Vars /\ (k + 1) - 1 = k
    BY <1>0, <2>0, KidsBelow
  <2> DEFINE W == [e \in Vars \cup 1..(k + 1) |-> IF e = k + 1 THEN MeaningStep(mem, M, k + 1) ELSE M[e]]
  <2>3. \A e \in Vars \cup 1..k : e # k + 1 /\ e \in Vars \cup 1..(k + 1) /\ W[e] = M[e]
    BY <2>2
  <2>4. ASSUME NEW e \in Vars \cup 1..(k + 1) PROVE W[e] = MeaningStep(mem, W, e)
    <3>1. ASSUME e \notin Vars, ast[e].kind = "BINARY", NEW i \in {1, 2}
          PROVE  W[ast[e].kids[i]] = M[ast[e].kids[i]]
      <4>1. e \in DOMAIN ast /\ e - 1 <= k
        BY <1>0, <2>0, <3>1
      <4>2. ast[e].kids[i] \in Vars \cup 1..(e - 1)
        BY <3>1, <4>1, KidsBelow
      <4>3. ast[e].kids[i] \in Vars \cup 1..k
        <5> DEFINE d == ast[e].kids[i]
        <5>1. d \in Vars \cup 1..(e - 1) /\ e \in Int
          BY <1>0, <4>1, <4>2
        <5> HIDE DEF d
        <5>2. d \in Vars \cup 1..k
          BY <4>1, <5>1
        <5> QED
          BY <5>2 DEF d
      <4> QED
        BY <2>3, <4>3
    <3>2. MeaningStep(mem, W, e) = MeaningStep(mem, M, e)
      <4> HIDE DEF W
      <4> QED
        BY <3>1 DEF MeaningStep
    <3>3. e # k + 1 => e \in Vars \cup 1..k
      OBVIOUS
    <3>4. e # k + 1 => M[e] = MeaningStep(mem, M, e)
      BY <2>1, <3>3 DEF MeaningOn
    <3>5. W[e] = IF e = k + 1 THEN MeaningStep(mem, M, k + 1) ELSE M[e]
      OBVIOUS
    <3> HIDE DEF W
    <3> QED
      BY <3>2, <3>4, <3>5
  <2>5. W = [e \in Vars \cup 1..(k + 1) |-> W[e]]
    OBVIOUS
  <2> HIDE DEF W
  <2>6. MeaningOn(mem, k + 1, W)
    BY <2>4, <2>5 DEF MeaningOn
  <2> QED
    BY <2>6
<1>3. Nat \subseteq T
  <2> HIDE DEF T
  <2> QED
    BY <1>1, <1>2, Induction
<1>4. Len(ast) <= Len(ast) /\ Len(ast) \in T
  <2> HIDE DEF T
  <2> QED
    BY <1>0, <1>3
<1>5. PICK M : MeaningOn(mem, Len(ast), M)
  BY <1>4
<1> QED
  BY <1>0, <1>5 DEF MeaningOn

LEMMA VarsOfIs ==
  ASSUME TypeInv, GrammarInv, TreeInv
  PROVE  \A e \in Ref(ast) : VarsOf[e] = VarsStep(VarsOf, e)
<1> DEFINE V == CHOOSE V : V = [e \in Vars \cup DOMAIN ast |-> VarsStep(V, e)]
<1>1. V = [e \in Vars \cup DOMAIN ast |-> VarsStep(V, e)]
  BY VarsExists, Zenon
<1>2. VarsOf = V
  BY Zenon DEF VarsOf, VarsStep
<1> HIDE DEF V
<1> QED
  BY <1>1, <1>2, Places DEF Ref

LEMMA SumIs ==
  ASSUME TypeInv, GrammarInv, TreeInv
  PROVE  \A e \in Ref(ast) : Sum[e] <=> SumStep(Sum, e)
<1> DEFINE S == CHOOSE S : S = [e \in Vars \cup DOMAIN ast |-> SumStep(S, e)]
<1>1. S = [e \in Vars \cup DOMAIN ast |-> SumStep(S, e)]
  BY SumExists, Zenon
<1>2. Sum = S
  BY Zenon DEF Sum, SumStep
<1> HIDE DEF S
<1> QED
  BY <1>1, <1>2, Places DEF Ref

LEMMA MeaningIs ==
  ASSUME TypeInv, GrammarInv, TreeInv, NEW mem
  PROVE  \A e \in Ref(ast) : Meaning(mem)[e] = MeaningStep(mem, Meaning(mem), e)
<1> DEFINE M == CHOOSE M : M = [e \in Vars \cup DOMAIN ast |-> MeaningStep(mem, M, e)]
<1>1. M = [e \in Vars \cup DOMAIN ast |-> MeaningStep(mem, M, e)]
  BY MeaningExists, Zenon
<1>2. Meaning(mem) = M
  BY Zenon DEF Meaning, MeaningStep
<1> HIDE DEF M
<1> QED
  BY <1>1, <1>2, Places DEF Ref

-------------------------------------------------------------------------------
(***************************************************************************)
(* The operands that wait.                                                 *)
(***************************************************************************)
\* What the invariant uses of Sum and VarsOf, and of Meaning.
Shaped(S, V) ==
  /\ \A v \in Vars : v \in V[v]
  /\ \A n \in DOMAIN ast :
       /\ S[n] => ast[n].kind \in {"CONSTANT", "BINARY"}
       /\ ast[n].kind = "BINARY" =>
            V[ast[n].kids[1]] \subseteq V[n] /\ V[ast[n].kids[2]] \subseteq V[n]
       /\ S[n] /\ ast[n].kind = "BINARY" =>
            /\ ast[n].op = "PLUS" /\ S[ast[n].kids[1]] /\ S[ast[n].kids[2]]
            /\ ast[n].kids[1] \notin V[ast[n].kids[2]] /\ SizeOf(ast[n].kids[1]) > 0

Means(mem, f) ==
  /\ \A v \in Vars : f[v] = mem[<<v, 0>>]
  /\ \A n \in DOMAIN ast :
       /\ ast[n].kind = "CONSTANT" =>
            f[n] = IF TagOf(n) = "STRING" THEN <<"address", n>> ELSE <<"lit", Literal(n), 0>>
       /\ ast[n].kind = "BINARY" => f[n] = <<ast[n].op, f[ast[n].kids[1]], f[ast[n].kids[2]]>>
       /\ ast[n].kind = "CALL" => f[n] = <<"result", ast[n].op>>

LEMMA SumShape ==
  ASSUME TypeInv, GrammarInv, TreeInv
  PROVE  Shaped(Sum, VarsOf)
<1>1. ASSUME NEW v \in Vars PROVE v \in VarsOf[v]
  BY VarsOfIs DEF Ref, VarsStep
<1>2. ASSUME NEW n \in DOMAIN ast, ast[n].kind = "BINARY"
      PROVE  VarsOf[ast[n].kids[1]] \subseteq VarsOf[n] /\ VarsOf[ast[n].kids[2]] \subseteq VarsOf[n]
  <2>1. n \in Ref(ast) /\ n \notin Vars
    BY KidsBelow DEF Ref
  <2>2. VarsOf[n] = UNION {VarsOf[ast[n].kids[i]] : i \in DOMAIN ast[n].kids}
    BY <2>1, VarsOfIs DEF VarsStep
  <2>3. 1 \in DOMAIN ast[n].kids /\ 2 \in DOMAIN ast[n].kids
    BY <1>2, KidsBelow
  <2> QED
    BY <2>2, <2>3
<1>3. ASSUME NEW n \in DOMAIN ast, Sum[n]
      PROVE  /\ ast[n].kind \in {"CONSTANT", "BINARY"}
             /\ ast[n].kind = "BINARY" =>
                  /\ ast[n].op = "PLUS" /\ Sum[ast[n].kids[1]] /\ Sum[ast[n].kids[2]]
                  /\ ast[n].kids[1] \notin VarsOf[ast[n].kids[2]] /\ SizeOf(ast[n].kids[1]) > 0
  <2>1. n \in Ref(ast) /\ n \notin Vars
    BY KidsBelow DEF Ref
  <2>2. SumStep(Sum, n)
    BY <1>3, <2>1, SumIs
  <2> QED
    BY <2>1, <2>2 DEF SumStep
<1> QED
  BY <1>1, <1>2, <1>3 DEF Shaped

LEMMA MeaningMeans ==
  ASSUME TypeInv, GrammarInv, TreeInv, NEW mem
  PROVE  Means(mem, Meaning(mem))
<1> DEFINE M == Meaning(mem)
<1>1. \A e \in Ref(ast) : M[e] = MeaningStep(mem, M, e)
  BY MeaningIs
<1>2. \A n \in DOMAIN ast : n \notin Vars /\ n \in Ref(ast)
  BY KidsBelow DEF Ref
<1> HIDE DEF M
<1>3. \A v \in Vars : M[v] = mem[<<v, 0>>]
  BY <1>1 DEF Ref, MeaningStep
<1>4. ASSUME NEW n \in DOMAIN ast
      PROVE  /\ ast[n].kind = "CONSTANT" =>
                  M[n] = IF TagOf(n) = "STRING" THEN <<"address", n>> ELSE <<"lit", Literal(n), 0>>
             /\ ast[n].kind = "BINARY" => M[n] = <<ast[n].op, M[ast[n].kids[1]], M[ast[n].kids[2]]>>
             /\ ast[n].kind = "CALL" => M[n] = <<"result", ast[n].op>>
  <2>1. M[n] = MeaningStep(mem, M, n) /\ n \notin Vars
    BY <1>1, <1>2
  <2> QED
    BY <2>1 DEF MeaningStep
<1>5. Means(mem, M)
  BY <1>3, <1>4 DEF Means
<1> QED
  BY <1>5 DEF M

\* The visits that wait for the value of an operand, and the operand.
Holding == {"right", "combine", "store", "pass"}
Left(as, t) == as[t.node].kids[1]
Operand(as, t) == as[t.node].kids[IF t.step \in {"right", "pass"} THEN 1 ELSE 2]

\* The operand is a sum, one of a sum itself if the visit is of an operation.
Expects(S, as, t) ==
  /\ t.step \in Holding
  /\ IF t.step \in {"right", "combine"} THEN S[t.node] ELSE S[Operand(as, t)]

\* Where the cursor is once the visits before p are over.
Back(ts, c, p) == IF p = 1 \/ ts[p - 1].step = "code" THEN c ELSE ts[p - 1].saved

\* The object n is not the left operand that waits for t, nor is what its visit
\* leads to.
Apart(as, t, n) == n # Left(as, t) /\ (n \in Vars \/ n < t.node)

\* The visit u is of a part of the operand t waits for.
Summing(S, u) == u.step \in {"code", "right", "combine"} /\ S[u.node]
Beneath(S, V, as, t, u) ==
  /\ Summing(S, u) /\ V[u.node] \subseteq V[Operand(as, t)]
  /\ t.step = "combine" =>
       Apart(as, t, u.node) /\ (u.step = "code" \/ u.saved > t.saved)

\* Before a visit that waits for a sum, there are only visits of this sum.
Placed(S, V, as, ts, c, p) ==
  /\ \A q \in 1..(p - 1) : Beneath(S, V, as, ts[p], ts[q]) /\ (ts[q].step = "code" => q = 1)
  /\ p > 1 => ts[p - 1].node = Operand(as, ts[p])
  /\ ts[p].step = "right" => Back(ts, c, p) = ts[p].saved
  /\ ts[p].step = "combine" => c > ts[p].saved

PlaceInv ==
  \A S, V : Shaped(S, V) =>
    \A p \in DOMAIN todo : Expects(S, ast, todo[p]) => Placed(S, V, ast, todo, currentRegisterCt, p)

\* The value val of e is in the register r, which e recorded.
Recorded(reg, bank, e, r, val) ==
  e \in DOMAIN reg /\ reg[e] = r /\ r \in 0..31 /\ bank[r] = val

\* The left operand of an operation waits in the register where the operation
\* began; the operand of a visit that goes on now is in the register under the
\* cursor.
Held(f, as, ts, c, reg, bank, p) ==
  /\ ts[p].step = "combine" => Recorded(reg, bank, Left(as, ts[p]), ts[p].saved, f[Left(as, ts[p])])
  /\ p = 1 => Recorded(reg, bank, Operand(as, ts[p]), c, f[Operand(as, ts[p])])

HeldInv ==
  StraightLine =>
    \A S, V, f : Shaped(S, V) /\ Means(Ran(text).mem, f) =>
      \A p \in DOMAIN todo : Expects(S, ast, todo[p]) =>
        Held(f, ast, todo, currentRegisterCt, register, Ran(text).regs, p)

\* The visit that is first returns, and leaves the cursor where it belongs.
LEMMA PlacedReturns ==
  ASSUME NEW S, NEW V, NEW as, NEW ts, NEW us, NEW c, NEW k \in Nat, k >= 2,
         Placed(S, V, as, ts, c, k), \A i \in 2..k : us[i - 1] = ts[i]
  PROVE  Placed(S, V, as, us, Back(ts, c, 2), k - 1)
<1> DEFINE d == Back(ts, c, 2)
           p == k - 1
<1>1. p \in Nat /\ p >= 1 /\ us[p] = ts[k]
  BY k \in 2..k
<1>2. ASSUME NEW q \in 1..(p - 1)
      PROVE  Beneath(S, V, as, us[p], us[q]) /\ us[q].step # "code"
  <2>1. q + 1 \in 2..k /\ q + 1 \in 1..(k - 1) /\ (q + 1) - 1 = q /\ q + 1 # 1
    OBVIOUS
  <2>2. us[q] = ts[q + 1]
    BY <2>1
  <2> QED
    BY <1>1, <2>1, <2>2 DEF Placed
<1>3. p > 1 => us[p - 1] = ts[p] /\ ts[p].node = Operand(as, ts[k]) /\ us[p - 1].step # "code"
  <2>1. ASSUME p > 1 PROVE p \in 2..k /\ p - 1 \in 1..(p - 1) /\ k > 1
    BY <1>1, <2>1
  <2>2. p > 1 => us[p - 1] = ts[p]
    BY <2>1
  <2> QED
    BY <1>2, <2>1, <2>2 DEF Placed
<1>4. ts[k].step = "right" => Back(us, d, p) = ts[k].saved
  <2>1. ts[k].step = "right" => Back(ts, c, k) = ts[k].saved
    BY DEF Placed
  <2>2. CASE p = 1
    <3>1. k = 2 /\ Back(us, d, p) = d
      BY <2>2 DEF Back
    <3> QED
      BY <2>1, <3>1
  <2>3. CASE p # 1
    <3>1. p > 1 /\ k # 1
      BY <1>1, <2>3
    <3>2. Back(us, d, p) = us[p - 1].saved
      BY <1>3, <3>1 DEF Back
    <3>3. Back(ts, c, k) = ts[k - 1].saved
      BY <1>3, <3>1 DEF Back
    <3> QED
      BY <1>3, <2>1, <3>1, <3>2, <3>3
  <2> QED
    BY <2>2, <2>3
<1>5. ts[k].step = "combine" => d > ts[k].saved
  <2>1. Beneath(S, V, as, ts[k], ts[1])
    BY 1 \in 1..(k - 1) DEF Placed
  <2>2. ts[k].step = "combine" => c > ts[k].saved
    BY DEF Placed
  <2>3. d = c \/ (ts[1].step # "code" /\ d = ts[1].saved)
    BY DEF Back
  <2> QED
    BY <2>1, <2>2, <2>3 DEF Beneath
<1>6. \A q \in 1..(p - 1) : Beneath(S, V, as, us[p], us[q]) /\ (us[q].step = "code" => q = 1)
  BY <1>2
<1>7. p > 1 => us[p - 1].node = Operand(as, us[p])
  BY <1>1, <1>3
<1> HIDE DEF d, p
<1>8. Placed(S, V, as, us, d, p)
  BY <1>1, <1>4, <1>5, <1>6, <1>7 DEF Placed
<1> QED
  BY <1>8 DEF d, p

\* The visit that is first visits a part of its operand, b is what is left of it.
LEMMA PlacedCalls ==
  ASSUME NEW S, NEW V, NEW as, NEW ts, NEW us, NEW c \in Int, NEW d \in Int,
         NEW k \in Nat, k >= 2, \A i \in 1..k : ts[i].saved \in Int,
         Placed(S, V, as, ts, c, k), \A i \in 2..k : us[i + 1] = ts[i],
         us[1].step = "code", S[us[1].node], V[us[1].node] \subseteq V[ts[1].node],
         ts[k].step = "combine" => Apart(as, ts[k], us[1].node),
         us[2].step \in {"right", "combine"}, us[2].node = ts[1].node,
         us[2].saved = Back(ts, c, 2), d >= us[2].saved
  PROVE  Placed(S, V, as, us, d, k + 1)
<1> DEFINE p == k + 1
<1>0. p \in Nat /\ p > 2 /\ us[p] = ts[k] /\ 1 \in 1..(k - 1) /\ 1 \in 1..k /\ k \in 1..k
  BY k \in 2..k
<1>1. Beneath(S, V, as, ts[k], ts[1])
  BY <1>0 DEF Placed
<1>2. ts[k].step = "combine" => us[2].saved > ts[k].saved
  <2>1. ts[k].step = "combine" => c > ts[k].saved
    BY DEF Placed
  <2>2. us[2].saved = c \/ (ts[1].step # "code" /\ us[2].saved = ts[1].saved)
    BY DEF Back
  <2> QED
    BY <1>1, <2>1, <2>2 DEF Beneath
<1>3. ts[k].step = "combine" => d > ts[k].saved
  <2>1. us[2].saved \in Int /\ ts[k].saved \in Int
    BY <1>0 DEF Back
  <2> QED
    BY <1>2, <2>1
<1>4. Beneath(S, V, as, ts[k], us[1])
  BY <1>1 DEF Beneath, Summing
<1>5. Beneath(S, V, as, ts[k], us[2])
  BY <1>1, <1>2 DEF Beneath, Summing
<1>6. ASSUME NEW q \in 1..(p - 1)
      PROVE  Beneath(S, V, as, us[p], us[q]) /\ (us[q].step = "code" => q = 1)
  <2>1. CASE q = 1
    BY <1>0, <1>4, <2>1
  <2>2. CASE q = 2
    BY <1>0, <1>5, <2>2
  <2>3. CASE q # 1 /\ q # 2
    <3>1. q - 1 \in 2..k /\ q - 1 \in 1..(k - 1) /\ (q - 1) + 1 = q /\ q - 1 # 1
      BY <2>3
    <3>2. us[q] = ts[q - 1]
      BY <3>1
    <3> QED
      BY <1>0, <3>1, <3>2 DEF Placed
  <2> QED
    BY <2>1, <2>2, <2>3
<1>7. us[p - 1].step # "code"
  BY <1>0, <1>6, p - 1 \in 1..(p - 1), p - 1 # 1
<1>8. us[k].node = Operand(as, ts[k])
  <2>1. ts[k - 1].node = Operand(as, ts[k])
    <3>1. k > 1
      OBVIOUS
    <3>2. k > 1 => ts[k - 1].node = Operand(as, ts[k])
      BY DEF Placed
    <3> QED
      BY <3>1, <3>2
  <2>2. CASE k = 2
    <3>1. k - 1 = 1
      BY <2>2
    <3>2. us[k] = us[2] /\ ts[k - 1] = ts[1]
      BY <2>2, <3>1
    <3> QED
      BY <2>1, <3>2
  <2>3. CASE k # 2
    <3>1. k - 1 \in 2..k /\ (k - 1) + 1 = k
      BY <2>3
    <3>2. us[k] = ts[k - 1]
      BY <3>1
    <3> QED
      BY <2>1, <3>2
  <2> QED
    BY <2>2, <2>3
<1>9. ts[k].step = "right" => Back(us, d, p) = ts[k].saved
  <2>1. ts[k].step = "right" => Back(ts, c, k) = ts[k].saved
    BY DEF Placed
  <2>2. Back(us, d, p) = us[k].saved
    BY <1>0, <1>7 DEF Back
  <2>3. CASE k = 2
    BY <2>1, <2>2, <2>3
  <2>4. CASE k # 2
    <3>1. k - 1 \in 2..k /\ (k - 1) + 1 = k /\ k - 1 \in 1..(k - 1) /\ k - 1 # 1 /\ k # 1
      BY <2>4
    <3>2. us[k] = ts[k - 1] /\ ts[k - 1].step # "code"
      BY <3>1 DEF Placed
    <3>3. Back(ts, c, k) = ts[k - 1].saved
      BY <3>1, <3>2 DEF Back
    <3> QED
      BY <2>1, <2>2, <3>2, <3>3
  <2> QED
    BY <2>3, <2>4
<1>10. p - 1 = k
  OBVIOUS
<1> HIDE DEF p
<1>11. Placed(S, V, as, us, d, p)
  BY <1>0, <1>3, <1>6, <1>8, <1>9, <1>10 DEF Placed
<1> QED
  BY <1>11 DEF p

-------------------------------------------------------------------------------
(***************************************************************************)
(* The steps of the generator, by what they do to the operands that wait.  *)
(***************************************************************************)
LEMMA ShapeStays ==
  ASSUME Stays
  PROVE  \A S, V : Shaped(S, V)' <=> Shaped(S, V)
<1>1. ast' = ast /\ cells' = cells /\ varType' = varType
  BY DEF Stays, vars, Environment
<1>2. \A e : SizeOf(e)' = SizeOf(e)
  BY <1>1 DEF SizeOf, HasType, TagOf, TypeOf
<1> QED
  BY <1>1, <1>2 DEF Shaped

LEMMA MeansStays ==
  ASSUME Stays
  PROVE  \A mem, f : Means(mem, f)' <=> Means(mem, f)
<1>1. ast' = ast /\ cells' = cells /\ varType' = varType
  BY DEF Stays, vars, Environment
<1>2. \A e : TagOf(e)' = TagOf(e) /\ Literal(e)' = Literal(e)
  BY <1>1 DEF TagOf, TypeOf, Literal
<1> QED
  BY <1>1, <1>2 DEF Means

LEMMA PlaceStep ==
  ASSUME WalkInv, PlaceInv, todo # <<>>, Stays, NEW new \in Seq(Tasks(ast)), Continue(new),
         \A S, V : Shaped(S, V) => \A i \in DOMAIN new : Expects(S, ast, new[i]) =>
           Placed(S, V, ast, todo', currentRegisterCt', i),
         \A S, V : Shaped(S, V) => \A k \in DOMAIN todo :
           k # 1 /\ Expects(S, ast, todo[k]) /\ Placed(S, V, ast, todo, currentRegisterCt, k) =>
             Placed(S, V, ast, todo', currentRegisterCt', (Len(new) + k) - 1)
  PROVE  PlaceInv'
<1>1. Spliced(todo', new, todo) /\ 1 \in DOMAIN todo
  BY SplicedTasks DEF Continue, WalkInv, GenTypeOK, Tasks
<1>2. ASSUME NEW S, NEW V, Shaped(S, V), NEW p \in DOMAIN todo', Expects(S, ast, todo'[p])
      PROVE  Placed(S, V, ast, todo', currentRegisterCt', p)
  <2>1. CASE p \in DOMAIN new /\ todo'[p] = new[p]
    BY <1>2, <2>1
  <2>2. CASE \E k \in DOMAIN todo : k # 1 /\ todo'[p] = todo[k] /\ p = (Len(new) + k) - 1
    <3>1. PICK k \in DOMAIN todo : k # 1 /\ todo'[p] = todo[k] /\ p = (Len(new) + k) - 1
      BY <2>2
    <3>2. Placed(S, V, ast, todo, currentRegisterCt, k) /\ Expects(S, ast, todo[k])
      BY <1>2, <3>1 DEF PlaceInv
    <3> QED
      BY <1>2, <3>1, <3>2
  <2> QED
    BY <1>1, <2>1, <2>2, SplicedCases
<1>3. ast' = ast
  BY DEF Stays, vars
<1> QED
  BY <1>2, <1>3, ShapeStays DEF PlaceInv

LEMMA HeldStep ==
  ASSUME WalkInv, PlaceInv, HeldInv, todo # <<>>, Stays,
         NEW new \in Seq(Tasks(ast)), Continue(new),
         StraightLine' => \A S, V, f : Shaped(S, V) /\ Means(Ran(text').mem, f) =>
           \A i \in DOMAIN new : Expects(S, ast, new[i]) =>
             Held(f, ast, todo', currentRegisterCt', register', Ran(text').regs, i),
         StraightLine' => \A S, V, f : Shaped(S, V) /\ Means(Ran(text').mem, f) =>
           \A k \in DOMAIN todo :
             /\ k # 1 /\ Expects(S, ast, todo[k])
             /\ Placed(S, V, ast, todo, currentRegisterCt, k)
             => Held(f, ast, todo', currentRegisterCt', register', Ran(text').regs, (Len(new) + k) - 1)
  PROVE  HeldInv'
<1>1. Spliced(todo', new, todo) /\ 1 \in DOMAIN todo
  BY SplicedTasks DEF Continue, WalkInv, GenTypeOK, Tasks
<1>2. ASSUME StraightLine', NEW S, NEW V, NEW f, Shaped(S, V), Means(Ran(text').mem, f),
             NEW p \in DOMAIN todo', Expects(S, ast, todo'[p])
      PROVE  Held(f, ast, todo', currentRegisterCt', register', Ran(text').regs, p)
  <2>1. CASE p \in DOMAIN new /\ todo'[p] = new[p]
    BY <1>2, <2>1
  <2>2. CASE \E k \in DOMAIN todo : k # 1 /\ todo'[p] = todo[k] /\ p = (Len(new) + k) - 1
    <3>1. PICK k \in DOMAIN todo : k # 1 /\ todo'[p] = todo[k] /\ p = (Len(new) + k) - 1
      BY <2>2
    <3>2. Placed(S, V, ast, todo, currentRegisterCt, k) /\ Expects(S, ast, todo[k])
      BY <1>2, <3>1 DEF PlaceInv
    <3> QED
      BY <1>2, <3>1, <3>2
  <2> QED
    BY <1>1, <2>1, <2>2, SplicedCases
<1>3. ast' = ast
  BY DEF Stays, vars
<1>4. \A S, V : Shaped(S, V)' => Shaped(S, V)
  BY ShapeStays
<1>5. \A f : Means(Ran(text).mem, f)' => Means(Ran(text').mem, f)
  BY MeansStays
<1> QED
  BY <1>2, <1>3, <1>4, <1>5 DEF HeldInv

-------------------------------------------------------------------------------
(***************************************************************************)
(* What a visit leads to.                                                  *)
(***************************************************************************)
Kinds(as, t) ==
  /\ t.step = "combine" => as[t.node].kind = "BINARY"
  /\ t.step = "call" => as[t.node].kind = "CALL"
  /\ t.step \in {"pass", "increment"} => as[t.node].kind = "UNARY"

\* The visits that replace t: one that waits comes after the one of its operand, and
\* the last of them is still of the node of t if this is an expression.  Only the visit
\* of a call leads to a call, and it only returns once the call is written.
Leads(as, t, new) ==
  /\ \A i \in DOMAIN new :
       /\ Kinds(as, new[i])
       /\ new[i].step = "call" =>
            t.step = "code" /\ t.node \in DOMAIN as /\ as[t.node].kind = "CALL"
       /\ new[i].step \in Holding =>
            i = 2 /\ new[1].step = "code" /\ new[1].node = Operand(as, new[2])
  /\ ExprTask(as, t) /\ Len(new) # 0 => new[Len(new)].node = t.node
  /\ ExprTask(as, t) /\ Len(new) = 0 =>
       t.step = "call" \/ t.node \in Vars \/ as[t.node].kind # "CALL"

\* The visit is not of a sum.
NoSum(t) == \A S, V : Shaped(S, V) => ~Summing(S, t)

LEMMA NoSumIf ==
  ASSUME NEW t,
         \/ t.step \notin {"code", "right", "combine"}
         \/ t.node \in DOMAIN ast /\ ast[t.node].kind \notin {"CONSTANT", "BINARY"}
  PROVE  NoSum(t)
BY DEF NoSum, Summing, Shaped

\* The visits that are under way have the right kinds of node.
KindInv ==
  \A p \in DOMAIN todo :
    /\ Kinds(ast, todo[p])
    /\ todo[p].step = "store" /\ p > 1 => todo[p - 1].node = Operand(ast, todo[p])

LEMMA ReturnLeads ==
  ASSUME NEW t, t.step = "call" \/ t.node \in Vars \/ ast[t.node].kind # "CALL" \/ ~ExprTask(ast, t)
  PROVE  <<>> \in Seq(Tasks(ast)) /\ Leads(ast, t, <<>>) /\ DOMAIN <<>> = {}
<1> DEFINE new == <<>>
<1>1. new \in Seq(Tasks(ast)) /\ DOMAIN new = {} /\ Len(new) = 0
  OBVIOUS
<1> HIDE DEF new
<1>2. new \in Seq(Tasks(ast)) /\ Leads(ast, t, new) /\ DOMAIN new = {}
  BY <1>1 DEF Leads
<1> QED
  BY <1>2 DEF new

LEMMA TwoLead ==
  ASSUME NEW t, NEW e \in Ref(ast), NEW then \in Tasks(ast), Kinds(ast, then),
         then.node = t.node \/ ~ExprTask(ast, t), then.step \in Holding => e = Operand(ast, then),
         then.step # "call"
  PROVE  /\ <<Visit(e), then>> \in Seq(Tasks(ast))
         /\ Leads(ast, t, <<Visit(e), then>>)
         /\ Two(<<Visit(e), then>>, Visit(e), then)
<1> DEFINE first == Visit(e)
           new == <<first, then>>
<1>1. new \in Seq(Tasks(ast)) /\ Two(new, first, then)
  BY TwoVisits
<1>2. Len(new) = 2
  OBVIOUS
<1>3. first.step = "code" /\ first.node = e
  BY CodeTask
<1> HIDE DEF new, first
<1>4. Kinds(ast, first) /\ first.step \notin Holding /\ first.step # "call"
  BY <1>3 DEF Kinds, Holding
<1>5. \A i \in DOMAIN new : (i = 1 /\ new[i] = first) \/ (i = 2 /\ new[i] = then)
  BY <1>1 DEF Two
<1>6. new[1] = first /\ new[2] = then
  BY <1>1 DEF Two
<1>7. Leads(ast, t, new)
  BY <1>2, <1>3, <1>4, <1>5, <1>6 DEF Leads
<1> QED
  BY <1>1, <1>7 DEF new, first

\* What a step of the walk that is not of a sum does.
Goes(new) ==
  /\ phase = "generating" /\ todo # <<>> /\ Stays
  /\ new \in Seq(Tasks(ast)) /\ Continue(new) /\ Leads(ast, Head(todo), new)
Other(new) == NoSum(Head(todo)) /\ \A i \in DOMAIN new : new[i].step \notin {"right", "combine"}

\* The kind of a node is that of the visit that was cut.
LEMMA HeadKinds ==
  ASSUME WalkInv, KindInv, NEW step, Doing(step)
  PROVE  /\ phase = "generating" /\ todo # <<>> /\ Head(todo).step = step
         /\ Current = Head(todo).node /\ Saved = Head(todo).saved
         /\ Suits(ast, Head(todo)) /\ Kinds(ast, Head(todo))
         /\ step \notin {"code", "right", "combine"} => NoSum(Head(todo))
<1>1. /\ phase = "generating" /\ todo # <<>> /\ Head(todo).step = step
      /\ Suits(ast, Head(todo)) /\ Current = Head(todo).node /\ Saved = Head(todo).saved
  BY CutVisit
<1>2. 1 \in DOMAIN todo /\ Head(todo) = todo[1]
  BY <1>1 DEF WalkInv, GenTypeOK
<1> QED
  BY <1>1, <1>2, NoSumIf DEF KindInv

LEMMA CodeKind ==
  ASSUME WalkInv, NEW kinds, DoingKind("code", kinds), kinds \cap {"CONSTANT", "BINARY"} = {}
  PROVE  NoSum(Head(todo)) /\ Head(todo).node = Current /\ Head(todo).step = "code"
<1>1. Current \in DOMAIN ast /\ ast[Current].kind \in kinds
  BY VisitedNode
<1>2. Head(todo).node = Current /\ Head(todo).step = "code"
  BY DEF Current, DoingKind, Doing
<1> QED
  BY <1>1, <1>2, NoSumIf

\* The steps that return, and those of them that are not of a sum.
Returners == VisitVAR \/ VisitCONSTANT \/ BinaryCombine
OtherReturners ==
  \/ Pass \/ Increment1 \/ VisitLIST \/ VisitOther \/ Call \/ Store
  \/ EndIf \/ EndWhile \/ EndForeach \/ EndLoop

LEMMA Returning ==
  ASSUME phase = "generating", todo # <<>>, Stays, Continue(<<>>), NEW t, t = Head(todo),
         t.step = "call" \/ t.node \in Vars \/ ast[t.node].kind # "CALL" \/ ~ExprTask(ast, t)
  PROVE  Goes(<<>>) /\ (NoSum(t) => Other(<<>>))
<1>1. <<>> \in Seq(Tasks(ast)) /\ Leads(ast, t, <<>>) /\ DOMAIN <<>> = {}
  BY ReturnLeads
<1> DEFINE new == <<>>
<1>2. new \in Seq(Tasks(ast)) /\ Leads(ast, t, new) /\ DOMAIN new = {} /\ Continue(new)
  BY <1>1
<1> HIDE DEF new
<1>3. Goes(new) /\ (NoSum(t) => Other(new))
  BY <1>2 DEF Goes, Other
<1> QED
  BY <1>3 DEF new

LEMMA CutReturns ==
  ASSUME WalkInv, KindInv, Stays, Continue(<<>>),
         NEW step \in Steps \ {"data", "code", "right", "argument"}, Doing(step)
  PROVE  Goes(<<>>) /\ (step # "combine" => Other(<<>>))
<1>1. /\ phase = "generating" /\ todo # <<>> /\ Head(todo).step = step /\ Kinds(ast, Head(todo))
      /\ step \notin {"code", "right", "combine"} => NoSum(Head(todo))
  BY HeadKinds
<1>2. step \in {"combine", "call", "pass", "increment"} \/ ~ExprTask(ast, Head(todo))
  BY <1>1 DEF Steps, ExprTask, Quiet, Restores
<1>3. \/ Head(todo).step = "call" \/ ast[Head(todo).node].kind # "CALL"
      \/ ~ExprTask(ast, Head(todo))
  BY <1>1, <1>2 DEF Kinds
<1>4. step # "combine" => NoSum(Head(todo))
  BY <1>1
<1> QED
  BY <1>1, <1>3, <1>4, Returning

LEMMA CodeReturns ==
  ASSUME WalkInv, Stays, Continue(<<>>), NEW kinds, DoingKind("code", kinds), "CALL" \notin kinds
  PROVE  Goes(<<>>) /\ (kinds \cap {"CONSTANT", "BINARY"} = {} => Other(<<>>))
<1>1. /\ Current \in DOMAIN ast /\ ast[Current].kind \in kinds
      /\ phase = "generating" /\ todo # <<>>
  BY VisitedNode
<1>2. Head(todo).node = Current
  BY DEF Current
<1>3. kinds \cap {"CONSTANT", "BINARY"} = {} => NoSum(Head(todo))
  BY CodeKind
<1>4. Goes(<<>>) /\ (NoSum(Head(todo)) => Other(<<>>))
  BY <1>1, <1>2, Returning
<1> QED
  BY <1>3, <1>4

LEMMA ReturnersGo ==
  ASSUME WalkInv, KindInv, Returners
  PROVE  Goes(<<>>)
<1>1. CASE VisitVAR
  <2>1. Doing("code") /\ Current \in Vars /\ Stays /\ Continue(<<>>)
    BY <1>1 DEF VisitVAR
  <2>2. phase = "generating" /\ todo # <<>> /\ Head(todo).node \in Vars
    BY <2>1 DEF Doing, Current
  <2> QED
    BY <2>1, <2>2, Returning
<1>2. CASE VisitCONSTANT
  <2>1. DoingKind("code", {"CONSTANT"}) /\ Stays /\ Continue(<<>>)
    BY <1>2 DEF VisitCONSTANT
  <2> QED
    BY <2>1, CodeReturns
<1>3. CASE BinaryCombine
  <2>1. Doing("combine") /\ Stays /\ Continue(<<>>) /\ "combine" \in Steps
    BY <1>3 DEF BinaryCombine, Steps
  <2> QED
    BY <2>1, CutReturns
<1> QED
  BY <1>1, <1>2, <1>3 DEF Returners

LEMMA OtherReturnersGo ==
  ASSUME WalkInv, KindInv, OtherReturners
  PROVE  Goes(<<>>) /\ Other(<<>>)
<1>1. ASSUME NEW step \in {"pass", "increment", "call", "store", "end if", "end while",
                            "end foreach", "end loop"}, Doing(step), Stays, Continue(<<>>)
      PROVE  Goes(<<>>) /\ Other(<<>>)
  <2>1. step \in Steps \ {"data", "code", "right", "argument"} /\ step # "combine"
    BY DEF Steps
  <2> QED
    BY <1>1, <2>1, CutReturns
<1>2. CASE VisitLIST
  <2>1. DoingKind("code", {"EXPRLIST"}) /\ Stays /\ Continue(<<>>)
    BY <1>2 DEF VisitLIST
  <2> QED
    BY <2>1, CodeReturns
<1>3. CASE VisitOther
  <2> DEFINE kinds == {"GET", "EXPRSET", "EXPRRANGE", "BREAK", "RETURN", "SWITCH"}
  <2>1. DoingKind("code", kinds) /\ Stays /\ Continue(<<>>)
    BY <1>3 DEF VisitOther
  <2>2. "CALL" \notin kinds /\ kinds \cap {"CONSTANT", "BINARY"} = {}
    OBVIOUS
  <2> HIDE DEF kinds
  <2> QED
    BY <2>1, <2>2, CodeReturns
<1>4. ASSUME Pass \/ Increment1 \/ Call \/ Store \/ EndIf \/ EndWhile \/ EndForeach \/ EndLoop
      PROVE  /\ Stays /\ Continue(<<>>)
             /\ \E step \in {"pass", "increment", "call", "store", "end if", "end while",
                             "end foreach", "end loop"} : Doing(step)
  BY <1>4 DEF Pass, Increment1, Call, Store, EndIf, EndWhile, EndForeach, EndLoop
<1> QED
  BY <1>1, <1>2, <1>3, <1>4 DEF OtherReturners

\* The steps that visit one child and go on with the rest of the visit.
Callers == VisitBinary \/ BinaryRight
OtherCallers == VisitUnary \/ VisitAFF \/ VisitControl \/ Control \/ Else \/ VisitLOOP

LEMMA TwoGo ==
  ASSUME phase = "generating", todo # <<>>, Stays, NEW t, t = Head(todo),
         NEW n \in DOMAIN ast, NEW e \in Ref(ast), NEW step \in Steps, NEW saved \in Int,
         Continue(<<Visit(e), Task(step, n, saved)>>),
         t.node = n \/ ~ExprTask(ast, t), step # "call",
         step = "combine" => ast[n].kind = "BINARY",
         step \in {"pass", "increment"} => ast[n].kind = "UNARY",
         step \in {"right", "pass"} => e = ast[n].kids[1],
         step \in {"combine", "store"} => e = ast[n].kids[2]
  PROVE  LET new == <<Visit(e), Task(step, n, saved)>>
         IN /\ Goes(new) /\ Two(new, Visit(e), Task(step, n, saved)) /\ Len(new) = 2
            /\ NoSum(t) /\ step \notin {"right", "combine"} => Other(new)
<1> DEFINE then == Task(step, n, saved)
           first == Visit(e)
           new == <<first, then>>
<1>1. then \in Tasks(ast) /\ then.step = step /\ then.node = n
  BY ThenTask DEF Ref
<1>2. first.step = "code" /\ Continue(new) /\ Len(new) = 2
  BY CodeTask
<1> HIDE DEF then
<1>3. Kinds(ast, then)
  BY <1>1 DEF Kinds
<1>4. then.step \in Holding => e = Operand(ast, then)
  BY <1>1 DEF Holding, Operand
<1>5. new \in Seq(Tasks(ast)) /\ Leads(ast, t, new) /\ Two(new, first, then)
  BY <1>1, <1>3, <1>4, TwoLead
<1> HIDE DEF first, new
<1>6. Goes(new)
  BY <1>2, <1>5 DEF Goes
<1>7. \A i \in DOMAIN new : new[i] = first \/ new[i] = then
  BY <1>5 DEF Two
<1>8. NoSum(t) /\ step \notin {"right", "combine"} => Other(new)
  BY <1>1, <1>2, <1>7 DEF Other
<1> QED
  BY <1>2, <1>5, <1>6, <1>8 DEF new, first, then

LEMMA OtherCallersGo ==
  ASSUME TypeInv, GrammarInv, WalkInv, KindInv, OtherCallers
  PROVE  \E new : Goes(new) /\ Other(new)
<1>1. 0 \in Int /\ 1 \in Int
  OBVIOUS
<1>2. CASE VisitUnary
  <2>1. /\ DoingKind("code", {"UNARY"}) /\ Stays
        /\ \/ \E step \in {"pass", "increment"} : Continue(<<Visit(Kid(1)), Task(step, Current, 0)>>)
           \/ Continue(<<>>)
    BY <1>2 DEF VisitUnary
  <2>2. /\ Current \in DOMAIN ast /\ ast[Current].kind = "UNARY"
        /\ phase = "generating" /\ todo # <<>>
    BY <2>1, VisitedNode
  <2>3. Head(todo).node = Current /\ NoSum(Head(todo))
    BY <2>1, CodeKind
  <2>4. Kid(1) \in Ref(ast) /\ Kid(1) = ast[Current].kids[1]
    BY <2>2, Operands DEF Kid
  <2>5. CASE Continue(<<>>)
    BY <2>1, <2>5, CodeReturns
  <2>6. ASSUME NEW step \in {"pass", "increment"}, Continue(<<Visit(Kid(1)), Task(step, Current, 0)>>)
        PROVE  \E new : Goes(new) /\ Other(new)
    <3>1. step \in Steps /\ step \notin {"call", "combine", "right", "store"}
      BY DEF Steps
    <3> QED
      BY <1>1, <2>1, <2>2, <2>3, <2>4, <2>6, <3>1, TwoGo
  <2> QED
    BY <2>1, <2>5, <2>6
<1>3. CASE VisitAFF
  <2>1. /\ DoingKind("code", {"AFF"}) /\ Stays
        /\ Continue(<<Visit(Kid(2)), Task("store", Current, 0)>>)
    BY <1>3 DEF VisitAFF
  <2>2. /\ Current \in DOMAIN ast /\ ast[Current].kind = "AFF"
        /\ phase = "generating" /\ todo # <<>>
    BY <2>1, VisitedNode
  <2>3. Head(todo).node = Current /\ NoSum(Head(todo))
    BY <2>1, CodeKind
  <2>4. Kid(2) \in Ref(ast) /\ Kid(2) = ast[Current].kids[2]
    BY <2>2, Operands DEF Kid
  <2>5. "store" \in Steps
    BY DEF Steps
  <2> QED
    BY <1>1, <2>1, <2>2, <2>3, <2>4, <2>5, TwoGo
<1>4. CASE VisitControl
  <2>1. /\ DoingKind("code", Governing) /\ Stays
        /\ Continue(<<Visit(Kid(1)), Task("control", Current, 0)>>)
    BY <1>4 DEF VisitControl, Governing
  <2>2. /\ Current \in DOMAIN ast /\ ast[Current].kind \in Governing
        /\ phase = "generating" /\ todo # <<>>
    BY <2>1, VisitedNode
  <2>3. Governing \cap {"CONSTANT", "BINARY"} = {}
    BY DEF Governing, Conditionals
  <2>4. Head(todo).node = Current /\ NoSum(Head(todo))
    BY <2>1, <2>3, CodeKind
  <2>5. Kid(1) \in Ref(ast)
    BY <2>2, Operands DEF Kid
  <2>6. "control" \in Steps /\ "control" \notin Holding
    BY DEF Steps, Holding
  <2> QED
    BY <1>1, <2>1, <2>2, <2>4, <2>5, <2>6, TwoGo
<1>5. CASE Control
  <2>1. PICK step \in AfterTest :
          /\ Doing("control") /\ Stays
          /\ Continue(<<Visit(Kid(2)), Task(step, Current, 0)>>)
    BY <1>5 DEF Control, AfterTest
  <2>2. /\ phase = "generating" /\ todo # <<>> /\ Head(todo).step = "control"
        /\ Suits(ast, Head(todo)) /\ Current = Head(todo).node /\ NoSum(Head(todo))
    BY <2>1, HeadKinds
  <2>3. Current \in DOMAIN ast /\ ast[Current].kind \in Governing
    BY <2>2 DEF Suits
  <2>4. Kid(2) \in Ref(ast)
    BY <2>3, Operands DEF Kid
  <2>5. step \in Steps /\ step \notin Holding /\ step \notin {"call", "pass", "increment"}
    BY DEF Steps, Holding, AfterTest
  <2>6. step \notin {"right", "combine", "store", "pass"}
    BY <2>5 DEF Holding
  <2> QED
    BY <1>1, <2>1, <2>2, <2>3, <2>4, <2>5, <2>6, TwoGo
<1>6. CASE Else
  <2>1. /\ Doing("else") /\ Stays
        /\ Continue(<<Visit(Kid(3)), Task("end if", Current, 1)>>)
    BY <1>6 DEF Else
  <2>2. /\ phase = "generating" /\ todo # <<>> /\ Head(todo).step = "else"
        /\ Suits(ast, Head(todo)) /\ Current = Head(todo).node /\ NoSum(Head(todo))
    <3>1. ASSUME NEW step, step = "else"
          PROVE  Doing(step) /\ step \notin {"code", "right", "combine"}
      BY <2>1, <3>1
    <3> QED
      BY <3>1, HeadKinds
  <2>3. Current \in DOMAIN ast /\ Len(ast[Current].kids) >= 3
    BY <2>2 DEF Suits
  <2>4. Kid(3) \in Ref(ast) /\ "end if" \in Steps
    BY <2>3, Children DEF Kid, Steps
  <2> QED
    BY <1>1, <2>1, <2>2, <2>3, <2>4, TwoGo
<1>7. CASE VisitLOOP
  <2>1. /\ DoingKind("code", {"LOOP"}) /\ Stays
        /\ Continue(<<Visit(Kid(1)), Task("end loop", Current, 0)>>)
    BY <1>7 DEF VisitLOOP
  <2>2. /\ Current \in DOMAIN ast /\ ast[Current].kind = "LOOP"
        /\ phase = "generating" /\ todo # <<>>
    <3>1. /\ Current \in DOMAIN ast /\ ast[Current].kind \in {"LOOP"}
          /\ phase = "generating" /\ todo # <<>>
      BY <2>1, VisitedNode
    <3> QED
      BY <3>1
  <2>3. Head(todo).node = Current /\ NoSum(Head(todo))
    BY <2>1, CodeKind
  <2>4. Kid(1) \in Ref(ast) /\ "end loop" \in Steps
    BY <2>2, Operands DEF Kid, Steps
  <2> QED
    BY <1>1, <2>1, <2>2, <2>3, <2>4, TwoGo
<1> QED
  BY <1>2, <1>3, <1>4, <1>5, <1>6, <1>7 DEF OtherCallers

\* The steps that visit the children of a node in turn.
OtherLists == VisitCall \/ Argument \/ DataVisit \/ VisitInside

LEMMA TurnGoes ==
  ASSUME phase = "generating", todo # <<>>, Stays, NEW t, t = Head(todo), NoSum(t),
         NEW new \in Seq(Tasks(ast)), Continue(new),
         \A i \in DOMAIN new : Kinds(ast, new[i]) /\ new[i].step \in {"data", "code", "argument", "call"},
         \/ \A i \in DOMAIN new : new[i].step # "call"
         \/ t.step = "code" /\ t.node \in DOMAIN ast /\ ast[t.node].kind = "CALL",
         ExprTask(ast, t) => Len(new) # 0 /\ new[Len(new)].node = t.node
  PROVE  Goes(new) /\ Other(new)
<1>1. \A i \in DOMAIN new : new[i].step \notin Holding /\ new[i].step \notin {"right", "combine"}
  BY DEF Holding
<1>2. Leads(ast, t, new)
  BY <1>1 DEF Leads
<1> QED
  BY <1>1, <1>2 DEF Goes, Other

LEMMA OtherListsGo ==
  ASSUME TypeInv, GrammarInv, WalkInv, KindInv, OtherLists
  PROVE  \E new : Goes(new) /\ Other(new)
<1>1. CASE Argument
  <2>1. Doing("argument") /\ Stays /\ Continue(<<Visit(Current)>>)
    BY <1>1 DEF Argument
  <2>2. Current \in Ref(ast) /\ phase = "generating" /\ todo # <<>>
    BY <2>1, CutVisit
  <2>3. Head(todo).node = Current /\ NoSum(Head(todo))
    <3>1. Doing("argument") => Current = Head(todo).node /\ NoSum(Head(todo))
      BY HeadKinds
    <3> QED
      BY <2>1, <3>1
  <2> DEFINE t == Visit(Current)
             new == <<t>>
  <2>4. t \in Tasks(ast) /\ t.step = "code" /\ t.node = Current
    BY <2>2, VisitTask, CodeTask
  <2>5. Continue(new)
    BY <2>1
  <2> HIDE DEF t
  <2>6. new \in Seq(Tasks(ast)) /\ DOMAIN new = {1} /\ new[1] = t /\ Len(new) = 1
    BY <2>4
  <2> HIDE DEF new
  <2>7. \A i \in DOMAIN new : Kinds(ast, new[i]) /\ new[i].step \in {"data", "code", "argument", "call"}
    BY <2>4, <2>6 DEF Kinds
  <2>8. Len(new) # 0 /\ new[Len(new)].node = Head(todo).node
    BY <2>3, <2>4, <2>6
  <2>9. \A i \in DOMAIN new : new[i].step # "call"
    BY <2>4, <2>6
  <2> QED
    BY <2>1, <2>2, <2>3, <2>5, <2>6, <2>7, <2>8, <2>9, TurnGoes
<1>2. ASSUME NEW step \in {"data", "code"}, NEW nodes \in Seq(Ref(ast)), Stays, NoSum(Head(todo)),
             phase = "generating", todo # <<>>, ~ExprTask(ast, Head(todo)),
             Continue([i \in DOMAIN nodes |-> Task(step, nodes[i], 0)])
      PROVE  \E new : Goes(new) /\ Other(new)
  <2> DEFINE new == [i \in DOMAIN nodes |-> Task(step, nodes[i], 0)]
  <2>1. step \in Steps
    BY DEF Steps
  <2>2. new \in Seq(Tasks(ast)) /\ \A i \in 1..Len(new) : new[i].step = step
    BY <2>1, TasksInTurn
  <2>3. Continue(new)
    BY <1>2
  <2> HIDE DEF new
  <2>4. \A i \in DOMAIN new : Kinds(ast, new[i]) /\ new[i].step \in {"data", "code", "argument", "call"}
    BY <2>2, LenProperties DEF Kinds
  <2>5. \A i \in DOMAIN new : new[i].step # "call"
    BY <2>2, LenProperties
  <2> QED
    BY <1>2, <2>2, <2>3, <2>4, <2>5, TurnGoes
<1>3. CASE DataVisit
  <2> DEFINE nodes == IF Current \in Vars THEN <<>> ELSE DataKids(Current)
             new == [i \in DOMAIN nodes |-> Task("data", nodes[i], 0)]
  <2>1. Doing("data") /\ Stays
    BY <1>3 DEF DataVisit
  <2>2. nodes \in Seq(Ref(ast)) /\ "data" \in Steps
    <3>1. Current \in Ref(ast)
      BY <2>1, CutVisit
    <3>2. Current \notin Vars => DataKids(Current) \in Seq(Ref(ast))
      BY <3>1, DataNodes DEF Ref
    <3>3. <<>> \in Seq(Ref(ast)) /\ "data" \in Steps
      BY EmptySeq DEF Steps
    <3> QED
      BY <3>2, <3>3
  <2>3. Continue(new)
    <3>1. CASE Current \in Vars
      <4>1. Continue(<<>>)
        BY <1>3, <3>1 DEF DataVisit
      <4>2. new = <<>>
        <5>1. nodes = <<>>
          BY <3>1
        <5>2. new \in Seq(Tasks(ast)) /\ Len(new) = Len(nodes)
          BY <2>2, TasksInTurn
        <5> HIDE DEF new, nodes
        <5> QED
          BY <5>1, <5>2, EmptySeq
      <4> QED
        BY <4>1, <4>2
    <3>2. CASE Current \notin Vars
      BY <1>3, <3>2 DEF DataVisit
    <3> QED
      BY <3>1, <3>2
  <2>4. phase = "generating" /\ todo # <<>> /\ Head(todo).step = "data"
    BY <2>1, CutVisit
  <2>5. NoSum(Head(todo)) /\ ~ExprTask(ast, Head(todo))
    BY <2>4, NoSumIf DEF ExprTask, Quiet, Restores
  <2> HIDE DEF nodes
  <2> QED
    BY <1>2, <2>1, <2>2, <2>3, <2>4, <2>5
<1>4. CASE VisitInside
  <2> DEFINE nodes == ast[Current].kids
  <2>1. DoingKind("code", {"EXPR", "SEQ"}) /\ Stays /\ Continue([i \in DOMAIN nodes |-> Task("code", nodes[i], 0)])
    BY <1>4 DEF VisitInside, Visit, Kid
  <2>2. /\ Current \in DOMAIN ast /\ ast[Current].kind \in {"EXPR", "SEQ"}
        /\ phase = "generating" /\ todo # <<>>
        /\ ExprTask(ast, Head(todo)) => ast[Current].kind \in ExprKinds
    BY <2>1, VisitedNode
  <2>3. ~ExprTask(ast, Head(todo)) /\ NoSum(Head(todo))
    BY <2>1, <2>2, CodeKind DEF ExprKinds
  <2>4. nodes \in Seq(Ref(ast))
    BY <2>2, Children
  <2> HIDE DEF nodes
  <2> QED
    BY <1>2, <2>1, <2>2, <2>3, <2>4
<1>5. CASE VisitCall
  <2> DEFINE nodes == ast[Current].kids
             args == [i \in DOMAIN nodes |-> Task("argument", nodes[i], 0)]
             then == Task("call", Current, currentRegisterCt)
             last == <<then>>
             new == args \o last
  <2>1. DoingKind("code", {"CALL"}) /\ Stays /\ Continue(new)
    BY <1>5 DEF VisitCall, Kid
  <2>2. /\ Current \in DOMAIN ast /\ ast[Current].kind \in {"CALL"}
        /\ phase = "generating" /\ todo # <<>> /\ currentRegisterCt \in Int
    BY <2>1, VisitedNode
  <2>3. nodes \in Seq(Ref(ast))
    BY <2>2, Children
  <2>4. "argument" \in Steps /\ "call" \in Steps /\ Current \in Ref(ast)
    BY <2>2 DEF Steps, Ref
  <2> HIDE DEF nodes
  <2>5. /\ args \in Seq(Tasks(ast)) /\ \A i \in 1..Len(args) : args[i].step = "argument"
    BY <2>3, <2>4, TasksInTurn
  <2>6. then \in Tasks(ast) /\ then.step = "call" /\ then.node = Current
    BY <2>2, <2>4, ThenTask
  <2> HIDE DEF args, then
  <2>7. last \in Seq(Tasks(ast)) /\ Len(last) = 1 /\ last[1] = then
    BY <2>6
  <2> HIDE DEF last
  <2>8. /\ new \in Seq(Tasks(ast)) /\ Len(new) = Len(args) + Len(last)
        /\ \A i \in 1..(Len(args) + Len(last)) :
             new[i] = IF i <= Len(args) THEN args[i] ELSE last[i - Len(args)]
    BY <2>5, <2>7, ConcatProperties
  <2> HIDE DEF new
  <2>9. Len(args) \in Nat /\ DOMAIN new = 1..(Len(args) + 1) /\ Len(new) = Len(args) + 1
    BY <2>5, <2>7, <2>8, LenProperties
  <2>10. ASSUME NEW i \in DOMAIN new PROVE new[i].step = "argument" \/ new[i] = then
    <3>1. CASE i <= Len(args)
      BY <2>5, <2>7, <2>8, <2>9, <3>1
    <3>2. CASE ~(i <= Len(args))
      <4>1. i = Len(args) + 1 /\ i - Len(args) = 1
        BY <2>9, <3>2
      <4> QED
        BY <2>7, <2>8, <3>2, <4>1
    <3> QED
      BY <3>1, <3>2
  <2>11. new[Len(new)] = then /\ Len(new) # 0
    <3>1. Len(new) \in 1..(Len(args) + Len(last)) /\ ~(Len(new) <= Len(args)) /\ Len(new) - Len(args) = 1
      BY <2>7, <2>9
    <3> QED
      BY <2>7, <2>8, <3>1
  <2>12. \A i \in DOMAIN new : Kinds(ast, new[i]) /\ new[i].step \in {"data", "code", "argument", "call"}
    BY <2>2, <2>6, <2>10 DEF Kinds
  <2>13. NoSum(Head(todo)) /\ Head(todo).node = Current /\ Head(todo).step = "code"
    BY <2>1, CodeKind
  <2> QED
    BY <2>1, <2>2, <2>6, <2>8, <2>11, <2>12, <2>13, TurnGoes
<1> QED
  BY <1>1, <1>3, <1>4, <1>5 DEF OtherLists

LEMMA KindStep ==
  ASSUME WalkInv, KindInv, NEW new, Goes(new)
  PROVE  KindInv'
<1>1. /\ new \in Seq(Tasks(ast)) /\ Leads(ast, Head(todo), new) /\ ast' = ast /\ todo # <<>>
      /\ Continue(new)
  BY DEF Goes, Stays, vars
<1>2. Spliced(todo', new, todo) /\ 1 \in DOMAIN todo /\ Head(todo) = todo[1]
  BY <1>1, SplicedTasks DEF Continue, WalkInv, GenTypeOK, Tasks
<1>3. /\ Len(todo) \in Nat /\ Len(new) \in Nat /\ DOMAIN todo = 1..Len(todo) /\ DOMAIN new = 1..Len(new)
      /\ \A i \in 1..Len(new) : todo'[i] = new[i]
      /\ \A k \in 2..Len(todo) : todo'[(Len(new) + k) - 1] = todo[k]
  BY <1>2 DEF Spliced
<1>4. ASSUME NEW p \in DOMAIN todo'
      PROVE  /\ Kinds(ast, todo'[p])
             /\ todo'[p].step = "store" /\ p > 1 => todo'[p - 1].node = Operand(ast, todo'[p])
  <2>1. CASE p \in DOMAIN new /\ todo'[p] = new[p]
    <3>1. Kinds(ast, todo'[p])
      BY <1>1, <2>1 DEF Leads
    <3>2. ASSUME todo'[p].step = "store"
          PROVE  p = 2 /\ new[1].node = Operand(ast, todo'[p])
      BY <1>1, <2>1, <3>2 DEF Leads, Holding
    <3>3. todo'[p].step = "store" => 1 \in 1..Len(new) /\ p - 1 = 1
      BY <1>3, <2>1, <3>2
    <3>4. todo'[p].step = "store" => todo'[p - 1] = new[1]
      BY <1>3, <3>3
    <3> QED
      BY <3>1, <3>2, <3>4
  <2>2. CASE \E k \in DOMAIN todo : k # 1 /\ todo'[p] = todo[k] /\ p = (Len(new) + k) - 1
    <3>1. PICK k \in DOMAIN todo : k # 1 /\ todo'[p] = todo[k] /\ p = (Len(new) + k) - 1
      BY <2>2
    <3>2. k \in 2..Len(todo) /\ k > 1
      BY <1>3, <3>1
    <3>3. Kinds(ast, todo'[p])
      BY <3>1 DEF KindInv
    <3>4. ASSUME todo'[p].step = "store", p > 1
          PROVE  todo'[p - 1].node = Operand(ast, todo'[p])
      <4>1. todo[k - 1].node = Operand(ast, todo[k])
        BY <3>1, <3>2, <3>4 DEF KindInv
      <4>2. CASE k = 2
        <5>1. ExprTask(ast, todo[1])
          <6>1. todo[k].step \in Awaiting /\ 1 \in 1..(k - 1)
            BY <3>1, <3>2, <3>4 DEF Awaiting
          <6> QED
            BY <3>1, <6>1 DEF WalkInv, Orderly
        <5>2. p - 1 = Len(new) /\ Len(new) # 0 /\ Len(new) \in 1..Len(new) /\ k - 1 = 1
          BY <1>3, <3>1, <3>4, <4>2
        <5>3. new[Len(new)].node = todo[1].node
          BY <1>1, <1>2, <5>1, <5>2 DEF Leads
        <5>4. todo'[p - 1] = new[Len(new)]
          BY <1>3, <5>2
        <5> QED
          BY <3>1, <4>1, <5>2, <5>3, <5>4
      <4>3. CASE k # 2
        <5>1. k - 1 \in 2..Len(todo) /\ p - 1 = (Len(new) + (k - 1)) - 1
          BY <1>3, <3>1, <3>2, <4>3
        <5>2. todo'[p - 1] = todo[k - 1]
          BY <1>3, <5>1
        <5> QED
          BY <3>1, <4>1, <5>2
      <4> QED
        BY <4>2, <4>3
    <3> QED
      BY <3>3, <3>4
  <2> QED
    BY <1>2, <2>1, <2>2, SplicedCases
<1>5. \A t : Kinds(ast', t) <=> Kinds(ast, t)
  BY <1>1
<1> QED
  BY <1>1, <1>4 DEF KindInv

\* The value of a call is where the callee left it.
ResultInv ==
  StraightLine /\ todo # <<>> =>
    LET t == todo[1]
        e == ast[t.node].kids[2]
    IN t.step = "store" /\ e \notin Vars /\ ast[e].kind = "CALL" /\ ast[e].op # "user" =>
         Ran(text).regs[FirstRegister] = <<"result", ast[e].op>>

\* A store is reached when the visit of its operand returns, which is the step that
\* writes the call if the operand is one.
LEMMA StoreReached ==
  ASSUME WalkInv, KindInv, NEW new, Goes(new), todo' # <<>>, todo'[1].step = "store"
  PROVE  LET e == ast[todo'[1].node].kids[2]
         IN /\ new = <<>> /\ Head(todo).node = e
            /\ e \notin Vars /\ ast[e].kind = "CALL" => Head(todo).step = "call"
<1>1. /\ new \in Seq(Tasks(ast)) /\ Leads(ast, Head(todo), new) /\ ast' = ast /\ todo # <<>>
      /\ Continue(new)
  BY DEF Goes, Stays, vars
<1>2. /\ Spliced(todo', new, todo) /\ 1 \in DOMAIN todo /\ Head(todo) = todo[1]
      /\ todo' \in Seq(Tasks(ast))
  BY <1>1, SplicedTasks DEF Continue, WalkInv, GenTypeOK, Tasks
<1>3. /\ Len(todo) \in Nat /\ Len(new) \in Nat /\ DOMAIN todo = 1..Len(todo) /\ DOMAIN new = 1..Len(new)
  BY <1>2 DEF Spliced
<1>4. 1 \in DOMAIN todo'
  BY <1>2
<1>5. ~(1 \in DOMAIN new /\ todo'[1] = new[1])
  BY <1>1 DEF Leads, Holding
<1>6. PICK k \in DOMAIN todo : k # 1 /\ todo'[1] = todo[k] /\ 1 = (Len(new) + k) - 1
  <2> DEFINE us == todo'
  <2>1. Spliced(us, new, todo) /\ 1 \in DOMAIN todo
    BY <1>2
  <2> HIDE DEF us
  <2>2. \A p \in DOMAIN us :
          \/ p \in DOMAIN new /\ us[p] = new[p]
          \/ \E k \in DOMAIN todo : k # 1 /\ us[p] = todo[k] /\ p = (Len(new) + k) - 1
    BY <2>1, SplicedCases
  <2> QED
    BY <1>4, <1>5, <2>2 DEF us
<1>7. k = 2 /\ Len(new) = 0 /\ k - 1 = 1 /\ 1 \in 1..(k - 1) /\ k > 1
  BY <1>3, <1>6
<1>8. new = <<>>
  BY <1>1, <1>7, EmptySeq
<1>9. todo[1].node = Operand(ast, todo[k]) /\ ExprTask(ast, todo[1])
  BY <1>6, <1>7 DEF KindInv, WalkInv, Orderly, Awaiting
<1>10. Operand(ast, todo[k]) = ast[todo'[1].node].kids[2]
  BY <1>6 DEF Operand
<1>11. ExprTask(ast, Head(todo)) =>
         Head(todo).step = "call" \/ Head(todo).node \in Vars \/ ast[Head(todo).node].kind # "CALL"
  BY <1>1, <1>7 DEF Leads
<1> QED
  BY <1>2, <1>8, <1>9, <1>10, <1>11

\* A step that is not of a sum, for which no visit waits.
LEMMA OtherStep ==
  ASSUME WalkInv, PlaceInv, HeldInv, NEW new, Goes(new), Other(new)
  PROVE  PlaceInv' /\ HeldInv'
<1>1. /\ new \in Seq(Tasks(ast)) /\ Leads(ast, Head(todo), new) /\ todo # <<>>
      /\ Continue(new) /\ Stays
  BY DEF Goes
<1>2. Spliced(todo', new, todo) /\ 1 \in DOMAIN todo /\ Head(todo) = todo[1]
  BY <1>1, SplicedTasks DEF Continue, WalkInv, GenTypeOK, Tasks
<1>3. /\ DOMAIN todo = 1..Len(todo) /\ Len(todo) \in Nat
      /\ DOMAIN new = 1..Len(new) /\ Len(new) \in Nat /\ \A i \in 1..Len(new) : todo'[i] = new[i]
  BY <1>2 DEF Spliced
<1>4. ASSUME NEW S, NEW V, Shaped(S, V), NEW k \in DOMAIN todo, k # 1,
             Placed(S, V, ast, todo, currentRegisterCt, k)
      PROVE  FALSE
  <2>1. 1 \in 1..(k - 1)
    BY <1>3, <1>4
  <2>2. Beneath(S, V, ast, todo[k], todo[1])
    BY <1>4, <2>1 DEF Placed
  <2>3. Summing(S, todo[1])
    BY <2>2 DEF Beneath
  <2> QED
    BY <1>2, <1>4, <2>3 DEF Other, NoSum
<1>5. ASSUME NEW S, NEW i \in DOMAIN new, Expects(S, ast, new[i])
      PROVE  /\ i = 2 /\ todo'[2] = new[i] /\ todo'[1].step = "code"
             /\ todo'[1].node = Operand(ast, todo'[2])
             /\ todo'[2].step \notin {"right", "combine"} /\ S[Operand(ast, todo'[2])]
  <2>1. new[i].step \in Holding
    BY <1>5 DEF Expects
  <2>2. i = 2 /\ new[1].step = "code" /\ new[1].node = Operand(ast, new[2])
    BY <1>1, <2>1 DEF Leads
  <2>3. 1 \in 1..Len(new) /\ 2 \in 1..Len(new)
    BY <1>3, <2>2
  <2>4. todo'[1] = new[1] /\ todo'[2] = new[i]
    BY <1>3, <2>2, <2>3
  <2>5. new[i].step \notin {"right", "combine"}
    BY DEF Other
  <2> QED
    BY <1>5, <2>2, <2>4, <2>5 DEF Expects
<1>6. ASSUME NEW S, NEW V, NEW i \in DOMAIN new, Expects(S, ast, new[i])
      PROVE  Placed(S, V, ast, todo', currentRegisterCt', i)
  <2> DEFINE us == todo'
             d == currentRegisterCt'
  <2>1. /\ i = 2 /\ us[1].step = "code" /\ us[1].node = Operand(ast, us[2])
        /\ us[2].step \notin {"right", "combine"} /\ S[Operand(ast, us[2])]
    BY <1>5, <1>6
  <2> HIDE DEF us, d
  <2>2. Beneath(S, V, ast, us[2], us[1])
    BY <2>1 DEF Beneath, Summing
  <2>3. \A q \in 1..(i - 1) : q = 1
    BY <2>1
  <2>4. \A q \in 1..(i - 1) : Beneath(S, V, ast, us[i], us[q]) /\ (us[q].step = "code" => q = 1)
    BY <2>1, <2>2, <2>3
  <2>5. i > 1 => us[i - 1].node = Operand(ast, us[i])
    <3>1. i - 1 = 1
      BY <2>1
    <3> QED
      BY <2>1, <3>1
  <2>6. Placed(S, V, ast, us, d, i)
    BY <2>1, <2>4, <2>5 DEF Placed
  <2> QED
    BY <2>6 DEF us, d
<1>7. PlaceInv'
  BY <1>1, <1>4, <1>6, PlaceStep
<1>8. ASSUME NEW S, NEW f, NEW i \in DOMAIN new, Expects(S, ast, new[i])
      PROVE  Held(f, ast, todo', currentRegisterCt', register', Ran(text').regs, i)
  <2>1. i = 2 /\ todo'[i].step \notin {"right", "combine"}
    BY <1>5, <1>8
  <2> QED
    BY <2>1 DEF Held
<1>9. HeldInv'
  BY <1>1, <1>4, <1>8, HeldStep
<1> QED
  BY <1>7, <1>9

-------------------------------------------------------------------------------
(***************************************************************************)
(* The steps of sums.                                                      *)
(***************************************************************************)
\* What a step of the walk does to the visits under way.
LEMMA GoesOn ==
  ASSUME WalkInv, NEW new, Goes(new)
  PROVE  /\ Spliced(todo', new, todo) /\ 1 \in DOMAIN todo /\ Head(todo) = todo[1]
         /\ new \in Seq(Tasks(ast)) /\ Continue(new) /\ Stays /\ todo # <<>> /\ ast' = ast
         /\ DOMAIN todo = 1..Len(todo) /\ Len(todo) \in Nat /\ phase = "generating"
         /\ \A i \in DOMAIN todo : todo[i] \in Tasks(ast) /\ todo[i].saved \in Int
         /\ currentRegisterCt \in Int
<1>1. /\ new \in Seq(Tasks(ast)) /\ Continue(new) /\ Stays /\ todo # <<>> /\ phase = "generating"
  BY DEF Goes
<1>2. todo \in Seq(Tasks(ast)) /\ currentRegisterCt \in Int
  BY DEF WalkInv, GenTypeOK, Tasks
<1>3. Spliced(todo', new, todo) /\ 1 \in DOMAIN todo /\ Head(todo) = todo[1]
  BY <1>1, <1>2, SplicedTasks DEF Continue
<1>4. DOMAIN todo = 1..Len(todo) /\ Len(todo) \in Nat
  BY <1>3 DEF Spliced
<1>5. \A i \in DOMAIN todo : todo[i] \in Tasks(ast)
  BY <1>2, <1>4, ElementOfSeq
<1>6. \A t \in Tasks(ast) : t.saved \in Int
  BY DEF Tasks
<1> QED
  BY <1>1, <1>2, <1>3, <1>4, <1>5, <1>6 DEF Stays, vars

LEMMA ReturnPlace ==
  ASSUME WalkInv, PlaceInv, Goes(<<>>), currentRegisterCt' = Back(todo, currentRegisterCt, 2)
  PROVE  PlaceInv'
<1> DEFINE new == <<>>
<1>1. Goes(new) /\ Len(new) = 0 /\ DOMAIN new = {}
  OBVIOUS
<1> HIDE DEF new
<1>2. /\ Spliced(todo', new, todo) /\ DOMAIN todo = 1..Len(todo) /\ Len(todo) \in Nat
      /\ new \in Seq(Tasks(ast)) /\ Continue(new) /\ Stays /\ todo # <<>>
  BY <1>1, GoesOn
<1>3. \A i \in 2..Len(todo) : todo'[(Len(new) + i) - 1] = todo[i]
  BY <1>2 DEF Spliced
<1>4. \A i \in 2..Len(todo) : todo'[i - 1] = todo[i]
  <2>1. \A i \in 2..Len(todo) : (Len(new) + i) - 1 = i - 1
    BY <1>1
  <2> QED
    BY <1>3, <2>1
<1>5. ASSUME NEW S, NEW V, NEW k \in DOMAIN todo, k # 1,
             Placed(S, V, ast, todo, currentRegisterCt, k)
      PROVE  Placed(S, V, ast, todo', currentRegisterCt', (Len(new) + k) - 1)
  <2>1. k \in Nat /\ k >= 2 /\ (Len(new) + k) - 1 = k - 1
    BY <1>1, <1>2, <1>5
  <2>2. \A i \in 2..k : todo'[i - 1] = todo[i]
    BY <1>2, <1>4
  <2> QED
    BY <1>5, <2>1, <2>2, PlacedReturns
<1> QED
  BY <1>1, <1>2, <1>5, PlaceStep

\* The step recorded that the value val of e is in the register d, and changed no
\* register below d and none that was recorded for another object.
Computed(m, n, reg, now, e, d, val) ==
  /\ Beyond(m, n, d) /\ Recorded(now, n.regs, e, d, val)
  /\ \A x \in DOMAIN reg : x # e => x \in DOMAIN now /\ now[x] = reg[x]

\* The step returns with the value of the node, if this is a sum.
Valued ==
  \A S, V, f : Shaped(S, V) /\ Means(Ran(text').mem, f) /\ S[Head(todo).node] =>
    Computed(Ran(text), Ran(text'), register, register', Head(todo).node, currentRegisterCt',
             f[Head(todo).node])

LEMMA ReturnHeld ==
  ASSUME WalkInv, PlaceInv, HeldInv, Goes(<<>>),
         currentRegisterCt' = Back(todo, currentRegisterCt, 2),
         StraightLine' => StraightLine /\ Valued
  PROVE  HeldInv'
<1> DEFINE new == <<>>
<1>1. Goes(new) /\ Len(new) = 0 /\ DOMAIN new = {}
  OBVIOUS
<1> HIDE DEF new
<1>2. /\ Spliced(todo', new, todo) /\ DOMAIN todo = 1..Len(todo) /\ Len(todo) \in Nat
      /\ new \in Seq(Tasks(ast)) /\ Continue(new) /\ Stays /\ todo # <<>> /\ Head(todo) = todo[1]
      /\ \A i \in DOMAIN todo : todo[i].saved \in Int
      /\ currentRegisterCt \in Int
  BY <1>1, GoesOn
<1>3. \A i \in 2..Len(todo) : todo'[(Len(new) + i) - 1] = todo[i]
  BY <1>2 DEF Spliced
<1>4. ASSUME StraightLine', NEW S, NEW V, NEW f, Shaped(S, V), Means(Ran(text').mem, f),
             NEW k \in DOMAIN todo, k # 1, Expects(S, ast, todo[k]),
             Placed(S, V, ast, todo, currentRegisterCt, k)
      PROVE  Held(f, ast, todo', currentRegisterCt', register', Ran(text').regs, (Len(new) + k) - 1)
  <2> DEFINE m == Ran(text)
             n == Ran(text')
             d == currentRegisterCt'
             e == todo[1].node
             p == k - 1
  <2>1. /\ k \in 2..Len(todo) /\ (Len(new) + k) - 1 = p /\ k > 1 /\ p \in Nat /\ 1 \in 1..(k - 1)
        /\ k \in Nat /\ k >= 2 /\ 2 - 1 = 1 /\ 2 # 1
    BY <1>1, <1>2, <1>4
  <2>2. todo'[p] = todo[k]
    BY <1>3, <2>1
  <2>3. Beneath(S, V, ast, todo[k], todo[1])
    BY <1>4, <2>1 DEF Placed
  <2>4. S[e]
    BY <2>3 DEF Beneath, Summing
  <2>5. Computed(m, n, register, register', e, d, f[e])
    BY <1>2, <1>4, <2>4 DEF Valued
  <2>6. n.mem = m.mem
    BY <2>5 DEF Computed, Beyond
  <2>7. Means(m.mem, f)
    BY <1>4, <2>6
  <2>8. Held(f, ast, todo, currentRegisterCt, register, m.regs, k)
    BY <1>4, <2>7 DEF HeldInv
  <2>9. ASSUME todo[k].step = "combine"
        PROVE  Recorded(register', n.regs, Left(ast, todo[k]), todo[k].saved, f[Left(ast, todo[k])])
    <3> DEFINE x == Left(ast, todo[k])
               s == todo[k].saved
    <3>1. Recorded(register, m.regs, x, s, f[x])
      BY <2>8, <2>9 DEF Held
    <3>2. x # e
      BY <2>3, <2>9 DEF Beneath, Apart
    <3>3. d > s
      <4>1. currentRegisterCt > s
        BY <1>4, <2>9 DEF Placed
      <4>2. todo[1].step # "code" => todo[1].saved > s
        BY <2>3, <2>9 DEF Beneath
      <4>3. d = currentRegisterCt \/ (todo[1].step # "code" /\ d = todo[1].saved)
        BY <2>1 DEF Back
      <4> QED
        BY <4>1, <4>2, <4>3
    <3>4. d \in Int
      <4>1. 1 \in DOMAIN todo
        BY <1>2, <2>1
      <4> QED
        BY <1>2, <2>1, <4>1 DEF Back
    <3> HIDE DEF x, s, d, m, n, e
    <3>5. s \in 0..35 /\ s \in 0..31 /\ s < d
      BY <3>1, <3>3, <3>4 DEF Recorded
    <3>6. n.regs[s] = m.regs[s]
      BY <2>5, <3>5 DEF Computed, Beyond
    <3>7. x \in DOMAIN register /\ register[x] = s /\ m.regs[s] = f[x]
      BY <3>1 DEF Recorded
    <3>8. x \in DOMAIN register' /\ register'[x] = register[x]
      BY <2>5, <3>2, <3>7 DEF Computed
    <3>9. Recorded(register', n.regs, x, s, f[x])
      BY <3>5, <3>6, <3>7, <3>8 DEF Recorded
    <3> QED
      BY <3>9 DEF x, s
  <2>10. ASSUME p = 1 PROVE Recorded(register', n.regs, Operand(ast, todo[k]), d, f[Operand(ast, todo[k])])
    <3>1. k - 1 = 1
      BY <2>10
    <3>2. todo[k - 1].node = Operand(ast, todo[k])
      BY <1>4, <2>1 DEF Placed
    <3>3. e = Operand(ast, todo[k])
      BY <3>1, <3>2
    <3>4. Recorded(register', n.regs, e, d, f[e])
      BY <2>5 DEF Computed
    <3> QED
      BY <3>3, <3>4
  <2> HIDE DEF p, n, d, e, m
  <2>11. Held(f, ast, todo', d, register', n.regs, p)
    BY <2>2, <2>9, <2>10 DEF Held
  <2> QED
    BY <2>1, <2>11 DEF n, d
<1>5. DOMAIN new = {}
  BY <1>1
<1> QED
  BY <1>2, <1>4, <1>5, HeldStep

\* What is accepted after a step was accepted before, and so is what was emitted.
LEMMA EmittedStraight ==
  ASSUME IsText(text), NEW lines, IsText(lines), Emit(lines), StraightLine'
  PROVE  StraightLine /\ Accepted(lines)
<1>1. text' = text \o lines
  BY DEF Emit
<1>2. Extended(text', text, lines)
  BY <1>1, TextGrows
<1> DEFINE tx == text'
<1>3. Accepted(tx) /\ \A k \in DOMAIN tx : tx[k][1] \notin {"breq", "rjmp", "brne", "jmp"}
  BY DEF StraightLine
<1> HIDE DEF tx
<1>4. Extended(tx, text, lines)
  BY <1>2 DEF tx
<1>5. Accepted(text)
  BY <1>3, <1>4 DEF Extended, Accepted
<1>6. \A k \in DOMAIN text : text[k][1] \notin {"breq", "rjmp", "brne", "jmp"}
  BY <1>3, <1>4 DEF Extended
<1>7. Accepted(lines)
  BY <1>3, <1>4 DEF Extended, Accepted
<1> QED
  BY <1>5, <1>6, <1>7 DEF StraightLine

LEMMA OneAccepted ==
  ASSUME NEW i, Accepted(<<i>>)
  PROVE  i[1] # "bad" /\ Registers(i) \subseteq 0..31
<1> DEFINE lines == <<i>>
<1>1. 1 \in DOMAIN lines /\ lines[1] = i
  OBVIOUS
<1> HIDE DEF lines
<1>2. Accepted(lines)
  BY DEF lines
<1> QED
  BY <1>1, <1>2 DEF Accepted

LEMMA SetRegisterIs ==
  ASSUME NEW e, NEW r, SetRegister(e, r)
  PROVE  /\ e \in DOMAIN register' /\ register'[e] = r
         /\ \A x \in DOMAIN register : x # e => x \in DOMAIN register' /\ register'[x] = register[x]
BY DEF SetRegister

\* The two operands of the operation that goes on now.
LEMMA OperandsReady ==
  ASSUME WalkInv, KindInv, PlaceInv, HeldInv, StraightLine, Doing("combine"),
         NEW S, NEW V, NEW f, Shaped(S, V), Means(Ran(text).mem, f), S[Current]
  PROVE  /\ Current \in DOMAIN ast /\ ast[Current].op = "PLUS"
         /\ Recorded(register, Ran(text).regs, Kid(1), Saved, f[Kid(1)])
         /\ Recorded(register, Ran(text).regs, Kid(2), currentRegisterCt, f[Kid(2)])
         /\ f[Current] = <<"PLUS", f[Kid(1)], f[Kid(2)]>>
         /\ Saved < currentRegisterCt
<1>1. /\ phase = "generating" /\ todo # <<>> /\ Head(todo).step = "combine"
      /\ Current = Head(todo).node /\ Saved = Head(todo).saved
      /\ Suits(ast, Head(todo)) /\ Kinds(ast, Head(todo))
  <2>1. \A step : Doing(step) =>
          /\ phase = "generating" /\ todo # <<>> /\ Head(todo).step = step
          /\ Current = Head(todo).node /\ Saved = Head(todo).saved
          /\ Suits(ast, Head(todo)) /\ Kinds(ast, Head(todo))
    BY HeadKinds
  <2> QED
    BY <2>1
<1>2. 1 \in DOMAIN todo /\ Head(todo) = todo[1]
  BY <1>1 DEF WalkInv, GenTypeOK
<1>3. Current \in DOMAIN ast /\ ast[Current].kind = "BINARY"
  BY <1>1 DEF Suits, Kinds
<1>4. Expects(S, ast, todo[1])
  BY <1>1, <1>2 DEF Expects, Holding
<1>5. Placed(S, V, ast, todo, currentRegisterCt, 1)
  BY <1>2, <1>4 DEF PlaceInv
<1>6. Held(f, ast, todo, currentRegisterCt, register, Ran(text).regs, 1)
  BY <1>2, <1>4 DEF HeldInv
<1>7. Left(ast, todo[1]) = Kid(1) /\ Operand(ast, todo[1]) = Kid(2)
  BY <1>1, <1>2 DEF Left, Operand, Kid
<1>8. /\ Recorded(register, Ran(text).regs, Kid(1), Saved, f[Kid(1)])
      /\ Recorded(register, Ran(text).regs, Kid(2), currentRegisterCt, f[Kid(2)])
  BY <1>1, <1>2, <1>6, <1>7 DEF Held
<1>9. ast[Current].op = "PLUS"
  BY <1>3 DEF Shaped
<1>10. f[Current] = <<"PLUS", f[Kid(1)], f[Kid(2)]>>
  BY <1>3, <1>9 DEF Means, Kid
<1>11. Saved < currentRegisterCt
  <2>1. currentRegisterCt > Saved
    BY <1>1, <1>2, <1>5 DEF Placed
  <2>2. currentRegisterCt \in Int /\ Saved \in Int
    BY <1>1, CurrentTask
  <2> QED
    BY <2>1, <2>2
<1> QED
  BY <1>3, <1>8, <1>9, <1>10, <1>11

\* What the addition computes, if it is one of a sum: it writes the register where the
\* operation began.
Adds(val) ==
  /\ SameBut(Ran(text), Ran(text'), {Saved}) /\ Ran(text').regs[Saved] = val
  /\ SetRegister(Current, Saved) /\ Saved \in 0..31

LEMMA CombineAdds ==
  ASSUME WalkInv, KindInv, PlaceInv, HeldInv, IsText(text), BinaryCombine, StraightLine',
         NEW S, NEW V, NEW f, Shaped(S, V), Means(Ran(text').mem, f), S[Current]
  PROVE  Adds(f[Current])
<1>1. Doing("combine") /\ Head(todo).node = Current
  BY DEF BinaryCombine, Current
<1>2. PICK i : Emit(<<i>>)
  <2>1. \/ \E what : Emit(<<Bad(what)>>)
        \/ \E a, b : Emit(<<<<"add", a, b>>>>) \/ Emit(<<<<"cp", a, b>>>>)
    BY DEF BinaryCombine
  <2> QED
    BY <2>1
<1>3. IsText(<<i>>)
  BY OneLine
<1>4. StraightLine
  BY <1>2, <1>3, EmittedStraight
<1>5. Shaped(S, V) /\ Means(Ran(text').mem, f) /\ S[Current]
  OBVIOUS
<1> QED
  <2> DEFINE left == RegisterOf(Kid(1))
             right == RegisterOf(Kid(2))
             m == Ran(text)
             n == Ran(text')
  <2>0. Current \in DOMAIN ast /\ ast[Current].op = "PLUS"
    <3>1. \A step : Doing(step) => Suits(ast, Head(todo)) /\ Kinds(ast, Head(todo)) /\ Head(todo).step = step
      BY HeadKinds
    <3>2. Current \in DOMAIN ast /\ ast[Current].kind = "BINARY"
      BY <1>1, <3>1 DEF Suits, Kinds
    <3> QED
      BY <1>5, <3>2 DEF Shaped
  <2>1. Emit(<<<<"add", left, right>>>>) /\ SetRegister(Current, left)
    BY <2>0 DEF BinaryCombine
  <2>2. n = Execute(m, <<"add", left, right>>) /\ IsMachine(m)
    <3> DEFINE line == <<"add", left, right>>
    <3>1. text' = text \o <<line>>
      BY <2>1 DEF Emit
    <3> HIDE DEF line
    <3>2. n = Execute(m, line)
      BY <3>1, RanOne
    <3> QED
      BY <3>2, RanMachine DEF line
  <2> HIDE DEF left, right, m, n
  <2>3. n.mem = m.mem
    <3>1. left \in 0..35 => SameBut(m, n, {left})
      BY <2>2, ExecuteAdd
    <3>2. left \in 0..31
      <4> DEFINE line == <<"add", left, right>>
      <4>1. line[1] = "add" /\ line[2] = left /\ line[3] = right
        OBVIOUS
      <4>2. Emit(<<line>>)
        BY <2>1
      <4> HIDE DEF line
      <4>3. IsText(<<line>>)
        BY OneLine
      <4>4. Registers(line) \subseteq 0..31
        BY <4>2, <4>3, EmittedStraight, OneAccepted
      <4> QED
        BY <4>1, <4>4 DEF Registers
    <3>3. left \in 0..35
      BY <3>2
    <3> QED
      BY <3>1, <3>3 DEF SameBut
  <2>4. Means(m.mem, f)
    BY <1>5, <2>3 DEF n
  <2>5. /\ Recorded(register, m.regs, Kid(1), Saved, f[Kid(1)])
        /\ Recorded(register, m.regs, Kid(2), currentRegisterCt, f[Kid(2)])
        /\ f[Current] = <<"PLUS", f[Kid(1)], f[Kid(2)]>>
    BY <1>1, <1>4, <1>5, <2>4, OperandsReady DEF m
  <2>6. /\ left = Saved /\ right = currentRegisterCt /\ Saved \in 0..31
        /\ m.regs[left] = f[Kid(1)] /\ m.regs[right] = f[Kid(2)]
    BY <2>5 DEF Recorded, RegisterOf, left, right
  <2>7. SameBut(m, n, {left}) /\ n.regs[left] = <<"PLUS", m.regs[left], m.regs[right]>>
    <3>1. left \in 0..35
      BY <2>6
    <3> QED
      BY <2>2, <3>1, ExecuteAdd
  <2>8. n.regs[Saved] = f[Current]
    BY <2>5, <2>6, <2>7
  <2>9. SameBut(m, n, {Saved}) /\ SetRegister(Current, Saved) /\ Saved \in 0..31
    BY <2>1, <2>6, <2>7
  <2> QED
    BY <2>8, <2>9 DEF m, n, Adds

LEMMA CombineValued ==
  ASSUME WalkInv, KindInv, PlaceInv, HeldInv, IsText(text), BinaryCombine, StraightLine'
  PROVE  StraightLine /\ Valued
<1>1. Doing("combine") /\ currentRegisterCt' = Saved /\ Head(todo).node = Current
  BY DEF BinaryCombine, MoveTo, Current
<1>2. PICK i : Emit(<<i>>)
  <2>1. \/ \E what : Emit(<<Bad(what)>>)
        \/ \E a, b : Emit(<<<<"add", a, b>>>>) \/ Emit(<<<<"cp", a, b>>>>)
    BY DEF BinaryCombine
  <2> QED
    BY <2>1
<1>3. IsText(<<i>>)
  BY OneLine
<1>4. StraightLine
  BY <1>2, <1>3, EmittedStraight
<1>5. ASSUME NEW S, NEW V, NEW f, Shaped(S, V), Means(Ran(text').mem, f), S[Current]
      PROVE  Computed(Ran(text), Ran(text'), register, register', Current, Saved, f[Current])
  <2> DEFINE m == Ran(text)
             n == Ran(text')
  <2>1. /\ SameBut(m, n, {Saved}) /\ n.regs[Saved] = f[Current]
        /\ SetRegister(Current, Saved) /\ Saved \in 0..31
    BY <1>5, CombineAdds DEF Adds
  <2> HIDE DEF m, n
  <2>2. Beyond(m, n, Saved)
    <3>1. \A r \in 0..35 : r < Saved => r \in (0..35) \ {Saved}
      BY <2>1
    <3> QED
      BY <2>1, <3>1 DEF SameBut, Beyond
  <2>3. /\ Current \in DOMAIN register' /\ register'[Current] = Saved
        /\ \A x \in DOMAIN register : x # Current => x \in DOMAIN register' /\ register'[x] = register[x]
    BY <2>1, SetRegisterIs
  <2>4. Recorded(register', n.regs, Current, Saved, f[Current])
    BY <2>1, <2>3 DEF Recorded
  <2>5. Computed(m, n, register, register', Current, Saved, f[Current])
    BY <2>2, <2>3, <2>4 DEF Computed
  <2> QED
    BY <2>5 DEF m, n
<1> QED
  BY <1>1, <1>4, <1>5 DEF Valued

\* Instructions that load registers from c on, and val into c, if they are accepted.
LoadsFrom(mem, lines, c, val) ==
  /\ IsText(lines) /\ Len(lines) # 0 /\ lines[1][2] = c
  /\ \A k \in DOMAIN lines :
       /\ lines[k][1] \in Loads /\ lines[k][2] \in Int /\ lines[k][2] >= c
       /\ lines[k][2] = c => Loaded(mem, lines[k]) = val

LEMMA LoadsFromLoads ==
  ASSUME NEW mem, NEW lines, NEW c, NEW val, LoadsFrom(mem, lines, c, val), Accepted(lines)
  PROVE  Loading(mem, lines, c, val) /\ c \in 0..31
<1>1. ASSUME NEW k \in DOMAIN lines PROVE lines[k][2] \in 0..31
  <2>1. lines[k][1] \in Loads /\ Registers(lines[k]) \subseteq 0..31
    BY DEF LoadsFrom, Accepted
  <2>2. Registers(lines[k]) = {lines[k][2]}
    BY <2>1 DEF Loads, Registers
  <2> QED
    BY <2>1, <2>2
<1>2. 1 \in DOMAIN lines
  <2>1. Len(lines) \in Nat /\ DOMAIN lines = 1..Len(lines) /\ Len(lines) # 0
    BY LenProperties DEF LoadsFrom, IsText
  <2> QED
    BY <2>1
<1>3. \A r \in 0..31 : r \in 0..35
  OBVIOUS
<1> QED
  BY <1>1, <1>2, <1>3 DEF LoadsFrom, Loading

LEMMA LoadsFromConcat ==
  ASSUME NEW mem, NEW c, NEW val, NEW lines, NEW more,
         LoadsFrom(mem, lines, c, val), LoadsFrom(mem, more, c, val)
  PROVE  LoadsFrom(mem, lines \o more, c, val)
<1> DEFINE s == lines \o more
<1>1. IsText(s) /\ Extended(s, lines, more)
  BY TextGrows DEF LoadsFrom
<1>2. Len(lines) \in Nat /\ DOMAIN lines = 1..Len(lines) /\ Len(lines) # 0
  BY LenProperties DEF LoadsFrom, IsText
<1> HIDE DEF s
<1>3. Len(s) \in Nat /\ DOMAIN s = 1..Len(s)
  BY <1>1, LenProperties DEF IsText
<1>4. 1 \in DOMAIN lines /\ 1 \in DOMAIN s /\ s[1] = lines[1]
  BY <1>1, <1>2 DEF Extended
<1>5. Len(s) # 0
  BY <1>3, <1>4
<1>6. ASSUME NEW k \in DOMAIN s
      PROVE  /\ s[k][1] \in Loads /\ s[k][2] \in Int /\ s[k][2] >= c
             /\ s[k][2] = c => Loaded(mem, s[k]) = val
  <2>1. (\E i \in DOMAIN lines : s[k] = lines[i]) \/ (\E i \in DOMAIN more : s[k] = more[i])
    BY <1>1 DEF Extended
  <2> QED
    BY <2>1 DEF LoadsFrom
<1>7. LoadsFrom(mem, s, c, val)
  BY <1>1, <1>4, <1>5, <1>6 DEF LoadsFrom
<1> QED
  BY <1>7 DEF s

LEMMA LoadsFromMap ==
  ASSUME NEW mem, NEW c \in Int, NEW val, NEW n \in Nat, n # 0, NEW lines, lines = [i \in 1..n |-> lines[i]],
         \A i \in 1..n : lines[i][1] \in Loads /\ lines[i][2] = (c + i) - 1, Loaded(mem, lines[1]) = val
  PROVE  LoadsFrom(mem, lines, c, val)
<1> DEFINE S == {lines[i] : i \in 1..n}
<1>1. lines \in [1..n -> S]
  OBVIOUS
<1>2. lines \in Seq(S) /\ DOMAIN lines = 1..n
  BY <1>1, SeqDef
<1> HIDE DEF S
<1>3. IsText(lines) /\ Len(lines) \in Nat /\ DOMAIN lines = 1..Len(lines)
  BY <1>2, TextIs, LenProperties
<1>4. 1 \in 1..n
  OBVIOUS
<1>5. Len(lines) # 0
  BY <1>2, <1>3, <1>4
<1>6. (c + 1) - 1 = c
  OBVIOUS
<1>7. ASSUME NEW i \in 1..n
      PROVE  (c + i) - 1 \in Int /\ (c + i) - 1 >= c /\ ((c + i) - 1 = c => i = 1)
  OBVIOUS
<1>8. ASSUME NEW i \in DOMAIN lines
      PROVE  /\ lines[i][1] \in Loads /\ lines[i][2] \in Int /\ lines[i][2] >= c
             /\ lines[i][2] = c => Loaded(mem, lines[i]) = val
  BY <1>2, <1>7
<1>9. lines[1][2] = c
  BY <1>4, <1>6
<1> QED
  BY <1>3, <1>5, <1>8, <1>9 DEF LoadsFrom

\* A leaf is loaded.
LEMMA LoadsValued ==
  ASSUME WalkInv, IsText(text), StraightLine', NEW lines, Emit(lines), NEW e, e = Head(todo).node,
         phase = "generating", todo # <<>>, currentRegisterCt' = currentRegisterCt, SetRegister(e, currentRegisterCt),
         NEW val, LoadsFrom(Ran(text).mem, lines, currentRegisterCt, val),
         \A f : Means(Ran(text).mem, f) => f[e] = val
  PROVE  StraightLine /\ Valued
<1> DEFINE c == currentRegisterCt
           m == Ran(text)
           n == Ran(text')
<1>1. c \in Int
  BY DEF WalkInv, GenTypeOK
<1>2. IsText(lines) /\ Len(lines) # 0
  BY DEF LoadsFrom
<1>3. StraightLine /\ Accepted(lines)
  BY <1>2, EmittedStraight
<1>4. Loading(m.mem, lines, c, val) /\ c \in 0..31
  BY <1>3, LoadsFromLoads
<1>5. Beyond(m, n, c) /\ n.regs[c] = val
  <2>1. n = Ran(text \o lines)
    BY DEF Emit
  <2>2. Beyond(m, Ran(text \o lines), c) /\ Ran(text \o lines).regs[c] = val
    BY <1>1, <1>2, <1>4, RanLoads
  <2> QED
    BY <2>1, <2>2
<1>6. /\ e \in DOMAIN register' /\ register'[e] = c
      /\ \A x \in DOMAIN register : x # e => x \in DOMAIN register' /\ register'[x] = register[x]
  BY SetRegisterIs
<1>7. currentRegisterCt' = c
  OBVIOUS
<1>8. \A f : Means(m.mem, f) => f[e] = val
  OBVIOUS
<1> HIDE DEF c, m, n
<1>9. Computed(m, n, register, register', e, c, val)
  BY <1>4, <1>5, <1>6 DEF Computed, Recorded
<1>10. n.mem = m.mem
  BY <1>5 DEF Beyond
<1>11. ASSUME NEW f, Means(n.mem, f) PROVE Computed(m, n, register, register', e, c, f[e])
  BY <1>8, <1>9, <1>10, <1>11
<1>12. Valued
  BY <1>7, <1>11 DEF Valued, m, n
<1> QED
  BY <1>3, <1>12

LEMMA VarValued ==
  ASSUME TypeInv, WalkInv, IsText(text), VisitVAR, StraightLine'
  PROVE  StraightLine /\ Valued
<1> DEFINE n == Width(TagOf(Current))
           lines == [i \in 1..n |-> <<"lds", R(i - 1), Current, IF i = 4 THEN 4 ELSE i - 1>>]
           mem == Ran(text).mem
           c == currentRegisterCt
           val == mem[<<Current, 0>>]
<1>1. Doing("code") /\ Current \in Vars /\ currentRegisterCt' = c
  BY DEF VisitVAR
<1>2. phase = "generating" /\ todo # <<>> /\ Current = Head(todo).node /\ c \in Int
  BY <1>1, CutVisit
<1>3. n \in Nat /\ n # 0
  BY DEF Width
<1>4. /\ lines = [i \in 1..n |-> lines[i]]
      /\ \A i \in 1..n : lines[i] = <<"lds", c + (i - 1), Current, IF i = 4 THEN 4 ELSE i - 1>>
  BY DEF R
<1>5. CASE Emit(lines) /\ SetRegister(Current, c)
  <2>1. \A i \in 1..n : c + (i - 1) = (c + i) - 1
    BY <1>2, <1>3
  <2> HIDE DEF n, lines, mem, c
  <2>2. \A i \in 1..n : lines[i][1] \in Loads /\ lines[i][2] = (c + i) - 1
    BY <1>4, <2>1 DEF Loads
  <2>3. Loaded(mem, lines[1]) = val
    <3>1. 1 \in 1..n /\ 1 # 4 /\ 1 - 1 = 0
      BY <1>3
    <3>2. lines[1][1] = "lds" /\ lines[1][3] = Current /\ lines[1][4] = 0
      BY <1>4, <3>1
    <3> QED
      BY <3>2 DEF Loaded
  <2>4. LoadsFrom(mem, lines, c, val)
    <3> HIDE DEF val
    <3> QED
      BY <1>2, <1>3, <1>4, <2>2, <2>3, LoadsFromMap
  <2>5. ASSUME NEW f, Means(mem, f) PROVE f[Current] = val
    BY <1>1, <2>5 DEF Means
  <2>6. LoadsFrom(Ran(text).mem, lines, currentRegisterCt, val) /\ \A f : Means(Ran(text).mem, f) => f[Current] = val
    BY <2>4, <2>5 DEF mem, c
  <2>7. SetRegister(Current, currentRegisterCt) /\ currentRegisterCt' = currentRegisterCt
    BY <1>1, <1>5 DEF c
  <2> HIDE DEF val
  <2> QED
    BY <1>2, <1>5, <2>6, <2>7, LoadsValued
<1>6. CASE Emit(<<Bad("VAR")>>)
  <2> DEFINE i == Bad("VAR")
  <2>1. i[1] = "bad"
    BY DEF Bad
  <2> HIDE DEF i
  <2>2. Emit(<<i>>) /\ IsText(<<i>>)
    BY <1>6, OneLine DEF i
  <2> QED
    BY <2>1, <2>2, EmittedStraight, OneAccepted
<1>7. (Emit(lines) /\ SetRegister(Current, c)) \/ Emit(<<Bad("VAR")>>)
  BY DEF VisitVAR
<1> QED
  BY <1>5, <1>6, <1>7

LEMMA ConstantValued ==
  ASSUME TypeInv, WalkInv, IsText(text), VisitCONSTANT, StraightLine'
  PROVE  StraightLine /\ Valued
<1> DEFINE n == Current
           mem == Ran(text).mem
           c == currentRegisterCt
           addr == <<<<"ldiaddr", R(0), n>>, <<"ldiaddr", R(1), n>>>>
           lit == <<"lit", Literal(n), 0>>
           string == TagOf(n) = "STRING"
           bytes(last) == LoadBytes(n, 0, last)
<1>1. DoingKind("code", {"CONSTANT"}) /\ currentRegisterCt' = c
  BY DEF VisitCONSTANT
<1>2. /\ phase = "generating" /\ todo # <<>> /\ n \in DOMAIN ast /\ ast[n].kind \in {"CONSTANT"}
      /\ c \in Int
  BY <1>1, VisitedNode
<1>3. n = Head(todo).node
  BY <1>1, CutVisit DEF DoingKind
<1>4. ASSUME NEW lines, Emit(lines), NEW val, LoadsFrom(mem, lines, c, val), SetRegister(n, c),
             val = IF string THEN <<"address", n>> ELSE lit
      PROVE  StraightLine /\ Valued
  <2>1. \A f : Means(mem, f) => f[n] = val
    BY <1>2, <1>4 DEF Means
  <2> QED
    BY <1>1, <1>2, <1>3, <1>4, <2>1, LoadsValued
<1>5. ASSUME NEW last \in Nat PROVE LoadsFrom(mem, bytes(last), c, lit)
  <2> DEFINE lines == bytes(last)
             k == last + 1
  <2>1. k \in Nat /\ k # 0 /\ (last - 0) + 1 = k
    OBVIOUS
  <2>2. /\ lines = [i \in 1..k |-> lines[i]]
        /\ \A i \in 1..k : lines[i] = <<"ldi", c + ((0 + i) - 1), Literal(n), (0 + i) - 1>>
    BY <2>1 DEF LoadBytes, R
  <2> HIDE DEF lines, k, lit, mem, c, n
  <2>3. \A i \in 1..k : c + ((0 + i) - 1) = (c + i) - 1
    BY <1>2, <2>1
  <2>4. \A i \in 1..k : lines[i][1] \in Loads /\ lines[i][2] = (c + i) - 1
    BY <2>2, <2>3 DEF Loads
  <2>5. Loaded(mem, lines[1]) = lit
    <3>1. 1 \in 1..k /\ (0 + 1) - 1 = 0
      BY <2>1
    <3>2. lines[1][1] = "ldi" /\ lines[1][3] = Literal(n) /\ lines[1][4] = 0
      BY <2>2, <3>1
    <3> QED
      BY <3>2 DEF Loaded, lit
  <2>6. LoadsFrom(mem, lines, c, lit)
    BY <1>2, <2>1, <2>2, <2>4, <2>5, LoadsFromMap
  <2> QED
    BY <2>6 DEF lines
<1>6. LoadsFrom(mem, addr, c, <<"address", n>>)
  <2> DEFINE val == <<"address", n>>
  <2>1. /\ addr = [i \in 1..2 |-> addr[i]] /\ addr[1] = <<"ldiaddr", c + 0, n>>
        /\ addr[2] = <<"ldiaddr", c + 1, n>>
    BY DEF R
  <2>2. Loaded(mem, addr[1]) = val
    BY <2>1 DEF Loaded
  <2> HIDE DEF addr, val, mem, c
  <2>3. (c + 1) - 1 = c + 0 /\ (c + 2) - 1 = c + 1 /\ \A i \in 1..2 : i = 1 \/ i = 2
    BY <1>2
  <2>4. \A i \in 1..2 : addr[i][1] \in Loads /\ addr[i][2] = (c + i) - 1
    BY <2>1, <2>3 DEF Loads
  <2>5. 2 \in Nat /\ 2 # 0
    OBVIOUS
  <2>6. LoadsFrom(mem, addr, c, val)
    BY <1>2, <2>1, <2>2, <2>4, <2>5, LoadsFromMap
  <2> QED
    BY <2>6 DEF val
<1>7. ASSUME NEW what, Emit(<<Bad(what)>>) PROVE FALSE
  <2> DEFINE i == Bad(what)
  <2>1. i[1] = "bad"
    BY DEF Bad
  <2> HIDE DEF i
  <2>2. Emit(<<i>>) /\ IsText(<<i>>)
    BY <1>7, OneLine DEF i
  <2> QED
    BY <2>1, <2>2, EmittedStraight, OneAccepted
<1>8. \/ \E what : Emit(<<Bad(what)>>)
      \/ string /\ Emit(addr) /\ SetRegister(n, c)
      \/ /\ ~string /\ SetRegister(n, c)
         /\ Emit(bytes(0)) \/ Emit(bytes(1) \o bytes(3)) \/ Emit(bytes(3))
  BY DEF VisitCONSTANT, Byte1, Byte2
<1>9. CASE string /\ Emit(addr) /\ SetRegister(n, c)
  <2>1. <<"address", n>> = IF string THEN <<"address", n>> ELSE lit
    BY <1>9
  <2> HIDE DEF addr, mem, c, n, string, lit
  <2> QED
    BY <1>4, <1>6, <1>9, <2>1
<1>10. CASE /\ ~string /\ SetRegister(n, c)
            /\ Emit(bytes(0)) \/ Emit(bytes(1) \o bytes(3)) \/ Emit(bytes(3))
  <2>1. lit = IF string THEN <<"address", n>> ELSE lit
    BY <1>10
  <2>2. /\ LoadsFrom(mem, bytes(0), c, lit) /\ LoadsFrom(mem, bytes(1), c, lit)
        /\ LoadsFrom(mem, bytes(3), c, lit)
    BY <1>5
  <2> DEFINE one == bytes(0)
             two == bytes(1)
             four == bytes(3)
             both == two \o four
  <2>3. LoadsFrom(mem, one, c, lit) /\ LoadsFrom(mem, two, c, lit) /\ LoadsFrom(mem, four, c, lit)
    BY <2>2
  <2>4. LoadsFrom(mem, both, c, lit)
    <3> HIDE DEF two, four, mem, c, lit
    <3> QED
      BY <2>3, LoadsFromConcat
  <2>5. SetRegister(n, c) /\ (Emit(one) \/ Emit(both) \/ Emit(four))
    BY <1>10
  <2> HIDE DEF one, two, four, both, mem, c, n, string, lit
  <2> QED
    BY <1>4, <2>1, <2>3, <2>4, <2>5
<1> HIDE DEF addr, mem, c, n, string, lit, bytes
<1> QED
  BY <1>7, <1>8, <1>9, <1>10

\* An operand of an operation that the right operand of t is made of is not the
\* left operand of t: no node has two parents, and a variable is not used again.
LEMMA ApartKid ==
  ASSUME TypeInv, GrammarInv, TreeInv, NEW S, NEW V, Shaped(S, V),
         NEW t, t.step = "combine", t.node \in DOMAIN ast, ast[t.node].kind = "BINARY", S[t.node],
         NEW n \in DOMAIN ast, ast[n].kind = "BINARY", S[n], V[n] \subseteq V[Operand(ast, t)],
         Apart(ast, t, n), NEW j \in 1..2
  PROVE  Apart(ast, t, ast[n].kids[j])
<1> DEFINE e == ast[n].kids[j]
           m == t.node
<1>1. /\ n \in Nat /\ n \notin Vars /\ j \in DOMAIN ast[n].kids /\ e \in Vars \cup 1..(n - 1)
  <2>1. j = 1 \/ j = 2
    OBVIOUS
  <2> QED
    BY <2>1, KidsBelow
<1>2. /\ m \in Nat /\ 1 \in DOMAIN ast[m].kids /\ 2 \in DOMAIN ast[m].kids
  BY KidsBelow
<1>3. n < m
  BY <1>1 DEF Apart
<1>4. e \in Vars \/ e < m
  BY <1>1, <1>2, <1>3
<1>5. Left(ast, t) = ast[m].kids[1] /\ Operand(ast, t) = ast[m].kids[2]
  BY DEF Left, Operand
<1>6. ASSUME e \in Vars PROVE e # Left(ast, t)
  <2>1. e \in V[e] /\ V[e] \subseteq V[n]
    <3>1. e \in V[e]
      BY <1>6 DEF Shaped
    <3>2. V[ast[n].kids[1]] \subseteq V[n] /\ V[ast[n].kids[2]] \subseteq V[n]
      BY DEF Shaped
    <3>3. e = ast[n].kids[1] \/ e = ast[n].kids[2]
      OBVIOUS
    <3> QED
      BY <3>1, <3>2, <3>3
  <2>2. e \in V[ast[m].kids[2]]
    BY <1>5, <2>1
  <2>3. ast[m].kids[1] \notin V[ast[m].kids[2]]
    BY DEF Shaped
  <2> QED
    BY <1>5, <2>2, <2>3
<1>7. ASSUME e \notin Vars PROVE e # Left(ast, t)
  <2>1. ASSUME e = ast[m].kids[1] PROVE FALSE
    <3>1. Same(ast[n].kids[j], ast[m].kids[1])
      BY <1>7, <2>1 DEF Same
    <3>2. n = m
      BY <1>1, <1>2, <3>1 DEF TreeInv, OneParent
    <3> QED
      BY <1>1, <1>3, <3>2
  <2> QED
    BY <1>5, <2>1
<1> HIDE DEF e, m
<1>8. e # Left(ast, t) /\ (e \in Vars \/ e < t.node)
  BY <1>4, <1>6, <1>7 DEF m
<1> QED
  BY <1>8 DEF Apart, e

\* An operand of the operation at hand is visited, then the operation goes on.
LEMMA CallPlace ==
  ASSUME TypeInv, GrammarInv, TreeInv, WalkInv, KindInv, PlaceInv, NEW new, Goes(new),
         NEW j \in 1..2, NEW then, Two(new, Visit(Kid(j)), then), Len(new) = 2,
         then.step = (IF j = 1 THEN "right" ELSE "combine"), then.node = Current,
         Current \in DOMAIN ast, ast[Current].kind = "BINARY",
         then.saved = Back(todo, currentRegisterCt, 2),
         \A S, V : Shaped(S, V) /\ S[Current] =>
           /\ currentRegisterCt' >= then.saved
           /\ j = 1 => currentRegisterCt' = then.saved
           /\ j = 2 => currentRegisterCt' > then.saved,
         currentRegisterCt' \in Int
  PROVE  PlaceInv'
<1> DEFINE us == todo'
           d == currentRegisterCt'
           c == currentRegisterCt
           e == Kid(j)
<1>1. /\ Spliced(us, new, todo) /\ 1 \in DOMAIN todo /\ Head(todo) = todo[1]
      /\ DOMAIN todo = 1..Len(todo) /\ Len(todo) \in Nat
      /\ \A i \in DOMAIN todo : todo[i].saved \in Int
      /\ new \in Seq(Tasks(ast)) /\ Continue(new) /\ Stays /\ todo # <<>> /\ c \in Int
  BY GoesOn
<1>2. us[1] = new[1] /\ us[2] = new[2] /\ \A i \in 2..Len(todo) : us[i + 1] = todo[i]
  <2>1. /\ \A i \in 1..2 : us[i] = new[i]
        /\ \A i \in 2..Len(todo) : us[(2 + i) - 1] = todo[i]
    BY <1>1 DEF Spliced
  <2>2. \A i \in 2..Len(todo) : (2 + i) - 1 = i + 1
    OBVIOUS
  <2> QED
    BY <2>1, <2>2
<1>3. /\ us[1].step = "code" /\ us[1].node = e /\ us[2] = then /\ DOMAIN new = 1..2
      /\ Current = todo[1].node
  <2>1. new[1] = Visit(e) /\ new[2] = then /\ DOMAIN new = 1..2
    BY DEF Two
  <2>2. Current = Head(todo).node
    BY DEF Current
  <2> QED
    BY <1>1, <1>2, <2>1, <2>2, CodeTask
<1>4. e = ast[Current].kids[j]
  BY DEF Kid
<1>5. ASSUME NEW S, NEW V, Shaped(S, V), S[Current]
      PROVE  S[e] /\ V[e] \subseteq V[Current]
  <2>1. /\ S[ast[Current].kids[1]] /\ S[ast[Current].kids[2]]
        /\ V[ast[Current].kids[1]] \subseteq V[Current] /\ V[ast[Current].kids[2]] \subseteq V[Current]
    BY <1>5 DEF Shaped
  <2>2. j = 1 \/ j = 2
    OBVIOUS
  <2> QED
    BY <1>4, <2>1, <2>2
<1>6. d \in Int /\ \A S, V : Shaped(S, V) /\ S[Current] =>
        d >= then.saved /\ (j = 1 => d = then.saved) /\ (j = 2 => d > then.saved)
  OBVIOUS
<1>7. ASSUME NEW S, NEW V, Shaped(S, V), NEW i \in DOMAIN new, Expects(S, ast, new[i])
      PROVE  Placed(S, V, ast, us, d, i)
  <2>1. i = 2 /\ new[2] = then
    <3>1. new[1].step = "code" /\ new[2] = then
      BY <1>2, <1>3
    <3>2. "code" \notin Holding
      BY DEF Holding
    <3>3. new[i].step \in Holding
      BY <1>7 DEF Expects
    <3>4. i = 1 \/ i = 2
      BY <1>3
    <3> QED
      BY <3>1, <3>2, <3>3, <3>4
  <2>2. S[Current]
    BY <1>7, <2>1 DEF Expects
  <2>3. e = Operand(ast, us[2])
    <3>1. j = 1 \/ j = 2
      OBVIOUS
    <3> QED
      BY <1>3, <1>4, <3>1 DEF Operand
  <2>4. us[2].step = "combine" => Apart(ast, us[2], e)
    <3>1. ASSUME us[2].step = "combine" PROVE j = 2
      BY <1>3, <3>1
    <3>2. /\ Current \in Nat /\ Current \notin Vars
          /\ 1 \in DOMAIN ast[Current].kids /\ 2 \in DOMAIN ast[Current].kids
          /\ ast[Current].kids[2] \in Vars \cup 1..(Current - 1)
      BY KidsBelow
    <3> DEFINE x == ast[Current].kids[1]
               y == ast[Current].kids[2]
    <3>3. y \in Vars => x # y
      BY <1>7, <2>2 DEF Shaped
    <3>4. y \notin Vars => x # y
      <4>1. ASSUME y \notin Vars, x = y PROVE FALSE
        <5>1. Same(ast[Current].kids[1], ast[Current].kids[2])
          BY <4>1 DEF Same
        <5>2. \A a \in DOMAIN ast[Current].kids, b \in DOMAIN ast[Current].kids :
                Same(ast[Current].kids[a], ast[Current].kids[b]) => a = b
          BY DEF TreeInv, OneParent
        <5> QED
          BY <3>2, <5>1, <5>2
      <4> QED
        BY <4>1
    <3>5. y \in Vars \/ y < Current
      BY <3>2
    <3>6. j = 2 => Apart(ast, us[2], e)
      BY <1>3, <1>4, <3>3, <3>4, <3>5 DEF Apart, Left
    <3> QED
      BY <3>1, <3>6
  <2>5. S[e] /\ V[e] \subseteq V[Operand(ast, us[2])]
    BY <1>5, <1>7, <2>2, <2>3
  <2> HIDE DEF us, d, e
  <2>6. Beneath(S, V, ast, us[2], us[1])
    BY <1>3, <2>4, <2>5 DEF Beneath, Summing
  <2>7. d >= then.saved /\ (j = 1 => d = then.saved) /\ (j = 2 => d > then.saved)
    BY <1>6, <1>7, <2>2
  <2>8. us[2].step = "right" => Back(us, d, 2) = us[2].saved
    <3>1. 2 - 1 = 1
      OBVIOUS
    <3>2. us[2].step = "right" => j = 1
      BY <1>3
    <3> QED
      BY <1>3, <2>7, <3>1, <3>2 DEF Back
  <2>9. us[2].step = "combine" => d > us[2].saved
    BY <1>3, <2>7
  <2>10. \A q \in 1..(2 - 1) : q = 1
    OBVIOUS
  <2>11. 2 - 1 = 1
    OBVIOUS
  <2>12. us[1].node = Operand(ast, us[2])
    BY <1>3, <2>3
  <2>13. Placed(S, V, ast, us, d, 2)
    BY <2>6, <2>8, <2>9, <2>10, <2>11, <2>12 DEF Placed
  <2> QED
    BY <2>1, <2>13
<1>8. ASSUME NEW S, NEW V, Shaped(S, V), NEW k \in DOMAIN todo, k # 1, Expects(S, ast, todo[k]),
             Placed(S, V, ast, todo, c, k)
      PROVE  Placed(S, V, ast, us, d, (Len(new) + k) - 1)
  <2>1. k \in Nat /\ k >= 2 /\ (Len(new) + k) - 1 = k + 1 /\ 1 \in 1..(k - 1)
    BY <1>1, <1>8
  <2>2. Beneath(S, V, ast, todo[k], todo[1])
    BY <1>8, <2>1 DEF Placed
  <2>3. S[Current] /\ V[Current] \subseteq V[Operand(ast, todo[k])]
    BY <1>3, <2>2 DEF Beneath, Summing
  <2>4. S[e] /\ V[e] \subseteq V[todo[1].node]
    BY <1>3, <1>5, <1>8, <2>3
  <2>5. ASSUME todo[k].step = "combine" PROVE Apart(ast, todo[k], e)
    <3>1. Suits(ast, todo[k]) /\ Kinds(ast, todo[k])
      BY DEF WalkInv, KindInv
    <3>2. todo[k].node \in DOMAIN ast /\ ast[todo[k].node].kind = "BINARY"
      BY <2>5, <3>1 DEF Suits, Kinds
    <3>3. S[todo[k].node]
      BY <1>8, <2>5 DEF Expects
    <3>4. Apart(ast, todo[k], Current)
      BY <1>3, <2>2, <2>5 DEF Beneath
    <3>5. Apart(ast, todo[k], ast[Current].kids[j])
      BY <1>8, <2>3, <2>5, <3>2, <3>3, <3>4, ApartKid
    <3> QED
      BY <1>4, <3>5
  <2>6. /\ us[2].step \in {"right", "combine"} /\ us[2].node = todo[1].node
        /\ us[2].saved = Back(todo, c, 2) /\ d >= us[2].saved
    BY <1>3, <1>6, <1>8, <2>3
  <2>7. /\ \A i \in 1..k : todo[i].saved \in Int
        /\ \A i \in 2..k : us[i + 1] = todo[i]
    <3>1. k <= Len(todo)
      BY <1>1, <1>8
    <3>2. \A i \in 1..k : i \in DOMAIN todo
      BY <1>1, <2>1, <3>1
    <3>3. \A i \in 2..k : i \in 2..Len(todo)
      BY <1>1, <2>1, <3>1
    <3> HIDE DEF us
    <3> QED
      BY <1>1, <1>2, <3>2, <3>3
  <2>8. todo[k].step = "combine" => Apart(ast, todo[k], us[1].node)
    BY <1>3, <2>5
  <2>9. us[1].step = "code" /\ S[us[1].node] /\ V[us[1].node] \subseteq V[todo[1].node]
    BY <1>3, <2>4
  <2> HIDE DEF us, d, e, c
  <2>10. Placed(S, V, ast, us, d, k + 1)
    BY <1>1, <1>6, <1>8, <2>1, <2>6, <2>7, <2>8, <2>9, PlacedCalls DEF c
  <2> QED
    BY <2>1, <2>10
<1> QED
  BY <1>1, <1>7, <1>8, PlaceStep

\* The left operand that waits stays where it is.
LEMMA CallHeld ==
  ASSUME WalkInv, PlaceInv, HeldInv, NEW new, Goes(new),
         NEW e, NEW then, Two(new, Visit(e), then), Len(new) = 2,
         text' = text, register' = register,
         StraightLine => \A S, V, f :
           (Shaped(S, V) /\ Means(Ran(text).mem, f) /\ Expects(S, ast, then) /\ then.step = "combine") =>
             Recorded(register, Ran(text).regs, Left(ast, then), then.saved, f[Left(ast, then)])
  PROVE  HeldInv'
<1> DEFINE us == todo'
<1>1. /\ Spliced(us, new, todo) /\ 1 \in DOMAIN todo /\ Stays /\ Continue(new) /\ todo # <<>>
      /\ DOMAIN todo = 1..Len(todo) /\ Len(todo) \in Nat /\ new \in Seq(Tasks(ast))
  BY GoesOn
<1>2. us[2] = then /\ DOMAIN new = 1..2 /\ \A k \in 2..Len(todo) : us[(2 + k) - 1] = todo[k]
  <2>1. /\ \A i \in 1..2 : us[i] = new[i]
        /\ \A k \in 2..Len(todo) : us[(2 + k) - 1] = todo[k]
    BY <1>1 DEF Spliced
  <2>2. new[2] = then /\ DOMAIN new = 1..2
    BY DEF Two
  <2> QED
    BY <2>1, <2>2
<1>3. StraightLine' => StraightLine
  BY DEF StraightLine, Accepted
<1>4. ASSUME StraightLine', NEW S, NEW V, NEW f, Shaped(S, V), Means(Ran(text').mem, f),
             NEW i \in DOMAIN new, Expects(S, ast, new[i])
      PROVE  Held(f, ast, us, currentRegisterCt', register', Ran(text').regs, i)
  <2>1. i = 2 /\ new[2] = then
    <3>1. new[1].step = "code" /\ new[2] = then
      BY CodeTask DEF Two
    <3>2. new[i].step \in Holding
      BY <1>4 DEF Expects
    <3>3. i = 1 \/ i = 2
      BY <1>2
    <3> QED
      BY <3>1, <3>2, <3>3 DEF Holding
  <2>2. then.step = "combine" =>
          Recorded(register, Ran(text).regs, Left(ast, then), then.saved, f[Left(ast, then)])
    BY <1>3, <1>4, <2>1
  <2>3. us[i] = then /\ i # 1
    BY <1>2, <2>1
  <2> HIDE DEF us
  <2> QED
    BY <2>2, <2>3 DEF Held
<1>5. ASSUME StraightLine', NEW S, NEW V, NEW f, Shaped(S, V), Means(Ran(text').mem, f),
             NEW k \in DOMAIN todo, k # 1, Expects(S, ast, todo[k]),
             Placed(S, V, ast, todo, currentRegisterCt, k)
      PROVE  Held(f, ast, us, currentRegisterCt', register', Ran(text').regs, (Len(new) + k) - 1)
  <2>1. (Len(new) + k) - 1 # 1 /\ us[(Len(new) + k) - 1] = todo[k]
    <3>1. k \in 2..Len(todo) /\ (Len(new) + k) - 1 = (2 + k) - 1 /\ (2 + k) - 1 # 1
      BY <1>1, <1>5
    <3> QED
      BY <1>2, <3>1
  <2>2. Held(f, ast, todo, currentRegisterCt, register, Ran(text).regs, k)
    BY <1>3, <1>5 DEF HeldInv
  <2> HIDE DEF us
  <2> QED
    BY <2>1, <2>2 DEF Held
<1> QED
  BY <1>1, <1>4, <1>5, HeldStep

\* The visits of the two operands of an operation.
LEMMA CallersStep ==
  ASSUME TypeInv, GrammarInv, TreeInv, WalkInv, KindInv, PlaceInv, HeldInv, Callers
  PROVE  \E new : Goes(new) /\ PlaceInv' /\ HeldInv'
<1>1. CASE VisitBinary
  <2> DEFINE then == Task("right", Current, currentRegisterCt)
             new == <<Visit(Kid(1)), then>>
  <2>1. /\ DoingKind("code", {"BINARY"}) /\ Continue(new) /\ Stays
        /\ currentRegisterCt' = currentRegisterCt /\ register' = register /\ text' = text
    BY <1>1 DEF VisitBinary
  <2>2. /\ Current \in DOMAIN ast /\ ast[Current].kind = "BINARY"
        /\ phase = "generating" /\ todo # <<>> /\ currentRegisterCt \in Int
    BY <2>1, VisitedNode
  <2>3. Kid(1) \in Ref(ast) /\ Kid(1) = ast[Current].kids[1]
    BY <2>2, Operands DEF Kid
  <2>4. Head(todo).node = Current /\ Head(todo).step = "code"
    BY <2>1 DEF DoingKind, Doing, Current
  <2>5. "right" \in Steps /\ "right" \notin {"call", "combine", "pass", "increment", "store"}
    BY DEF Steps
  <2>6. Goes(new) /\ Two(new, Visit(Kid(1)), then) /\ Len(new) = 2
    BY <2>1, <2>2, <2>3, <2>4, <2>5, TwoGo
  <2>7. then.step = "right" /\ then.node = Current /\ then.saved = currentRegisterCt
    BY DEF Task
  <2> HIDE DEF new, then
  <2>8. then.saved = Back(todo, currentRegisterCt, 2)
    <3>1. 2 - 1 = 1 /\ todo[1] = Head(todo)
      BY <2>6, GoesOn
    <3> QED
      BY <2>4, <2>7, <3>1 DEF Back
  <2>9. currentRegisterCt' >= then.saved /\ currentRegisterCt' = then.saved /\ currentRegisterCt' \in Int
    BY <2>1, <2>2, <2>7
  <2>10. then.step = (IF 1 = 1 THEN "right" ELSE "combine") /\ 1 \in 1..2 /\ 1 # 2
    BY <2>7
  <2>11. PlaceInv'
    BY <2>2, <2>6, <2>7, <2>8, <2>9, <2>10, CallPlace
  <2>12. HeldInv'
    BY <2>1, <2>6, <2>7, CallHeld
  <2> QED
    BY <2>6, <2>11, <2>12
<1>2. CASE BinaryRight
  <2> DEFINE then == Task("combine", Current, Saved)
             new == <<Visit(Kid(2)), then>>
  <2>1. /\ Doing("right") /\ Continue(new) /\ Stays
        /\ currentRegisterCt' = currentRegisterCt + SizeOf(Kid(1))
        /\ register' = register /\ text' = text
    BY <1>2 DEF BinaryRight, MoveTo
  <2>2. /\ phase = "generating" /\ todo # <<>> /\ Head(todo).step = "right"
        /\ Suits(ast, Head(todo)) /\ Current = Head(todo).node
        /\ Current \in Ref(ast) /\ Saved \in Int /\ currentRegisterCt \in Int
        /\ Saved = Head(todo).saved
    BY <2>1, CutVisit
  <2>3. Current \in DOMAIN ast /\ ast[Current].kind = "BINARY"
    BY <2>2 DEF Suits
  <2>4. Kid(1) \in Ref(ast) /\ Kid(2) \in Ref(ast) /\ Kid(2) = ast[Current].kids[2] /\ Kid(1) = ast[Current].kids[1]
    BY <2>3, Operands DEF Kid
  <2>5. "combine" \in Steps /\ "combine" \notin {"call", "right", "pass", "increment", "store"}
    BY DEF Steps
  <2>6. Goes(new) /\ Two(new, Visit(Kid(2)), then) /\ Len(new) = 2
    BY <2>1, <2>2, <2>3, <2>4, <2>5, TwoGo
  <2>7. then.step = "combine" /\ then.node = Current /\ then.saved = Saved
    BY DEF Task
  <2> HIDE DEF new, then
  <2>8. 2 - 1 = 1 /\ todo[1] = Head(todo) /\ 1 \in DOMAIN todo
    BY <2>6, GoesOn
  <2>9. then.saved = Back(todo, currentRegisterCt, 2)
    BY <2>2, <2>7, <2>8 DEF Back
  <2>10. SizeOf(Kid(1)) \in -1..4
    BY <2>4, Sizes
  <2>11. \A S, V : Shaped(S, V) /\ S[Current] => Placed(S, V, ast, todo, currentRegisterCt, 1)
    <3>1. \A S : S[Current] => Expects(S, ast, todo[1])
      BY <2>2, <2>8 DEF Expects, Holding
    <3> QED
      BY <2>8, <3>1 DEF PlaceInv
  <2>12. ASSUME NEW S, NEW V, Shaped(S, V), S[Current]
         PROVE  currentRegisterCt = Saved /\ currentRegisterCt' > then.saved /\ currentRegisterCt' >= then.saved
    <3>1. Placed(S, V, ast, todo, currentRegisterCt, 1)
      BY <2>11, <2>12
    <3>2. Back(todo, currentRegisterCt, 1) = Saved
      BY <2>2, <2>8, <3>1 DEF Placed
    <3>3. currentRegisterCt = Saved
      BY <3>2 DEF Back
    <3>4. SizeOf(Kid(1)) > 0
      BY <2>3, <2>4, <2>12 DEF Shaped
    <3> QED
      BY <2>1, <2>2, <2>7, <2>10, <3>3, <3>4
  <2>13. currentRegisterCt' \in Int
    BY <2>1, <2>2, <2>10
  <2>14. then.step = (IF 2 = 1 THEN "right" ELSE "combine") /\ 2 \in 1..2 /\ 2 # 1
    BY <2>7
  <2>15. PlaceInv'
    BY <2>3, <2>6, <2>7, <2>9, <2>12, <2>13, <2>14, CallPlace
  <2>16. ASSUME StraightLine, NEW S, NEW V, NEW f, Shaped(S, V), Means(Ran(text).mem, f), Expects(S, ast, then)
         PROVE  Recorded(register, Ran(text).regs, Left(ast, then), then.saved, f[Left(ast, then)])
    <3>1. S[Current]
      BY <2>7, <2>16 DEF Expects
    <3>2. Expects(S, ast, todo[1])
      BY <2>2, <2>8, <3>1 DEF Expects, Holding
    <3>3. Held(f, ast, todo, currentRegisterCt, register, Ran(text).regs, 1)
      BY <2>8, <2>16, <3>2 DEF HeldInv
    <3>4. Operand(ast, todo[1]) = Left(ast, then)
      BY <2>2, <2>7, <2>8 DEF Operand, Left
    <3>5. currentRegisterCt = then.saved
      BY <2>7, <2>12, <2>16, <3>1
    <3> QED
      BY <3>3, <3>4, <3>5 DEF Held
  <2>17. HeldInv'
    BY <2>1, <2>6, <2>7, <2>16, CallHeld
  <2> QED
    BY <2>6, <2>15, <2>17
<1> QED
  BY <1>1, <1>2 DEF Callers

LEMMA ReturnersStep ==
  ASSUME TypeInv, WalkInv, KindInv, PlaceInv, HeldInv, IsText(text), Returners
  PROVE  Goes(<<>>) /\ PlaceInv' /\ HeldInv'
<1>1. Goes(<<>>)
  BY ReturnersGo
<1>2. 2 - 1 = 1 /\ Head(todo) = todo[1]
  BY <1>1, GoesOn
<1>3. currentRegisterCt' = Back(todo, currentRegisterCt, 2)
  <2>1. CASE VisitVAR \/ VisitCONSTANT
    <3>1. currentRegisterCt' = currentRegisterCt /\ Head(todo).step = "code"
      BY <2>1 DEF VisitVAR, VisitCONSTANT, DoingKind, Doing
    <3> QED
      BY <1>2, <3>1 DEF Back
  <2>2. CASE BinaryCombine
    <3>1. currentRegisterCt' = Saved /\ Head(todo).step = "combine"
      BY <2>2 DEF BinaryCombine, MoveTo, Doing
    <3>2. currentRegisterCt' = todo[1].saved /\ todo[1].step # "code"
      BY <1>2, <3>1 DEF Saved
    <3> QED
      BY <1>2, <3>2 DEF Back
  <2> QED
    BY <2>1, <2>2 DEF Returners
<1>4. StraightLine' => StraightLine /\ Valued
  BY VarValued, ConstantValued, CombineValued DEF Returners
<1>5. PlaceInv'
  BY <1>1, <1>3, ReturnPlace
<1>6. HeldInv'
  BY <1>1, <1>3, <1>4, ReturnHeld
<1> QED
  BY <1>1, <1>5, <1>6

-------------------------------------------------------------------------------
(***************************************************************************)
(* The results of calls, and the whole of the generator.                   *)
(***************************************************************************)
LEMMA CallResult ==
  ASSUME IsText(text), Call, ast[Current].op # "user"
  PROVE  Ran(text').regs[FirstRegister] = <<"result", ast[Current].op>>
<1> DEFINE op == ast[Current].op
<1>1. Emit(<<<<"call", op>>>>)
  BY DEF Call
<1> HIDE DEF op
<1>2. text' = text \o <<<<"call", op>>>>
  BY <1>1 DEF Emit
<1>3. Ran(text') = Execute(Ran(text), <<"call", op>>)
  BY <1>2, RanOne
<1>4. IsMachine(Ran(text))
  BY RanMachine
<1>5. Ran(text').regs[FirstRegister] = <<"result", op>>
  BY <1>3, <1>4, ExecuteCall
<1> QED
  BY <1>5 DEF op

LEMMA ResultStep ==
  ASSUME WalkInv, KindInv, IsText(text), NEW new, Goes(new), Head(todo).step = "call" => Call
  PROVE  ResultInv'
<1> DEFINE us == todo'
           n == us[1].node
           e == ast[n].kids[2]
           m == Ran(text')
<1>1. ast' = ast
  BY GoesOn
<1>2. ASSUME StraightLine', us # <<>>, us[1].step = "store", e \notin Vars, ast[e].kind = "CALL",
             ast[e].op # "user"
      PROVE  m.regs[FirstRegister] = <<"result", ast[e].op>>
  <2>1. Head(todo).node = e /\ Head(todo).step = "call"
    BY <1>2, StoreReached
  <2>2. Call /\ Current = e
    BY <2>1 DEF Current
  <2> HIDE DEF e, us, n
  <2> QED
    BY <1>2, <2>2, CallResult
<1> HIDE DEF m
<1>3. StraightLine' /\ us # <<>> =>
        (us[1].step = "store" /\ e \notin Vars /\ ast[e].kind = "CALL" /\ ast[e].op # "user" =>
           m.regs[FirstRegister] = <<"result", ast[e].op>>)
  BY <1>2
<1> QED
  BY <1>1, <1>3 DEF ResultInv, m

\* What is invariant about the values.
ValueInv == KindInv /\ PlaceInv /\ HeldInv /\ ResultInv

Proceeds == Returners \/ OtherReturners \/ Callers \/ OtherCallers \/ OtherLists

LEMMA CallIsCall ==
  ASSUME Proceeds, Head(todo).step = "call"
  PROVE  Call
<1>1. ASSUME NEW step, Doing(step) PROVE step = "call"
  BY <1>1 DEF Doing
<1>2. ASSUME NEW kinds, NEW step, DoingKind(step, kinds) PROVE step = "call"
  BY <1>1, <1>2 DEF DoingKind
<1>3. ~Returners
  BY <1>1, <1>2 DEF Returners, VisitVAR, VisitCONSTANT, BinaryCombine
<1>4. ~Callers
  BY <1>1, <1>2 DEF Callers, VisitBinary, BinaryRight
<1>5. ~OtherCallers
  BY <1>1, <1>2 DEF OtherCallers, VisitUnary, VisitAFF, VisitControl, Control, Else, VisitLOOP
<1>6. ~OtherLists
  BY <1>1, <1>2 DEF OtherLists, VisitCall, Argument, DataVisit, VisitInside
<1>7. OtherReturners => Call
  BY <1>1, <1>2 DEF OtherReturners, Pass, Increment1, VisitLIST, VisitOther, Store, EndIf,
     EndWhile, EndForeach, EndLoop
<1> QED
  BY <1>3, <1>4, <1>5, <1>6, <1>7 DEF Proceeds

LEMMA WalksStep ==
  ASSUME TypeInv, GrammarInv, TreeInv, WalkInv, IsText(text), ValueInv, Proceeds
  PROVE  ValueInv'
<1>1. KindInv /\ PlaceInv /\ HeldInv
  BY DEF ValueInv
<1>2. PICK new : Goes(new) /\ PlaceInv' /\ HeldInv'
  <2>1. CASE Returners
    BY <1>1, <2>1, ReturnersStep
  <2>2. CASE OtherReturners
    <3>1. Goes(<<>>) /\ Other(<<>>)
      BY <1>1, <2>2, OtherReturnersGo
    <3> QED
      BY <1>1, <3>1, OtherStep
  <2>3. CASE Callers
    BY <1>1, <2>3, CallersStep
  <2>4. CASE OtherCallers \/ OtherLists
    <3>1. PICK new : Goes(new) /\ Other(new)
      BY <1>1, <2>4, OtherCallersGo, OtherListsGo
    <3>2. PlaceInv' /\ HeldInv'
      BY <1>1, <3>1, OtherStep
    <3> QED
      BY <3>1, <3>2
  <2> QED
    BY <2>1, <2>2, <2>3, <2>4 DEF Proceeds
<1>3. KindInv'
  BY <1>1, <1>2, KindStep
<1>4. ResultInv'
  BY <1>1, <1>2, CallIsCall, ResultStep
<1> QED
  BY <1>2, <1>3, <1>4 DEF ValueInv

\* Before the first expression of a statement no visit waits.
Unbegun(ts) ==
  /\ \A p \in DOMAIN ts : ts[p].step \in {"data", "code"}
  /\ ts # <<>> => 1 \in DOMAIN ts

LEMMA NoneWaits == Unbegun(todo) => ValueInv
<1> SUFFICES ASSUME Unbegun(todo) PROVE ValueInv
  OBVIOUS
<1>1. \A p \in DOMAIN todo : todo[p].step \in {"data", "code"}
  BY DEF Unbegun
<1>2. \A S : \A p \in DOMAIN todo : ~Expects(S, ast, todo[p])
  BY <1>1 DEF Expects, Holding
<1>3. KindInv
  BY <1>1 DEF KindInv, Kinds
<1>4. PlaceInv /\ HeldInv
  BY <1>2 DEF PlaceInv, HeldInv
<1>5. ResultInv
  BY <1>1 DEF Unbegun, ResultInv
<1> QED
  BY <1>3, <1>4, <1>5 DEF ValueInv

LEMMA NoneWaitsNext == Unbegun(todo)' => ValueInv'
BY NoneWaits, PTL

LEMMA NothingUnbegun == Unbegun(<<>>)
<1> DEFINE ts == <<>>
<1>1. DOMAIN ts = {} /\ ts = <<>>
  OBVIOUS
<1> HIDE DEF ts
<1>2. Unbegun(ts) \/ ts # <<>>
  BY <1>1 DEF Unbegun
<1>3. ts = <<>>
  BY <1>1
<1> QED
  BY <1>2, <1>3

LEMMA NothingWaits ==
  ASSUME todo' = <<>>
  PROVE  ValueInv'
<1>1. Unbegun(todo)'
  BY NothingUnbegun
<1> QED
  BY <1>1, NoneWaitsNext

LEMMA NextUnbegun ==
  ASSUME NextStatement
  PROVE  Unbegun(todo)'
<1> DEFINE t1 == Task("data", Head(program), 0)
           t2 == Visit(Head(program))
           us == <<t1, t2>>
<1>1. todo' = us
  BY DEF NextStatement
<1>2. t1.step = "data" /\ t2.step = "code"
  BY DEF Task, Visit
<1> HIDE DEF t1, t2
<1>3. DOMAIN us = 1..2 /\ us[1] = t1 /\ us[2] = t2
  OBVIOUS
<1> HIDE DEF us
<1>4. \A p \in DOMAIN us : us[p] = t1 \/ us[p] = t2
  BY <1>3
<1>5. Unbegun(us)
  BY <1>2, <1>3, <1>4 DEF Unbegun
<1> QED
  BY <1>1, <1>5

LEMMA StatementUnbegun ==
  ASSUME NextStatement
  PROVE  ValueInv'
<1>1. Unbegun(todo)'
  BY NextUnbegun
<1> QED
  BY <1>1, NoneWaitsNext

\* A step of the generator is one of its visits, or it empties or begins todo.
LEMMA GenerateProceeds ==
  ASSUME Generate
  PROVE  Throw \/ NextStatement \/ Output \/ Proceeds
<1>1. CASE GenerateExpr /\ ~Throw
  <2>1. \/ VisitVAR \/ VisitCONSTANT \/ Pass \/ Increment1 \/ VisitLIST \/ VisitOther
        \/ BinaryCombine \/ Call \/ VisitBinary \/ BinaryRight \/ VisitUnary
        \/ VisitCall \/ Argument
    BY <1>1 DEF GenerateExpr, VisitLeafThrows, BinaryRightThrows, CallThrows,
       VisitUnaryThrows, IncrementThrows, VisitLISTThrows
  <2> QED
    BY <2>1 DEF Proceeds, Returners, OtherReturners, Callers, OtherCallers, OtherLists
<1>2. CASE GenerateStm /\ ~Throw
  <2>1. \/ Store \/ EndIf \/ EndWhile \/ EndForeach \/ EndLoop \/ VisitInside
        \/ VisitAFF \/ VisitControl \/ Control \/ Else \/ VisitLOOP
    BY <1>2 DEF GenerateStm, StoreThrows
  <2> QED
    BY <2>1 DEF Proceeds, Returners, OtherReturners, Callers, OtherCallers, OtherLists
<1>3. CASE DataVisit \/ DataVisitThrows
  <2>1. DataVisit => Proceeds
    BY DEF Proceeds, OtherLists
  <2> QED
    BY <1>3, <2>1 DEF DataVisitThrows
<1> QED
  BY <1>1, <1>2, <1>3 DEF Generate

LEMMA GenerateValues ==
  ASSUME TypeInv, GrammarInv, TreeInv, WalkInv, IsText(text), ValueInv, Generate
  PROVE  ValueInv'
<1>1. CASE Throw
  BY <1>1, NothingWaits DEF Throw
<1>2. CASE NextStatement
  BY <1>2, StatementUnbegun
<1>3. CASE Output
  BY <1>3, NothingWaits DEF Output, genVars
<1>4. CASE Proceeds
  BY <1>4, WalksStep
<1> QED
  BY <1>1, <1>2, <1>3, <1>4, GenerateProceeds

LEMMA SameValues ==
  ASSUME ValueInv, UNCHANGED allVars
  PROVE  ValueInv'
<1>1. UNCHANGED vars /\ ast' = ast /\ todo' = todo /\ text' = text /\ register' = register
      /\ currentRegisterCt' = currentRegisterCt
  BY DEF allVars, vars, genVars
<1>2. KindInv'
  BY <1>1 DEF ValueInv, KindInv
<1>3. PlaceInv'
  <2>1. \A S, V : Shaped(S, V)' <=> Shaped(S, V)
    BY <1>1, ShapeStays DEF Stays
  <2> QED
    BY <1>1, <2>1 DEF ValueInv, PlaceInv
<1>4. StraightLine' <=> StraightLine
  BY <1>1 DEF StraightLine
<1>5. HeldInv'
  <2>1. \A S, V : Shaped(S, V)' <=> Shaped(S, V)
    BY <1>1, ShapeStays DEF Stays
  <2>2. \A f : Means(Ran(text).mem, f)' <=> Means(Ran(text').mem, f)
    BY <1>1, MeansStays DEF Stays
  <2> QED
    BY <1>1, <1>4, <2>1, <2>2 DEF ValueInv, HeldInv
<1>6. ResultInv'
  BY <1>1, <1>4 DEF ValueInv, ResultInv
<1> QED
  BY <1>2, <1>3, <1>5, <1>6 DEF ValueInv

\* The inductive invariant of the compiler, down to the values it computes.
ValuesInv == JumpsInv /\ ValueInv

LEMMA InitValuesInv == GenInit => ValuesInv
<1> SUFFICES ASSUME GenInit PROVE ValuesInv
  OBVIOUS
<1>1. Unbegun(todo)
  BY NothingUnbegun DEF GenInit
<1> QED
  BY <1>1, NoneWaits, InitJumpsInv DEF ValuesInv

LEMMA NextValuesInv == ValuesInv /\ [CompilerNext]_allVars => ValuesInv'
<1> SUFFICES ASSUME JumpsInv, ValueInv, [CompilerNext]_allVars
             PROVE  JumpsInv' /\ ValueInv'
  BY DEF ValuesInv
<1>1. JumpsInv'
  BY NextJumpsInv
<1>2. TypeInv /\ GrammarInv /\ TreeInv /\ WalkInv /\ IsText(text)
  BY DEF JumpsInv, CompilerInv, JumpInv
<1>3. CASE UNCHANGED allVars
  BY <1>1, <1>3, SameValues
<1>4. CASE Next /\ UNCHANGED genVars
  <2>1. phase \in {"definitions", "body", "main"}
    BY <1>4, FrontEndPhases
  <2>2. todo' = <<>>
    BY <1>2, <1>4, <2>1 DEF WalkInv, GenTypeOK, genVars
  <2> QED
    BY <1>1, <2>2, NothingWaits
<1>5. CASE Generate
  BY <1>1, <1>2, <1>5, GenerateValues
<1> QED
  BY <1>1, <1>3, <1>4, <1>5 DEF CompilerNext

LEMMA ValuesCompute ==
  ASSUME ValuesInv
  PROVE  AssignmentsCompute
<1>1. /\ TypeInv /\ GrammarInv /\ TreeInv /\ WalkInv
      /\ KindInv /\ HeldInv /\ ResultInv
  BY DEF ValuesInv, JumpsInv, CompilerInv, ValueInv
<1>2. Machine = Ran(text)
  BY DEF Machine, Ran
<1> DEFINE m == Ran(text)
           f == Meaning(m.mem)
           e == Kid(2)
<1>3. ASSUME Doing("store"), StraightLine,
             Sum[e] \/ (e \notin Vars /\ ast[e].kind = "CALL" /\ ast[e].op # "user")
      PROVE  m.regs[currentRegisterCt] = f[e]
  <2>1. /\ todo # <<>> /\ Head(todo) = todo[1] /\ todo[1].step = "store" /\ 1 \in DOMAIN todo
        /\ Current = todo[1].node /\ Suits(ast, todo[1])
    BY <1>1, <1>3, CutVisit DEF WalkInv, GenTypeOK
  <2>2. currentRegisterCt = FirstRegister
    BY <1>1, <1>3, FirstIsOrderly DEF StatementCursor
  <2>3. Means(m.mem, f)
    BY <1>1, MeaningMeans
  <2>4. e = ast[todo[1].node].kids[2] /\ e = Operand(ast, todo[1])
    BY <2>1 DEF Kid, Operand
  <2> HIDE DEF f, e
  <2>5. CASE Sum[e]
    <3> DEFINE S == Sum
               V == VarsOf
    <3>1. Shaped(S, V) /\ S[e]
      BY <1>1, <2>5, SumShape
    <3> HIDE DEF S, V
    <3>2. Expects(S, ast, todo[1])
      BY <2>1, <2>4, <3>1 DEF Expects, Holding
    <3>3. Held(f, ast, todo, currentRegisterCt, register, m.regs, 1)
      BY <1>1, <1>3, <2>1, <2>3, <3>1, <3>2 DEF HeldInv
    <3> QED
      BY <2>4, <3>3 DEF Held, Recorded
  <2>6. CASE e \notin Vars /\ ast[e].kind = "CALL" /\ ast[e].op # "user"
    <3>1. m.regs[FirstRegister] = <<"result", ast[e].op>>
      BY <1>1, <1>3, <2>1, <2>4, <2>6 DEF ResultInv
    <3>2. e \in DOMAIN ast
      <4>1. todo[1].node \in DOMAIN ast /\ ast[todo[1].node].kind \in {"BINARY", "AFF"}
        BY <2>1 DEF Suits
      <4>2. e \in Ref(ast)
        BY <1>1, <2>4, <4>1, Operands
      <4> QED
        BY <2>6, <4>2 DEF Ref
    <3>3. f[e] = <<"result", ast[e].op>>
      BY <2>3, <2>6, <3>2 DEF Means
    <3> QED
      BY <2>2, <3>1, <3>3
  <2> QED
    BY <1>3, <2>5, <2>6
<1> QED
  BY <1>2, <1>3 DEF AssignmentsCompute

\* Whatever was parsed and generated before, the register from which the code of
\* "v = e;" stores holds the low byte of the value of e, when e is a sum of any
\* depth in which no left operand that is a variable is used again on its right
\* and left operands have a size, or a call of a function of the board: the
\* operands that visit(ExprBinary) leaves in registers while it visits others,
\* and the objects that expressions share, do not make it lose one.
THEOREM SumsAreComputed == CompilerSpec => []AssignmentsCompute
<1>1. GenInit => ValuesInv
  BY InitValuesInv
<1>2. ValuesInv /\ [CompilerNext]_allVars => ValuesInv'
  BY NextValuesInv
<1>3. ValuesInv => AssignmentsCompute
  BY ValuesCompute
<1> QED
  BY <1>1, <1>2, <1>3, PTL DEF CompilerSpec
===============================================================================
