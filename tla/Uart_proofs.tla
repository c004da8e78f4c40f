------------------------------ MODULE Uart_proofs ------------------------------
(***************************************************************************)
(* The serial port is safe for buffers of any size, whatever the program   *)
(* puts and the line delivers: indices stay in their buffers, the handlers *)
(* stay enabled, the bytes counted by available() stay, and the two        *)
(* buffers are the queues of SerialPort.                                   *)
(***************************************************************************)
EXTENDS Uart, SequenceTheorems, TLAPS

(***************************************************************************)
(* The arithmetic of the indices.                                          *)
(***************************************************************************)
LEMMA AfterInBuffer ==
  ASSUME NEW size \in Nat, size >= 2, NEW i \in 0..size - 1
  PROVE  After(i, size) \in 0..size - 1 /\ After(i, size) # i
  BY DEF After

LEMMA AfterDistinct ==
  ASSUME NEW size \in Nat, size >= 2, NEW i \in 0..size - 1, NEW j \in 0..size - 1, i # j
  PROVE  After(i, size) # After(j, size)
  BY DEF After

LEMMA CountInRoom ==
  ASSUME NEW size \in Nat, NEW t \in 0..size - 1, NEW h \in 0..size - 1
  PROVE  Count(t, h, size) \in 0..size - 1 /\ (Count(t, h, size) = 0 <=> t = h)
  BY DEF Count

LEMMA HeadAdvances ==
  ASSUME NEW size \in Nat, size >= 2, NEW t \in 0..size - 1, NEW h \in 0..size - 1,
         After(h, size) # t
  PROVE  Count(t, After(h, size), size) = Count(t, h, size) + 1
  BY DEF Count, After

LEMMA TailAdvances ==
  ASSUME NEW size \in Nat, size >= 2, NEW t \in 0..size - 1, NEW h \in 0..size - 1,
         t # h
  PROVE  Count(After(t, size), h, size) = Count(t, h, size) - 1
  BY DEF Count, After

(***************************************************************************)
(* The inductive invariant: types, what a temporary of the main program    *)
(* holds at each place, and what the two properties need.                  *)
(***************************************************************************)
\* putc holds the index after the head, which no handler moves, and once it has
\* seen room there is room until it uses it: handlers only make more.
PutcHolds ==
  /\ pc \in {"putc", "putc wait", "putc store", "putc advance"} => left >= 1
  /\ pc \in {"putc wait", "putc store", "putc advance"} => tmp = After(TxHead, TxSize)
  /\ pc \in {"putc store", "putc advance"} => tmp # TxTail
  /\ pc = "putc enable" => {"UDRIE0", "RXCIE0"} \subseteq ctl

\* getc and peek found a byte, and no handler takes it.
GetcHolds ==
  /\ pc \in {"getc tail", "peek"} => RxHead # RxTail
  /\ pc = "getc data" => tmp = RxTail

BeforeControl ==
  pc \in {"init", "control"} => TxHead = TxTail /\ promised = 0 /\ ucsr0b = {}

IInv ==
  UartTypeOK /\ PutcHolds /\ GetcHolds /\ BeforeControl /\ HandlersArmed /\ AvailableKept

LEMMA InitInductive == Init => IInv
<1> SUFFICES ASSUME Init PROVE IInv
  OBVIOUS
<1> USE SizesAssumption, ByteAssumption, WorkAssumption
<1>1. UartTypeOK
  <2>1. fifo \in Seq(Frame) /\ Len(fifo) <= Latch
    BY DEF Init, Latch
  <2>2. puts + left <= Len(ToPut) /\ arrivals \in 0..Len(OnLine)
    BY DEF Init
  <2>3. /\ TxBuf \in [0..TxSize - 1 -> Byte] /\ TxHead \in 0..TxSize - 1 /\ TxTail \in 0..TxSize - 1
        /\ RxBuf \in [0..RxSize - 1 -> Byte] /\ RxHead \in 0..RxSize - 1 /\ RxTail \in 0..RxSize - 1
        /\ promised \in 0..RxSize - 1
    BY DEF Init
  <2>4. LastRxError \in Statuses /\ high \in Statuses \cup {NO_DATA} /\ pc \in Places
    BY DEF Init, Errors, Statuses, Places
  <2> QED
    BY <2>1, <2>2, <2>3, <2>4 DEF Init, UartTypeOK, ProgramTypeOK, SendTypeOK, ReceiveTypeOK, LineTypeOK, Enables
<1>2. PutcHolds /\ GetcHolds /\ BeforeControl
  BY DEF Init, PutcHolds, GetcHolds, BeforeControl
<1>3. HandlersArmed /\ AvailableKept
  BY DEF Init, HandlersArmed, AvailableKept, Count
<1> QED
  BY <1>1, <1>2, <1>3 DEF IInv

\* What the types say of the indices.
LEMMA SendIndices ==
  ASSUME SendTypeOK
  PROVE  /\ After(TxHead, TxSize) \in 0..TxSize - 1 /\ After(TxTail, TxSize) \in 0..TxSize - 1
         /\ TxHead # TxTail => After(TxHead, TxSize) # After(TxTail, TxSize)
<1>1. TxSize \in Nat /\ TxSize >= 2 /\ TxHead \in 0..TxSize - 1 /\ TxTail \in 0..TxSize - 1
  BY SizesAssumption DEF SendTypeOK
<1> QED
  BY <1>1, AfterInBuffer, AfterDistinct

LEMMA ReceiveIndices ==
  ASSUME ReceiveTypeOK
  PROVE  /\ After(RxHead, RxSize) \in 0..RxSize - 1 /\ After(RxTail, RxSize) \in 0..RxSize - 1
         /\ Count(RxTail, RxHead, RxSize) \in 0..RxSize - 1
         /\ RxHead # RxTail =>
              /\ Count(RxTail, RxHead, RxSize) >= 1
              /\ Count(After(RxTail, RxSize), RxHead, RxSize) = Count(RxTail, RxHead, RxSize) - 1
         /\ After(RxHead, RxSize) # RxTail =>
              Count(RxTail, After(RxHead, RxSize), RxSize) = Count(RxTail, RxHead, RxSize) + 1
<1>1. RxSize \in Nat /\ RxSize >= 2 /\ RxHead \in 0..RxSize - 1 /\ RxTail \in 0..RxSize - 1
  BY SizesAssumption DEF ReceiveTypeOK
<1>2. Count(RxTail, RxHead, RxSize) \in 0..RxSize - 1
      /\ (Count(RxTail, RxHead, RxSize) = 0 <=> RxTail = RxHead)
  BY <1>1, CountInRoom
<1>3. RxHead # RxTail => Count(RxTail, RxHead, RxSize) >= 1
  BY <1>2
<1> QED
  BY <1>1, <1>2, <1>3, AfterInBuffer, TailAdvances, HeadAdvances

LEMMA WorkTypes ==
  /\ Len(ToPut) \in Nat /\ \A i \in 1..Len(ToPut) : ToPut[i] \in Byte
  /\ Len(OnLine) \in Nat /\ \A i \in 1..Len(OnLine) : OnLine[i] \in Frame
  BY WorkAssumption

LEMMA BootKeeps == IInv /\ Boot => IInv'
<1> SUFFICES ASSUME IInv, Boot PROVE IInv'
  OBVIOUS
<1> USE SizesAssumption DEF IInv, UartTypeOK, hardware, tx, rx, result, Go
<1>1. CASE InitIndices
  <2>1. ProgramTypeOK'
    BY <1>1 DEF InitIndices, ProgramTypeOK, Statuses, Errors, Places, Enables
  <2>2. SendTypeOK'
    BY <1>1 DEF InitIndices, SendTypeOK
  <2>3. ReceiveTypeOK' /\ LineTypeOK'
    BY <1>1 DEF InitIndices, ReceiveTypeOK, LineTypeOK
  <2>4. PutcHolds' /\ GetcHolds' /\ BeforeControl'
    BY <1>1 DEF InitIndices, PutcHolds, GetcHolds, BeforeControl
  <2>5. HandlersArmed' /\ AvailableKept'
    BY <1>1 DEF InitIndices, Count, PutcHolds, BeforeControl, HandlersArmed, AvailableKept
  <2> QED
    BY <2>1, <2>2, <2>3, <2>4, <2>5
<1>2. CASE InitControl
  <2>1. ProgramTypeOK'
    BY <1>2 DEF InitControl, ProgramTypeOK, Statuses, Errors, Places, Enables
  <2>2. SendTypeOK'
    BY <1>2 DEF InitControl, SendTypeOK
  <2>3. ReceiveTypeOK' /\ LineTypeOK'
    BY <1>2 DEF InitControl, ReceiveTypeOK, LineTypeOK
  <2>4. PutcHolds' /\ GetcHolds' /\ BeforeControl'
    BY <1>2 DEF InitControl, PutcHolds, GetcHolds, BeforeControl
  <2>5. HandlersArmed' /\ AvailableKept'
    BY <1>2 DEF InitControl, PutcHolds, BeforeControl, HandlersArmed, AvailableKept
  <2> QED
    BY <2>1, <2>2, <2>3, <2>4, <2>5
<1>3. CASE Sei
  <2>1. ProgramTypeOK'
    BY <1>3 DEF Sei, ProgramTypeOK, Statuses, Errors, Places, Enables
  <2>2. SendTypeOK'
    BY <1>3 DEF Sei, SendTypeOK
  <2>3. ReceiveTypeOK' /\ LineTypeOK'
    BY <1>3 DEF Sei, ReceiveTypeOK, LineTypeOK
  <2>4. PutcHolds' /\ GetcHolds' /\ BeforeControl'
    BY <1>3 DEF Sei, PutcHolds, GetcHolds, BeforeControl
  <2>5. HandlersArmed' /\ AvailableKept'
    BY <1>3 DEF Sei, PutcHolds, BeforeControl, HandlersArmed, AvailableKept
  <2> QED
    BY <2>1, <2>2, <2>3, <2>4, <2>5
<1> QED
  BY <1>1, <1>2, <1>3 DEF Boot

LEMMA CallKeeps == IInv /\ (Calls \/ Exit) => IInv'
<1> SUFFICES ASSUME IInv, Calls \/ Exit PROVE IInv'
  OBVIOUS
<1> USE SizesAssumption DEF IInv, UartTypeOK, hardware, tx, rx, result, Go
<1>1. CASE \E n \in 1..Len(ToPut) : Puts(n)
  <2>1. ProgramTypeOK'
    BY <1>1 DEF Puts, ProgramTypeOK, Statuses, Errors, Places, Enables
  <2>2. SendTypeOK'
    BY <1>1 DEF Puts, SendTypeOK
  <2>3. ReceiveTypeOK' /\ LineTypeOK'
    BY <1>1 DEF Puts, ReceiveTypeOK, LineTypeOK
  <2>4. PutcHolds' /\ GetcHolds' /\ BeforeControl'
    BY <1>1 DEF Puts, PutcHolds, GetcHolds, BeforeControl
  <2>5. HandlersArmed' /\ AvailableKept'
    BY <1>1 DEF Puts, PutcHolds, BeforeControl, HandlersArmed, AvailableKept
  <2> QED
    BY <2>1, <2>2, <2>3, <2>4, <2>5
<1>2. CASE GetcTest
  <2>1. ProgramTypeOK'
    BY <1>2, ByteAssumption DEF GetcTest, Empty, ProgramTypeOK, Statuses, Errors, Places, Enables
  <2>2. SendTypeOK'
    BY <1>2 DEF GetcTest, SendTypeOK
  <2>3. ReceiveTypeOK' /\ LineTypeOK'
    BY <1>2 DEF GetcTest, ReceiveTypeOK, LineTypeOK
  <2>4. PutcHolds' /\ GetcHolds' /\ BeforeControl'
    BY <1>2 DEF GetcTest, Empty, PutcHolds, GetcHolds, BeforeControl
  <2>5. HandlersArmed' /\ AvailableKept'
    BY <1>2 DEF GetcTest, PutcHolds, BeforeControl, HandlersArmed, AvailableKept
  <2> QED
    BY <2>1, <2>2, <2>3, <2>4, <2>5
<1>3. CASE PeekTest
  <2>1. ProgramTypeOK'
    BY <1>3, ByteAssumption DEF PeekTest, Empty, ProgramTypeOK, Statuses, Errors, Places, Enables
  <2>2. SendTypeOK'
    BY <1>3 DEF PeekTest, SendTypeOK
  <2>3. ReceiveTypeOK' /\ LineTypeOK'
    BY <1>3 DEF PeekTest, ReceiveTypeOK, LineTypeOK
  <2>4. PutcHolds' /\ GetcHolds' /\ BeforeControl'
    BY <1>3 DEF PeekTest, Empty, PutcHolds, GetcHolds, BeforeControl
  <2>5. HandlersArmed' /\ AvailableKept'
    BY <1>3 DEF PeekTest, PutcHolds, BeforeControl, HandlersArmed, AvailableKept
  <2> QED
    BY <2>1, <2>2, <2>3, <2>4, <2>5
<1>4. CASE Available
  <2>1. ProgramTypeOK'
    BY <1>4 DEF Available, ProgramTypeOK, Statuses, Errors, Places, Enables
  <2>2. SendTypeOK'
    BY <1>4 DEF Available, SendTypeOK
  <2>3. ReceiveTypeOK' /\ LineTypeOK'
    BY <1>4, ReceiveIndices DEF Available, ReceiveTypeOK, LineTypeOK
  <2>4. PutcHolds' /\ GetcHolds' /\ BeforeControl'
    BY <1>4 DEF Available, PutcHolds, GetcHolds, BeforeControl
  <2>5. HandlersArmed' /\ AvailableKept'
    BY <1>4, ReceiveIndices DEF Available, PutcHolds, BeforeControl, HandlersArmed, AvailableKept
  <2> QED
    BY <2>1, <2>2, <2>3, <2>4, <2>5
<1>5. CASE Flush
  <2>1. ProgramTypeOK'
    BY <1>5 DEF Flush, ProgramTypeOK, Statuses, Errors, Places, Enables
  <2>2. SendTypeOK'
    BY <1>5 DEF Flush, SendTypeOK
  <2>3. ReceiveTypeOK' /\ LineTypeOK'
    BY <1>5 DEF Flush, ReceiveTypeOK, LineTypeOK
  <2>4. PutcHolds' /\ GetcHolds' /\ BeforeControl'
    BY <1>5 DEF Flush, PutcHolds, GetcHolds, BeforeControl
  <2>5. HandlersArmed' /\ AvailableKept'
    BY <1>5 DEF Flush, ReceiveTypeOK, Count, PutcHolds, BeforeControl, HandlersArmed, AvailableKept
  <2> QED
    BY <2>1, <2>2, <2>3, <2>4, <2>5
<1>6. CASE Exit
  <2>1. ProgramTypeOK'
    BY <1>6 DEF Exit, ProgramTypeOK, Statuses, Errors, Places, Enables
  <2>2. SendTypeOK'
    BY <1>6 DEF Exit, SendTypeOK
  <2>3. ReceiveTypeOK' /\ LineTypeOK'
    BY <1>6 DEF Exit, ReceiveTypeOK, LineTypeOK
  <2>4. PutcHolds' /\ GetcHolds' /\ BeforeControl'
    BY <1>6 DEF Exit, PutcHolds, GetcHolds, BeforeControl
  <2>5. HandlersArmed' /\ AvailableKept'
    BY <1>6 DEF Exit, PutcHolds, BeforeControl, HandlersArmed, AvailableKept
  <2> QED
    BY <2>1, <2>2, <2>3, <2>4, <2>5
<1> QED
  BY <1>1, <1>2, <1>3, <1>4, <1>5, <1>6 DEF Calls

LEMMA PutcKeeps == IInv /\ (PutcHead \/ PutcWait \/ PutcStore \/ PutcAdvance \/ PutcReadControl \/ PutcEnable) => IInv'
<1> SUFFICES ASSUME IInv, PutcHead \/ PutcWait \/ PutcStore \/ PutcAdvance \/ PutcReadControl \/ PutcEnable PROVE IInv'
  OBVIOUS
<1> USE SizesAssumption DEF IInv, UartTypeOK, hardware, tx, rx, result, Go
<1>1. CASE PutcHead
  <2>. tmp' \in Nat
    <3>1. After(TxHead, TxSize) \in Nat
      BY SendIndices
    <3>2. tmp' = After(TxHead, TxSize)
      BY <1>1 DEF PutcHead
    <3> QED
      BY <3>1, <3>2
  <2>1. ProgramTypeOK'
    BY <1>1 DEF PutcHead, ProgramTypeOK, Statuses, Errors, Places, Enables
  <2>2. SendTypeOK'
    BY <1>1 DEF PutcHead, SendTypeOK
  <2>3. ReceiveTypeOK' /\ LineTypeOK'
    BY <1>1 DEF PutcHead, ReceiveTypeOK, LineTypeOK
  <2>4. PutcHolds' /\ GetcHolds' /\ BeforeControl'
    BY <1>1 DEF PutcHead, PutcHolds, GetcHolds, BeforeControl
  <2>5. HandlersArmed' /\ AvailableKept'
    BY <1>1 DEF PutcHead, PutcHolds, BeforeControl, HandlersArmed, AvailableKept
  <2> QED
    BY <2>1, <2>2, <2>3, <2>4, <2>5
<1>2. CASE PutcWait
  <2>1. ProgramTypeOK'
    BY <1>2 DEF PutcWait, ProgramTypeOK, Statuses, Errors, Places, Enables
  <2>2. SendTypeOK'
    BY <1>2 DEF PutcWait, SendTypeOK
  <2>3. ReceiveTypeOK' /\ LineTypeOK'
    BY <1>2 DEF PutcWait, ReceiveTypeOK, LineTypeOK
  <2>4. PutcHolds' /\ GetcHolds' /\ BeforeControl'
    BY <1>2 DEF PutcWait, PutcHolds, GetcHolds, BeforeControl
  <2>5. HandlersArmed' /\ AvailableKept'
    BY <1>2 DEF PutcWait, PutcHolds, BeforeControl, HandlersArmed, AvailableKept
  <2> QED
    BY <2>1, <2>2, <2>3, <2>4, <2>5
<1>3. CASE PutcStore
  <2>. tmp \in 0..TxSize - 1 /\ left >= 1
    BY <1>3, SendIndices DEF PutcStore, PutcHolds
  <2>. ToPut[puts + 1] \in Byte
    BY WorkTypes DEF SendTypeOK
  <2>1. ProgramTypeOK'
    BY <1>3 DEF PutcStore, ProgramTypeOK, Statuses, Errors, Places, Enables
  <2>2. SendTypeOK'
    BY <1>3 DEF PutcStore, SendTypeOK
  <2>3. ReceiveTypeOK' /\ LineTypeOK'
    BY <1>3 DEF PutcStore, ReceiveTypeOK, LineTypeOK
  <2>4. PutcHolds' /\ GetcHolds' /\ BeforeControl'
    BY <1>3 DEF PutcStore, PutcHolds, GetcHolds, BeforeControl
  <2>5. HandlersArmed' /\ AvailableKept'
    BY <1>3 DEF PutcStore, PutcHolds, BeforeControl, HandlersArmed, AvailableKept
  <2> QED
    BY <2>1, <2>2, <2>3, <2>4, <2>5
<1>4. CASE PutcAdvance
  <2>. tmp \in 0..TxSize - 1 /\ left >= 1
    BY <1>4, SendIndices DEF PutcAdvance, PutcHolds
  <2>1. ProgramTypeOK'
    BY <1>4 DEF PutcAdvance, ProgramTypeOK, Statuses, Errors, Places, Enables
  <2>2. SendTypeOK'
    <3>1. left' \in Nat /\ puts' \in Nat /\ puts' + left' = puts + left
      <4>1. left \in Nat /\ puts \in Nat
        BY DEF SendTypeOK
      <4>2. left' = left - 1 /\ puts' = puts + 1
        BY <1>4 DEF PutcAdvance
      <4> QED
        BY <4>1, <4>2
    <3>2. puts' + left' <= Len(ToPut)
      BY <3>1 DEF SendTypeOK
    <3> QED
      BY <1>4, <3>1, <3>2 DEF PutcAdvance, SendTypeOK
  <2>3. ReceiveTypeOK' /\ LineTypeOK'
    BY <1>4 DEF PutcAdvance, ReceiveTypeOK, LineTypeOK
  <2>4. PutcHolds' /\ GetcHolds' /\ BeforeControl'
    BY <1>4 DEF PutcAdvance, PutcHolds, GetcHolds, BeforeControl
  <2>5. HandlersArmed' /\ AvailableKept'
    BY <1>4 DEF PutcAdvance, PutcHolds, BeforeControl, HandlersArmed, AvailableKept
  <2> QED
    BY <2>1, <2>2, <2>3, <2>4, <2>5
<1>5. CASE PutcReadControl
  <2>1. ProgramTypeOK'
    BY <1>5 DEF PutcReadControl, ProgramTypeOK, Statuses, Errors, Places, Enables
  <2>2. SendTypeOK'
    BY <1>5 DEF PutcReadControl, SendTypeOK
  <2>3. ReceiveTypeOK' /\ LineTypeOK'
    BY <1>5 DEF PutcReadControl, ReceiveTypeOK, LineTypeOK
  <2>4. PutcHolds' /\ GetcHolds' /\ BeforeControl'
    BY <1>5 DEF PutcReadControl, HandlersArmed, PutcHolds, GetcHolds, BeforeControl
  <2>5. HandlersArmed' /\ AvailableKept'
    BY <1>5 DEF PutcReadControl, PutcHolds, BeforeControl, HandlersArmed, AvailableKept
  <2> QED
    BY <2>1, <2>2, <2>3, <2>4, <2>5
<1>6. CASE PutcEnable
  <2>. left # 0 => left >= 1
    BY DEF SendTypeOK
  <2>1. ProgramTypeOK'
    BY <1>6 DEF PutcEnable, PutcHolds, ProgramTypeOK, Statuses, Errors, Places, Enables
  <2>2. SendTypeOK'
    BY <1>6 DEF PutcEnable, SendTypeOK
  <2>3. ReceiveTypeOK' /\ LineTypeOK'
    BY <1>6 DEF PutcEnable, ReceiveTypeOK, LineTypeOK
  <2>4. PutcHolds' /\ GetcHolds' /\ BeforeControl'
    BY <1>6 DEF PutcEnable, PutcHolds, GetcHolds, BeforeControl
  <2>5. HandlersArmed' /\ AvailableKept'
    BY <1>6 DEF PutcEnable, PutcHolds, BeforeControl, HandlersArmed, AvailableKept
  <2> QED
    BY <2>1, <2>2, <2>3, <2>4, <2>5
<1> QED
  BY <1>1, <1>2, <1>3, <1>4, <1>5, <1>6

LEMMA GetcKeeps == IInv /\ (GetcTail \/ GetcData \/ PeekData \/ ReadStatus) => IInv'
<1> SUFFICES ASSUME IInv, GetcTail \/ GetcData \/ PeekData \/ ReadStatus PROVE IInv'
  OBVIOUS
<1> USE SizesAssumption DEF IInv, UartTypeOK, hardware, tx, rx, result, Go
<1>1. CASE GetcTail
  <2>. RxHead # RxTail
    BY <1>1 DEF GetcTail, GetcHolds
  <2>. tmp' = After(RxTail, RxSize) /\ RxTail' = After(RxTail, RxSize)
    BY <1>1 DEF GetcTail
  <2>. After(RxTail, RxSize) \in 0..RxSize - 1 /\ After(RxTail, RxSize) \in Nat
    BY ReceiveIndices
  <2>. promised \in 0..RxSize - 1 /\ promised' = IF promised = 0 THEN 0 ELSE promised - 1
    BY <1>1 DEF GetcTail, ReceiveTypeOK
  <2>. promised' <= Count(After(RxTail, RxSize), RxHead, RxSize)
    BY ReceiveIndices DEF AvailableKept
  <2>1. ProgramTypeOK'
    BY <1>1 DEF GetcTail, ProgramTypeOK, Statuses, Errors, Places, Enables
  <2>2. SendTypeOK'
    BY <1>1 DEF GetcTail, SendTypeOK
  <2>3. ReceiveTypeOK' /\ LineTypeOK'
    <3>1. promised' \in 0..RxSize - 1
      OBVIOUS
    <3> QED
      BY <1>1, <3>1 DEF GetcTail, ReceiveTypeOK, LineTypeOK
  <2>4. PutcHolds' /\ GetcHolds' /\ BeforeControl'
    BY <1>1 DEF GetcTail, PutcHolds, GetcHolds, BeforeControl
  <2>5. HandlersArmed' /\ AvailableKept'
    BY <1>1 DEF GetcTail, PutcHolds, BeforeControl, HandlersArmed, AvailableKept
  <2> QED
    BY <2>1, <2>2, <2>3, <2>4, <2>5
<1>2. CASE GetcData
  <2>. RxBuf[tmp] \in Byte
    BY <1>2 DEF GetcData, GetcHolds, ReceiveTypeOK
  <2>1. ProgramTypeOK'
    BY <1>2 DEF GetcData, ProgramTypeOK, Statuses, Errors, Places, Enables
  <2>2. SendTypeOK'
    BY <1>2 DEF GetcData, SendTypeOK
  <2>3. ReceiveTypeOK' /\ LineTypeOK'
    BY <1>2 DEF GetcData, ReceiveTypeOK, LineTypeOK
  <2>4. PutcHolds' /\ GetcHolds' /\ BeforeControl'
    BY <1>2 DEF GetcData, PutcHolds, GetcHolds, BeforeControl
  <2>5. HandlersArmed' /\ AvailableKept'
    BY <1>2 DEF GetcData, PutcHolds, BeforeControl, HandlersArmed, AvailableKept
  <2> QED
    BY <2>1, <2>2, <2>3, <2>4, <2>5
<1>3. CASE PeekData
  <2>. RxBuf[After(RxTail, RxSize)] \in Byte
    BY ReceiveIndices DEF ReceiveTypeOK
  <2>1. ProgramTypeOK'
    BY <1>3 DEF PeekData, ProgramTypeOK, Statuses, Errors, Places, Enables
  <2>2. SendTypeOK'
    BY <1>3 DEF PeekData, SendTypeOK
  <2>3. ReceiveTypeOK' /\ LineTypeOK'
    BY <1>3 DEF PeekData, ReceiveTypeOK, LineTypeOK
  <2>4. PutcHolds' /\ GetcHolds' /\ BeforeControl'
    BY <1>3 DEF PeekData, PutcHolds, GetcHolds, BeforeControl
  <2>5. HandlersArmed' /\ AvailableKept'
    BY <1>3 DEF PeekData, PutcHolds, BeforeControl, HandlersArmed, AvailableKept
  <2> QED
    BY <2>1, <2>2, <2>3, <2>4, <2>5
<1>4. CASE ReadStatus
  <2>1. ProgramTypeOK'
    BY <1>4 DEF ReadStatus, ReceiveTypeOK, ProgramTypeOK, Statuses, Errors, Places, Enables
  <2>2. SendTypeOK'
    BY <1>4 DEF ReadStatus, SendTypeOK
  <2>3. ReceiveTypeOK' /\ LineTypeOK'
    BY <1>4 DEF ReadStatus, ReceiveTypeOK, LineTypeOK
  <2>4. PutcHolds' /\ GetcHolds' /\ BeforeControl'
    BY <1>4 DEF ReadStatus, PutcHolds, GetcHolds, BeforeControl
  <2>5. HandlersArmed' /\ AvailableKept'
    BY <1>4 DEF ReadStatus, PutcHolds, BeforeControl, HandlersArmed, AvailableKept
  <2> QED
    BY <2>1, <2>2, <2>3, <2>4, <2>5
<1> QED
  BY <1>1, <1>2, <1>3, <1>4

\* The receiver: what it holds stays a short sequence of frames.
LEMMA FrameWithOverrun ==
  ASSUME NEW frames \in Seq(Frame), Len(frames) = Latch
  PROVE  LET marked == [frames EXCEPT ![Latch].status = IF @ \in {0, FE0} THEN @ + DOR0 ELSE @]
         IN  marked \in Seq(Frame) /\ Len(marked) = Latch
<1> DEFINE status == frames[Latch].status
           other == IF status \in {0, FE0} THEN status + DOR0 ELSE status
           last == [frames[Latch] EXCEPT !.status = other]
<1>1. frames[Latch] \in Frame
  BY DEF Latch
<1>2. other \in Errors
  BY <1>1 DEF Frame, Errors, FE0, DOR0
<1>3. last \in Frame
  BY <1>1, <1>2 DEF Frame
<1> HIDE DEF last
<1>4. [frames EXCEPT ![Latch] = last] \in Seq(Frame) /\ Len([frames EXCEPT ![Latch] = last]) = Latch
  BY <1>3, ExceptSeq DEF Latch
<1> QED
  BY <1>4 DEF last

LEMMA HandlerKeeps ==
  IInv /\ (ReceiveInterrupt \/ TransmitInterrupt \/ Shift \/ Arrive) => IInv'
<1> SUFFICES ASSUME IInv, ReceiveInterrupt \/ TransmitInterrupt \/ Shift \/ Arrive PROVE IInv'
  OBVIOUS
<1> USE SizesAssumption DEF IInv, UartTypeOK, hardware, tx, rx, result
<1>1. CASE ReceiveInterrupt
  <2> DEFINE tmphead == After(RxHead, RxSize)
  <2>1. Head(fifo) \in Frame /\ Tail(fifo) \in Seq(Frame) /\ Len(Tail(fifo)) <= Latch
    <3>1. fifo \in Seq(Frame) /\ fifo # <<>> /\ Len(fifo) <= Latch
      BY <1>1 DEF ReceiveInterrupt, RxPending, LineTypeOK
    <3> QED
      BY <3>1 DEF Latch
  <2>2. LineTypeOK'
    BY <1>1, <2>1 DEF ReceiveInterrupt, LineTypeOK
  <2>3. ProgramTypeOK' /\ SendTypeOK' /\ PutcHolds' /\ BeforeControl' /\ HandlersArmed'
    BY <1>1 DEF ReceiveInterrupt, ProgramTypeOK, SendTypeOK, PutcHolds, BeforeControl,
                HandlersArmed
  <2>4. CASE tmphead = RxTail
    <3>1. ReceiveTypeOK'
      BY <1>1, <2>4 DEF ReceiveInterrupt, ReceiveTypeOK, Statuses
    <3>2. GetcHolds' /\ AvailableKept'
      <4>1. UNCHANGED <<RxHead, RxTail, promised, pc, tmp>>
        BY <1>1, <2>4 DEF ReceiveInterrupt
      <4> QED
        BY <4>1 DEF GetcHolds, AvailableKept
    <3> QED
      BY <2>2, <2>3, <3>1, <3>2
  <2>5. CASE tmphead # RxTail
    <3>1. /\ RxHead' = tmphead /\ RxBuf' = [RxBuf EXCEPT ![tmphead] = Head(fifo).data]
          /\ LastRxError' = Head(fifo).status /\ UNCHANGED <<RxTail, promised, dropped, pc, tmp>>
      BY <1>1, <2>5 DEF ReceiveInterrupt
    <3>2. Head(fifo).data \in Byte /\ Head(fifo).status \in Errors
      BY <2>1 DEF Frame
    <3>3. ReceiveTypeOK'
      BY <3>1, <3>2, ReceiveIndices DEF ReceiveTypeOK, Statuses
    <3>4. AvailableKept'
      BY <2>5, <3>1, ReceiveIndices DEF ReceiveTypeOK, AvailableKept
    <3>5. GetcHolds'
      BY <2>5, <3>1 DEF GetcHolds
    <3> QED
      BY <2>2, <2>3, <3>3, <3>4, <3>5
  <2> QED
    BY <2>4, <2>5
<1>2. CASE TransmitInterrupt
  <2>1. ProgramTypeOK'
    BY <1>2 DEF TransmitInterrupt, ProgramTypeOK
  <2>2. SendTypeOK'
    BY <1>2, SendIndices DEF TransmitInterrupt, SendTypeOK
  <2>3. ReceiveTypeOK' /\ LineTypeOK'
    BY <1>2 DEF TransmitInterrupt, ReceiveTypeOK, LineTypeOK
  <2>4. PutcHolds'
    BY <1>2, SendIndices DEF TransmitInterrupt, PutcHolds
  <2>5. GetcHolds' /\ BeforeControl' /\ AvailableKept'
    BY <1>2 DEF TransmitInterrupt, GetcHolds, BeforeControl, AvailableKept
  <2>6. HandlersArmed'
    BY <1>2 DEF TransmitInterrupt, HandlersArmed
  <2> QED
    BY <2>1, <2>2, <2>3, <2>4, <2>5, <2>6
<1>3. CASE Shift
  <2>1. ProgramTypeOK' /\ SendTypeOK' /\ ReceiveTypeOK' /\ LineTypeOK'
    BY <1>3 DEF Shift, ProgramTypeOK, SendTypeOK, ReceiveTypeOK, LineTypeOK
  <2> QED
    BY <1>3, <2>1 DEF Shift, PutcHolds, GetcHolds, BeforeControl, HandlersArmed, AvailableKept
<1>4. CASE Arrive
  <2>1. arrivals' \in 0..Len(OnLine) /\ OnLine[arrivals + 1] \in Frame
    BY <1>4, WorkTypes DEF Arrive, LineTypeOK
  <2>2. fifo' \in Seq(Frame) /\ Len(fifo') <= Latch
    <3>1. fifo \in Seq(Frame) /\ Len(fifo) \in Nat /\ Len(fifo) <= 2
      BY DEF LineTypeOK, Latch
    <3>2. CASE Len(fifo) < Latch
      BY <1>4, <2>1, <3>1, <3>2 DEF Arrive, Latch
    <3>3. CASE Len(fifo) = Latch
      <4>1. ~(Len(fifo) < Latch) /\ Latch <= Latch
        BY <3>3 DEF Latch
      <4>2. fifo' = [fifo EXCEPT ![Latch].status = IF @ \in {0, FE0} THEN @ + DOR0 ELSE @]
        BY <1>4, <4>1 DEF Arrive
      <4> QED
        BY <3>1, <3>3, <4>1, <4>2, FrameWithOverrun
    <3>4. Len(fifo) < Latch \/ Len(fifo) = Latch
      <4>1. \A n \in Nat : n <= 2 => n < Latch \/ n = Latch
        BY DEF Latch
      <4> QED
        BY <3>1, <4>1, Zenon
    <3> QED
      BY <3>2, <3>3, <3>4
  <2>3. LineTypeOK'
    BY <2>1, <2>2 DEF LineTypeOK
  <2>4. ProgramTypeOK' /\ SendTypeOK' /\ ReceiveTypeOK'
    BY <1>4 DEF Arrive, ProgramTypeOK, SendTypeOK, ReceiveTypeOK
  <2> QED
    BY <1>4, <2>3, <2>4 DEF Arrive, PutcHolds, GetcHolds, BeforeControl, HandlersArmed,
                            AvailableKept
<1> QED
  BY <1>1, <1>2, <1>3, <1>4

LEMMA StutterKeeps == IInv /\ UNCHANGED vars => IInv'
<1> SUFFICES ASSUME IInv, UNCHANGED vars PROVE IInv'
  OBVIOUS
<1> USE DEF IInv, vars
<1>1. UartTypeOK'
  BY DEF UartTypeOK, ProgramTypeOK, SendTypeOK, ReceiveTypeOK, LineTypeOK
<1>2. PutcHolds' /\ GetcHolds' /\ BeforeControl'
  BY DEF PutcHolds, GetcHolds, BeforeControl
<1>3. HandlersArmed' /\ AvailableKept'
  BY DEF HandlersArmed, AvailableKept
<1> QED
  BY <1>1, <1>2, <1>3

LEMMA StepInductive == IInv /\ [Next]_vars => IInv'
  BY BootKeeps, CallKeeps, PutcKeeps, GetcKeeps, HandlerKeeps, StutterKeeps DEF Next, InCall

(***************************************************************************)
(* The theorems.                                                           *)
(***************************************************************************)
\* Every index stays in its buffer, whatever its size.
THEOREM IndicesInBuffers == Spec => []UartTypeOK
<1>1. IInv => UartTypeOK
  BY DEF IInv
<1> QED
  BY InitInductive, StepInductive, <1>1, PTL DEF Spec

\* The read-modify-write of UCSR0B in putc never leaves a handler disabled that
\* has work, although the handlers run between its load and its store.
THEOREM HandlersStayArmed == Spec => []HandlersArmed
<1>1. IInv => HandlersArmed
  BY DEF IInv
<1> QED
  BY InitInductive, StepInductive, <1>1, PTL DEF Spec

\* The bytes available() counted stay until getc takes them.
THEOREM AvailableStays == Spec => []AvailableKept
<1>1. IInv => AvailableKept
  BY DEF IInv
<1> QED
  BY InitInductive, StepInductive, <1>1, PTL DEF Spec

-------------------------------------------------------------------------------
(***************************************************************************)
(* uart.c implements the two queues of SerialPort: each step of the        *)
(* program, of a handler or of the hardware is a step of the queues or     *)
(* leaves them as they are, for buffers of any size.                       *)
(***************************************************************************)

(***************************************************************************)
(* Ring buffers as sequences.                                              *)
(***************************************************************************)
LEMMA SlotInBuffer ==
  ASSUME NEW size \in Nat, size >= 2, NEW t \in 0..size - 1, NEW h \in 0..size - 1,
         NEW k \in 1..Count(t, h, size)
  PROVE  /\ Slot(t, k, size) \in 0..size - 1
         /\ Slot(t, k, size) # After(h, size)
  BY DEF Slot, Count, After

LEMMA ContentsIsSeq ==
  ASSUME NEW S, NEW size \in Nat, size >= 2, NEW buf \in [0..size - 1 -> S],
         NEW t \in 0..size - 1, NEW h \in 0..size - 1
  PROVE  /\ Contents(buf, t, h, size) \in Seq(S)
         /\ Len(Contents(buf, t, h, size)) = Count(t, h, size)
<1>1. Count(t, h, size) \in Nat
  BY CountInRoom
<1>2. \A k \in 1..Count(t, h, size) : buf[Slot(t, k, size)] \in S
  BY SlotInBuffer
<1> QED
  BY <1>1, <1>2 DEF Contents

\* A queue is empty exactly when its indices are equal.
LEMMA ContentsEmpty ==
  ASSUME NEW size \in Nat, size >= 2, NEW buf, NEW t \in 0..size - 1, NEW h \in 0..size - 1
  PROVE  /\ t = h => Contents(buf, t, h, size) = <<>>
         /\ t # h => Contents(buf, t, h, size) # <<>>
<1> DEFINE S == {buf[i] : i \in 0..size - 1}
<1>1. Count(t, h, size) \in Nat /\ (Count(t, h, size) = 0 <=> t = h)
  BY CountInRoom
<1>2. \A k \in 1..Count(t, h, size) : buf[Slot(t, k, size)] \in S
  BY SlotInBuffer
<1> HIDE DEF S
<1>3. /\ Contents(buf, t, h, size) \in Seq(S)
      /\ Len(Contents(buf, t, h, size)) = Count(t, h, size)
  BY <1>1, <1>2 DEF Contents
<1>4. \A s \in Seq(S) : s = <<>> <=> Len(s) = 0
  OBVIOUS
<1> QED
  BY <1>1, <1>3, <1>4

\* A write behind the head changes nothing.
LEMMA WriteOutside ==
  ASSUME NEW S, NEW size \in Nat, size >= 2, NEW buf \in [0..size - 1 -> S],
         NEW t \in 0..size - 1, NEW h \in 0..size - 1, NEW b
  PROVE  Contents([buf EXCEPT ![After(h, size)] = b], t, h, size) = Contents(buf, t, h, size)
<1> DEFINE new == [buf EXCEPT ![After(h, size)] = b]
<1>1. \A k \in 1..Count(t, h, size) : new[Slot(t, k, size)] = buf[Slot(t, k, size)]
  BY SlotInBuffer
<1> QED
  BY <1>1 DEF Contents

\* Moving the head appends what was written behind it.
LEMMA Enqueue ==
  ASSUME NEW S, NEW size \in Nat, size >= 2, NEW buf \in [0..size - 1 -> S],
         NEW t \in 0..size - 1, NEW h \in 0..size - 1, After(h, size) # t
  PROVE  Contents(buf, t, After(h, size), size)
           = Append(Contents(buf, t, h, size), buf[After(h, size)])
<1> DEFINE n == Count(t, h, size)
           new == Contents(buf, t, After(h, size), size)
           old == Contents(buf, t, h, size)
<1>1. n \in Nat /\ Count(t, After(h, size), size) = n + 1
  BY CountInRoom, HeadAdvances
<1>2. Slot(t, n + 1, size) = After(h, size)
  BY DEF Slot, Count, After
<1>3. old \in Seq(S) /\ Len(old) = n
  BY ContentsIsSeq
<1>4. new = [k \in 1..n + 1 |-> buf[Slot(t, k, size)]]
  BY <1>1 DEF Contents
<1>5. \A k \in 1..n : old[k] = buf[Slot(t, k, size)]
  BY DEF Contents
<1>6. Append(old, buf[After(h, size)])
        = [k \in 1..n + 1 |-> IF k = n + 1 THEN buf[After(h, size)] ELSE old[k]]
  BY <1>1, <1>3
<1> HIDE DEF n, new, old
<1>7. \A k \in 1..n + 1 : buf[Slot(t, k, size)] = IF k = n + 1 THEN buf[After(h, size)] ELSE old[k]
  BY <1>1, <1>2, <1>5
<1>8. new = Append(old, buf[After(h, size)])
  BY <1>4, <1>6, <1>7
<1> QED
  BY <1>8 DEF new, old

\* Moving the tail takes the oldest byte.
LEMMA Dequeue ==
  ASSUME NEW S, NEW size \in Nat, size >= 2, NEW buf \in [0..size - 1 -> S],
         NEW t \in 0..size - 1, NEW h \in 0..size - 1, t # h
  PROVE  /\ Head(Contents(buf, t, h, size)) = buf[After(t, size)]
         /\ Tail(Contents(buf, t, h, size)) = Contents(buf, After(t, size), h, size)
<1> DEFINE n == Count(t, h, size)
           old == Contents(buf, t, h, size)
           new == Contents(buf, After(t, size), h, size)
<1>1. n \in Nat /\ n >= 1
  BY DEF Count
<1>2. Count(After(t, size), h, size) = n - 1
  BY TailAdvances
<1>3. new \in Seq(S) /\ Len(new) = n - 1
  <2>1. After(t, size) \in 0..size - 1
    BY AfterInBuffer
  <2> QED
    BY <1>2, <2>1, ContentsIsSeq
<1>4. old \in Seq(S) /\ Len(old) = n
  BY ContentsIsSeq
<1>5. \A k \in 1..n : old[k] = buf[Slot(t, k, size)]
  BY DEF Contents
<1>6. Slot(t, 1, size) = After(t, size)
  BY DEF Slot, After
<1>7. \A k \in 1..n - 1 : Slot(After(t, size), k, size) = Slot(t, k + 1, size)
  BY DEF Slot, After, Count
<1>8. new = [k \in 1..n - 1 |-> buf[Slot(After(t, size), k, size)]]
  BY <1>2 DEF Contents
<1> HIDE DEF n, old, new
<1>9. Head(old) = buf[After(t, size)]
  BY <1>1, <1>4, <1>5, <1>6
<1>10. old # <<>>
  BY <1>1, <1>4
<1>11. /\ Tail(old) \in Seq(S) /\ Len(Tail(old)) = n - 1
      /\ \A k \in 1..n - 1 : Tail(old)[k] = old[k + 1]
  BY <1>4, <1>10, HeadTailProperties
<1>12. \A k \in 1..n - 1 : Tail(old)[k] = new[k]
  <2>1. \A k \in 1..n - 1 : old[k + 1] = buf[Slot(After(t, size), k, size)]
    BY <1>1, <1>5, <1>7
  <2> QED
    BY <1>8, <1>11, <2>1
<1>13. Tail(old) = new
  BY <1>11, <1>12, <1>3, SeqEqual
<1> QED
  BY <1>9, <1>13 DEF old, new

(***************************************************************************)
(* The refinement.                                                         *)
(***************************************************************************)
LEMMA InitRefines == Init => Port!Init
<1> SUFFICES ASSUME Init PROVE Port!Init
  OBVIOUS
<1>1. TxBuf \in [0..TxSize - 1 -> {0}] /\ RxBuf \in [0..RxSize - 1 -> {0}]
  BY DEF Init
<1>2. 0 \in 0..TxSize - 1 /\ 0 \in 0..RxSize - 1
  BY SizesAssumption
<1>3. toSend = <<>> /\ received = <<>>
  <2>1. TxSize \in Nat /\ TxSize >= 2 /\ RxSize \in Nat /\ RxSize >= 2
    BY SizesAssumption
  <2>2. Contents(TxBuf, 0, 0, TxSize) = <<>>
    BY <1>1, <1>2, <2>1, ContentsEmpty
  <2>3. Contents(RxBuf, 0, 0, RxSize) = <<>>
    BY <1>1, <1>2, <2>1, ContentsEmpty
  <2> QED
    BY <2>2, <2>3 DEF Init, toSend, received
<1> QED
  BY <1>3 DEF Init, Port!Init, taken, NoByte, Port!NoByte

\* What the types say of the queues.
LEMMA QueueTypes ==
  ASSUME SendTypeOK, ReceiveTypeOK
  PROVE  /\ toSend \in Seq(Byte) /\ Len(toSend) = Count(TxTail, TxHead, TxSize)
         /\ received \in Seq(Byte) /\ Len(received) = Count(RxTail, RxHead, RxSize)
         /\ toSend = <<>> <=> TxTail = TxHead
         /\ received = <<>> <=> RxTail = RxHead
<1>1. /\ TxBuf \in [0..TxSize - 1 -> Byte] /\ TxSize \in Nat /\ TxSize >= 2
      /\ TxHead \in 0..TxSize - 1 /\ TxTail \in 0..TxSize - 1
  BY SizesAssumption DEF SendTypeOK
<1>2. /\ RxBuf \in [0..RxSize - 1 -> Byte] /\ RxSize \in Nat /\ RxSize >= 2
      /\ RxHead \in 0..RxSize - 1 /\ RxTail \in 0..RxSize - 1
  BY SizesAssumption DEF ReceiveTypeOK
<1>3. toSend \in Seq(Byte) /\ Len(toSend) = Count(TxTail, TxHead, TxSize)
  BY <1>1, ContentsIsSeq DEF toSend
<1>4. toSend = <<>> <=> TxTail = TxHead
  BY <1>1, ContentsEmpty DEF toSend
<1>5. received \in Seq(Byte) /\ Len(received) = Count(RxTail, RxHead, RxSize)
  BY <1>2, ContentsIsSeq DEF received
<1>6. received = <<>> <=> RxTail = RxHead
  BY <1>2, ContentsEmpty DEF received
<1> QED
  BY <1>3, <1>4, <1>5, <1>6

LEMMA BootRefines == IInv /\ Boot => UNCHANGED Port!portVars \/ Port!Next
<1> SUFFICES ASSUME IInv, Boot PROVE UNCHANGED Port!portVars \/ Port!Next
  OBVIOUS
<1>1. CASE InitIndices
  <2>1. toSend' = <<>> /\ received' = <<>>
    <3>1. /\ TxBuf \in [0..TxSize - 1 -> Byte] /\ 0 \in 0..TxSize - 1 /\ TxSize \in Nat /\ TxSize >= 2
          /\ RxBuf \in [0..RxSize - 1 -> Byte] /\ 0 \in 0..RxSize - 1 /\ RxSize \in Nat /\ RxSize >= 2
      BY SizesAssumption DEF IInv, UartTypeOK, SendTypeOK, ReceiveTypeOK
    <3>2. /\ Contents(TxBuf, 0, 0, TxSize) = <<>>
          /\ Contents(RxBuf, 0, 0, RxSize) = <<>>
      BY <3>1, ContentsEmpty
    <3>3. TxBuf' = TxBuf /\ RxBuf' = RxBuf /\ TxHead' = 0 /\ TxTail' = 0 /\ RxHead' = 0 /\ RxTail' = 0
      BY <1>1 DEF InitIndices, rx
    <3> QED
      BY <3>2, <3>3 DEF toSend, received
  <2>2. toSend = <<>>
    BY <1>1, QueueTypes DEF IInv, UartTypeOK, BeforeControl, InitIndices, Go
  <2>3. UNCHANGED <<udr, taken, dropped>>
    BY <1>1 DEF InitIndices, Go, hardware, result, taken
  <2> QED
    BY <2>1, <2>2, <2>3 DEF Port!Next, Port!Flush
<1>2. CASE InitControl \/ Sei
  BY <1>2 DEF InitControl, Sei, Go, hardware, tx, rx, result, toSend, received, taken, Port!portVars
<1> QED
  BY <1>1, <1>2 DEF Boot

LEMMA CallRefines == IInv /\ (Calls \/ Exit) => UNCHANGED Port!portVars \/ Port!Next
<1> SUFFICES ASSUME IInv, Calls \/ Exit PROVE UNCHANGED Port!portVars \/ Port!Next
  OBVIOUS
<1> USE DEF Go, hardware, tx, rx, result
<1>1. CASE GetcTest \/ PeekTest
  <2>1. UNCHANGED <<toSend, received, udr, dropped>>
    BY <1>1 DEF GetcTest, PeekTest, toSend, received
  <2>2. CASE Empty
    <3>1. received = <<>>
      BY <2>2, QueueTypes DEF IInv, UartTypeOK, Empty
    <3>2. taken' = 0
      BY <1>1, <2>2 DEF GetcTest, PeekTest, taken
    <3> QED
      BY <2>1, <3>1, <3>2 DEF Port!Next, Port!FindNothing
  <2>3. CASE ~Empty
    <3>1. taken' = taken
      BY <1>1, <2>3 DEF GetcTest, PeekTest, taken
    <3> QED
      BY <2>1, <3>1 DEF Port!portVars
  <2> QED
    BY <2>2, <2>3
<1>2. CASE Flush
  <2>1. received' = <<>>
    <3>1. RxBuf \in [0..RxSize - 1 -> Byte] /\ RxTail \in 0..RxSize - 1 /\ RxSize \in Nat /\ RxSize >= 2
      BY SizesAssumption DEF IInv, UartTypeOK, ReceiveTypeOK
    <3>2. Contents(RxBuf, RxTail, RxTail, RxSize) = <<>>
      BY <3>1, ContentsEmpty
    <3> QED
      BY <1>2, <3>2 DEF Flush, received
  <2>2. UNCHANGED <<toSend, udr, taken, dropped>>
    BY <1>2 DEF Flush, toSend, taken
  <2> QED
    BY <2>1, <2>2 DEF Port!Next, Port!Flush
<1>3. CASE Available
  BY <1>3 DEF Available, toSend, received, taken, Port!portVars
<1>4. CASE Exit
  BY <1>4 DEF Exit, toSend, received, taken, Port!portVars
<1>5. CASE \E n \in 1..Len(ToPut) : Puts(n)
  BY <1>5 DEF Puts, toSend, received, taken, Port!portVars
<1> QED
  BY <1>1, <1>2, <1>3, <1>4, <1>5 DEF Calls

\* What putc stores is not in the queue yet; moving the head puts it there.
LEMMA StoreKeeps ==
  ASSUME IInv, PutcStore
  PROVE  UNCHANGED <<toSend, received, taken, udr, dropped>>
<1>1. /\ TxBuf \in [0..TxSize - 1 -> Byte] /\ TxSize \in Nat /\ TxSize >= 2
      /\ TxHead \in 0..TxSize - 1 /\ TxTail \in 0..TxSize - 1
  BY SizesAssumption DEF IInv, UartTypeOK, SendTypeOK
<1>2. tmp = After(TxHead, TxSize)
  BY DEF PutcStore, Go, IInv, PutcHolds
<1>3. toSend' = toSend
  BY <1>1, <1>2, WriteOutside DEF PutcStore, toSend
<1> QED
  BY <1>3 DEF PutcStore, Go, hardware, rx, result, received, taken

LEMMA AdvanceAppends ==
  ASSUME IInv, PutcAdvance
  PROVE  /\ toSend' = Append(toSend, TxBuf[tmp])
         /\ TxBuf[tmp] \in Byte /\ Len(toSend) < TxSize - 1
         /\ UNCHANGED <<received, taken, udr, dropped>>
<1>1. /\ TxBuf \in [0..TxSize - 1 -> Byte] /\ TxSize \in Nat /\ TxSize >= 2
      /\ TxHead \in 0..TxSize - 1 /\ TxTail \in 0..TxSize - 1
  BY SizesAssumption DEF IInv, UartTypeOK, SendTypeOK
<1>2. tmp = After(TxHead, TxSize) /\ tmp # TxTail
  BY DEF PutcAdvance, Go, IInv, PutcHolds
<1>3. toSend' = Append(toSend, TxBuf[tmp])
  BY <1>1, <1>2, Enqueue DEF PutcAdvance, toSend
<1>4. TxBuf[tmp] \in Byte
  BY <1>1, <1>2, AfterInBuffer
<1>5. Len(toSend) < TxSize - 1
  <2>1. /\ After(TxHead, TxSize) \in 0..TxSize - 1
        /\ Count(TxTail, After(TxHead, TxSize), TxSize) = Count(TxTail, TxHead, TxSize) + 1
    BY <1>1, <1>2, AfterInBuffer, HeadAdvances
  <2>2. Count(TxTail, After(TxHead, TxSize), TxSize) \in 0..TxSize - 1
    BY <1>1, <2>1, CountInRoom
  <2>3. Len(toSend) = Count(TxTail, TxHead, TxSize) /\ Count(TxTail, TxHead, TxSize) \in Nat
    BY <1>1, QueueTypes, CountInRoom DEF IInv, UartTypeOK
  <2> QED
    BY <1>1, <2>1, <2>2, <2>3
<1>6. UNCHANGED <<received, taken, udr, dropped>>
  BY DEF PutcAdvance, Go, hardware, rx, result, received, taken
<1> QED
  BY <1>3, <1>4, <1>5, <1>6

LEMMA PutcRefines ==
  IInv /\ (PutcHead \/ PutcWait \/ PutcStore \/ PutcAdvance \/ PutcReadControl \/ PutcEnable)
    => UNCHANGED Port!portVars \/ Port!Next
<1> SUFFICES ASSUME IInv,
                    PutcHead \/ PutcWait \/ PutcStore \/ PutcAdvance \/ PutcReadControl \/ PutcEnable
             PROVE  UNCHANGED Port!portVars \/ Port!Next
  OBVIOUS
<1> USE DEF Go, hardware, tx, rx, result
<1>1. CASE PutcHead \/ PutcWait
  BY <1>1 DEF PutcHead, PutcWait, toSend, received, taken, Port!portVars
<1>2. CASE PutcReadControl \/ PutcEnable
  BY <1>2 DEF PutcReadControl, PutcEnable, toSend, received, taken, Port!portVars
<1>3. CASE PutcStore
  BY <1>3, StoreKeeps DEF Port!portVars
<1>4. CASE PutcAdvance
  BY <1>4, AdvanceAppends DEF Port!Next, Port!Put
<1> QED
  BY <1>1, <1>2, <1>3, <1>4

LEMMA GetcRefines ==
  IInv /\ (GetcTail \/ GetcData \/ PeekData \/ ReadStatus)
    => UNCHANGED Port!portVars \/ Port!Next
<1> SUFFICES ASSUME IInv, GetcTail \/ GetcData \/ PeekData \/ ReadStatus
             PROVE  UNCHANGED Port!portVars \/ Port!Next
  OBVIOUS
<1> USE DEF Go, hardware, tx, rx, result
<1>1. /\ RxBuf \in [0..RxSize - 1 -> Byte] /\ RxSize \in Nat /\ RxSize >= 2
      /\ RxHead \in 0..RxSize - 1 /\ RxTail \in 0..RxSize - 1
  BY SizesAssumption DEF IInv, UartTypeOK, ReceiveTypeOK
<1>2. RxTail # RxHead => /\ received # <<>>
                         /\ Head(received) = RxBuf[After(RxTail, RxSize)]
                         /\ Tail(received) = Contents(RxBuf, After(RxTail, RxSize), RxHead, RxSize)
  <2> SUFFICES ASSUME RxTail # RxHead
               PROVE  /\ received # <<>>
                      /\ Head(received) = RxBuf[After(RxTail, RxSize)]
                      /\ Tail(received) = Contents(RxBuf, After(RxTail, RxSize), RxHead, RxSize)
    OBVIOUS
  <2>1. Contents(RxBuf, RxTail, RxHead, RxSize) # <<>>
    BY <1>1, ContentsEmpty
  <2>2. /\ Head(Contents(RxBuf, RxTail, RxHead, RxSize)) = RxBuf[After(RxTail, RxSize)]
        /\ Tail(Contents(RxBuf, RxTail, RxHead, RxSize))
             = Contents(RxBuf, After(RxTail, RxSize), RxHead, RxSize)
    BY <1>1, Dequeue
  <2> QED
    BY <2>1, <2>2 DEF received
<1>3. CASE GetcTail
  <2>1. received # <<>> /\ received' = Tail(received) /\ taken' = Head(received)
    BY <1>2, <1>3 DEF GetcTail, IInv, GetcHolds, received, taken
  <2>2. UNCHANGED <<toSend, udr, dropped>>
    BY <1>3 DEF GetcTail, toSend
  <2> QED
    BY <2>1, <2>2 DEF Port!Next, Port!Take
<1>4. CASE PeekData
  <2>1. received # <<>> /\ taken' = Head(received)
    BY <1>2, <1>4 DEF PeekData, IInv, GetcHolds, taken
  <2>2. UNCHANGED <<toSend, udr, received, dropped>>
    BY <1>4 DEF PeekData, toSend, received
  <2> QED
    BY <2>1, <2>2 DEF Port!Next, Port!Look
<1>5. CASE GetcData \/ ReadStatus
  BY <1>5 DEF GetcData, ReadStatus, toSend, received, taken, Port!portVars
<1> QED
  BY <1>3, <1>4, <1>5

LEMMA TransmitTakes ==
  ASSUME IInv, TransmitInterrupt, TxHead # TxTail
  PROVE  udr = NoByte /\ toSend # <<>> /\ udr' = Head(toSend) /\ toSend' = Tail(toSend)
<1>1. /\ TxBuf \in [0..TxSize - 1 -> Byte] /\ TxSize \in Nat /\ TxSize >= 2
      /\ TxHead \in 0..TxSize - 1 /\ TxTail \in 0..TxSize - 1
  BY SizesAssumption DEF IInv, UartTypeOK, SendTypeOK
<1>2. /\ TxTail' = After(TxTail, TxSize) /\ udr' = TxBuf[After(TxTail, TxSize)]
      /\ udr = NoByte /\ UNCHANGED <<TxBuf, TxHead>>
  BY DEF TransmitInterrupt
<1>3. Contents(TxBuf, TxTail, TxHead, TxSize) # <<>>
  BY <1>1, ContentsEmpty
<1>4. /\ Head(Contents(TxBuf, TxTail, TxHead, TxSize)) = TxBuf[After(TxTail, TxSize)]
      /\ Tail(Contents(TxBuf, TxTail, TxHead, TxSize))
           = Contents(TxBuf, After(TxTail, TxSize), TxHead, TxSize)
  BY <1>1, Dequeue
<1> QED
  BY <1>2, <1>3, <1>4 DEF toSend

LEMMA HandlerRefines ==
  IInv /\ (ReceiveInterrupt \/ TransmitInterrupt \/ Shift \/ Arrive)
    => UNCHANGED Port!portVars \/ Port!Next
<1> SUFFICES ASSUME IInv, ReceiveInterrupt \/ TransmitInterrupt \/ Shift \/ Arrive
             PROVE  UNCHANGED Port!portVars \/ Port!Next
  OBVIOUS
<1> USE DEF hardware, tx, rx, result
<1>1. /\ RxBuf \in [0..RxSize - 1 -> Byte] /\ RxSize \in Nat /\ RxSize >= 2
      /\ RxHead \in 0..RxSize - 1 /\ RxTail \in 0..RxSize - 1
      /\ TxBuf \in [0..TxSize - 1 -> Byte] /\ TxSize \in Nat /\ TxSize >= 2
      /\ TxHead \in 0..TxSize - 1 /\ TxTail \in 0..TxSize - 1
  BY SizesAssumption DEF IInv, UartTypeOK, SendTypeOK, ReceiveTypeOK
<1>2. CASE ReceiveInterrupt
  <2> DEFINE tmphead == After(RxHead, RxSize)
  <2>1. UNCHANGED <<toSend, udr>>
    BY <1>2 DEF ReceiveInterrupt, toSend
  <2>2. CASE tmphead = RxTail
    <3>1. UNCHANGED <<received, taken>> /\ dropped' = dropped + 1
      BY <1>2, <2>2 DEF ReceiveInterrupt, received, taken
    <3>2. Count(RxTail, RxHead, RxSize) = RxSize - 1
      BY <1>1, <2>2 DEF Count, After
    <3>3. Len(received) = RxSize - 1
      BY <3>2, QueueTypes DEF IInv, UartTypeOK
    <3> QED
      BY <2>1, <3>1, <3>3 DEF Port!Next, Port!Drop
  <2>3. CASE tmphead # RxTail
    <3>1. /\ RxBuf' = [RxBuf EXCEPT ![tmphead] = Head(fifo).data] /\ RxHead' = tmphead
          /\ UNCHANGED <<RxTail, dropped, pc, tmp, data>>
      BY <1>2, <2>3 DEF ReceiveInterrupt
    <3>2. Head(fifo).data \in Byte
      <4>1. fifo \in Seq(Frame) /\ fifo # <<>>
        BY <1>2 DEF ReceiveInterrupt, RxPending, IInv, UartTypeOK, LineTypeOK
      <4>2. Head(fifo) \in Frame
        BY <4>1
      <4> QED
        BY <4>2 DEF Frame
    <3>3. tmphead \in 0..RxSize - 1
      BY <1>1, AfterInBuffer
    <3>4. RxBuf' \in [0..RxSize - 1 -> Byte] /\ RxBuf'[tmphead] = Head(fifo).data
      BY <1>1, <3>1, <3>2, <3>3
    <3>5. Contents(RxBuf', RxTail, tmphead, RxSize)
            = Append(Contents(RxBuf', RxTail, RxHead, RxSize), RxBuf'[tmphead])
      BY <1>1, <2>3, <3>4, Enqueue
    <3>6. Contents(RxBuf', RxTail, RxHead, RxSize) = received
      BY <1>1, <3>1, WriteOutside DEF received
    <3>7. received' = Append(received, Head(fifo).data)
      BY <3>1, <3>4, <3>5, <3>6 DEF received
    <3>8. taken' = taken
      <4>1. pc = "getc data" => tmp = RxTail
        BY DEF IInv, GetcHolds
      <4>2. RxBuf'[RxTail] = RxBuf[RxTail]
        BY <1>1, <2>3, <3>1
      <4> QED
        BY <3>1, <4>1, <4>2 DEF taken
    <3>9. Len(received) < RxSize - 1
      <4>1. Count(RxTail, RxHead, RxSize) \in 0..RxSize - 1
            /\ Count(RxTail, RxHead, RxSize) # RxSize - 1
        BY <1>1, <2>3 DEF Count, After
      <4>2. Len(received) = Count(RxTail, RxHead, RxSize)
        BY QueueTypes DEF IInv, UartTypeOK
      <4> QED
        BY <1>1, <4>1, <4>2
    <3> QED
      BY <2>1, <3>1, <3>2, <3>7, <3>8, <3>9 DEF Port!Next, Port!Receive
  <2> QED
    BY <2>2, <2>3
<1>3. CASE TransmitInterrupt
  <2>1. UNCHANGED <<received, taken, dropped>>
    BY <1>3 DEF TransmitInterrupt, received, taken
  <2>2. CASE TxHead # TxTail
    BY <1>3, <2>1, <2>2, TransmitTakes DEF Port!Next, Port!Send, NoByte, Port!NoByte
  <2>3. CASE TxHead = TxTail
    BY <1>3, <2>1, <2>3 DEF TransmitInterrupt, toSend, Port!portVars
  <2> QED
    BY <2>2, <2>3
<1>4. CASE Shift
  BY <1>4 DEF Shift, toSend, received, taken, Port!Next, Port!Sent, NoByte, Port!NoByte
<1>5. CASE Arrive
  BY <1>5 DEF Arrive, toSend, received, taken, Port!portVars
<1> QED
  BY <1>2, <1>3, <1>4, <1>5

LEMMA StepRefines == IInv /\ [Next]_vars => [Port!Next]_(Port!portVars)
<1>1. UNCHANGED vars => UNCHANGED Port!portVars
  BY DEF vars, toSend, received, taken, Port!portVars
<1> QED
  BY <1>1, BootRefines, CallRefines, PutcRefines, GetcRefines, HandlerRefines DEF Next, InCall

\* uart.c implements the queues of SerialPort, whatever the interrupts do between
\* the steps of putc, getc, peek, available and flush.
THEOREM UartImplementsSerialPort == Spec => ImplementsSerialPort
<1>1. Init /\ [][Next]_vars => []IInv
  BY InitInductive, StepInductive, PTL
<1>2. Init /\ []IInv /\ [][Next]_vars => Port!Spec
  BY InitRefines, StepRefines, PTL DEF Port!Spec
<1> QED
  BY <1>1, <1>2, PTL DEF Spec, ImplementsSerialPort

(***************************************************************************)
(* The order of the bytes.                                                 *)
(***************************************************************************)
\* A queue s holds the last of the first p elements of w.
LastOf(s, p, w) == \A k \in 1..Len(s) : s[k] = w[p - Len(s) + k]

LEMMA AppendLast ==
  ASSUME NEW S, NEW s \in Seq(S), NEW b \in S, NEW p \in Nat, NEW w,
         LastOf(s, p, w), b = w[p + 1]
  PROVE  LastOf(Append(s, b), p + 1, w)
<1>1. /\ Len(s) \in Nat /\ Len(Append(s, b)) = Len(s) + 1
      /\ \A k \in 1..Len(s) : Append(s, b)[k] = s[k]
      /\ Append(s, b)[Len(s) + 1] = b
  BY AppendProperties
<1>2. ASSUME NEW k \in 1..Len(s) + 1
      PROVE  Append(s, b)[k] = w[p + 1 - (Len(s) + 1) + k]
  <2>1. CASE k \in 1..Len(s)
    <3>1. p + 1 - (Len(s) + 1) + k = p - Len(s) + k
      BY <1>1
    <3> QED
      BY <1>1, <2>1, <3>1 DEF LastOf
  <2>2. CASE k = Len(s) + 1
    <3>1. p + 1 - (Len(s) + 1) + k = p + 1
      BY <1>1, <2>2
    <3> QED
      BY <1>1, <2>2, <3>1
  <2> QED
    BY <1>1, <2>1, <2>2
<1> QED
  BY <1>1, <1>2 DEF LastOf

LEMMA TailLast ==
  ASSUME NEW S, NEW s \in Seq(S), s # <<>>, NEW p \in Nat, NEW w, LastOf(s, p, w)
  PROVE  LastOf(Tail(s), p, w)
<1>1. /\ Len(s) \in Nat /\ Len(Tail(s)) = Len(s) - 1 /\ Len(Tail(s)) \in Nat
      /\ \A k \in 1..Len(Tail(s)) : Tail(s)[k] = s[k + 1]
  BY HeadTailProperties, LenProperties
<1>2. ASSUME NEW k \in 1..Len(Tail(s))
      PROVE  Tail(s)[k] = w[p - Len(Tail(s)) + k]
  <2>1. k + 1 \in 1..Len(s) /\ p - Len(Tail(s)) + k = p - Len(s) + (k + 1)
    BY <1>1
  <2> QED
    BY <1>1, <2>1 DEF LastOf
<1> QED
  BY <1>2 DEF LastOf

\* Between its store and its move of the head, putc has the next byte in place.
Stored == pc = "putc advance" => TxBuf[tmp] = ToPut[puts + 1]

LEMMA OrderKept ==
  IInv /\ LastOf(toSend, puts, ToPut) /\ Stored /\ [Next]_vars
    => LastOf(toSend, puts, ToPut)' /\ Stored'
<1> SUFFICES ASSUME IInv, LastOf(toSend, puts, ToPut), Stored, [Next]_vars
             PROVE  LastOf(toSend', puts', ToPut) /\ Stored'
  BY DEF LastOf
<1> USE DEF Go, hardware, tx, rx, result
<1>1. toSend \in Seq(Byte) /\ puts \in Nat
  BY QueueTypes DEF IInv, UartTypeOK, SendTypeOK
<1>2. CASE InitIndices
  <2>1. toSend = <<>> /\ toSend' = <<>>
    <3>1. TxTail = TxHead
      BY <1>2 DEF InitIndices, IInv, BeforeControl
    <3>2. TxSize \in Nat /\ TxSize >= 2 /\ 0 \in 0..TxSize - 1
      BY SizesAssumption
    <3>3. Contents(TxBuf, 0, 0, TxSize) = <<>>
      BY <3>2, ContentsEmpty
    <3>4. toSend' = <<>>
      BY <1>2, <3>3 DEF InitIndices, toSend
    <3>5. toSend = <<>>
      BY <3>1, QueueTypes DEF IInv, UartTypeOK
    <3> QED
      BY <3>4, <3>5
  <2> QED
    BY <1>2, <2>1 DEF InitIndices, LastOf, Stored
<1>3. CASE PutcStore
  <2>1. tmp \in 0..TxSize - 1
    BY <1>3, SendIndices DEF PutcStore, IInv, PutcHolds, UartTypeOK
  <2>2. TxBuf'[tmp] = ToPut[puts + 1]
    BY <1>3, <2>1 DEF PutcStore, IInv, UartTypeOK, SendTypeOK
  <2>3. toSend' = toSend /\ puts' = puts /\ tmp' = tmp
    BY <1>3, StoreKeeps DEF PutcStore
  <2> QED
    BY <2>2, <2>3 DEF Stored
<1>4. CASE PutcAdvance
  <2>1. toSend' = Append(toSend, TxBuf[tmp]) /\ TxBuf[tmp] \in Byte
    BY <1>4, AdvanceAppends
  <2>2. TxBuf[tmp] = ToPut[puts + 1] /\ puts' = puts + 1 /\ pc' # "putc advance"
    BY <1>4 DEF PutcAdvance, Stored
  <2>3. LastOf(Append(toSend, TxBuf[tmp]), puts + 1, ToPut)
    BY <1>1, <2>1, <2>2, AppendLast
  <2> QED
    BY <2>1, <2>2, <2>3 DEF Stored
<1>5. CASE TransmitInterrupt
  <2>1. UNCHANGED <<TxBuf, tmp, puts, pc>>
    BY <1>5 DEF TransmitInterrupt
  <2>2. CASE TxHead # TxTail
    BY <1>1, <1>5, <2>1, <2>2, TransmitTakes, TailLast DEF Stored
  <2>3. CASE TxHead = TxTail
    BY <1>5, <2>1, <2>3 DEF TransmitInterrupt, toSend, Stored
  <2> QED
    BY <2>2, <2>3
<1>6. ASSUME UNCHANGED <<TxBuf, TxHead, TxTail, puts>>,
             pc' = "putc advance" => UNCHANGED <<pc, tmp>>
      PROVE  LastOf(toSend', puts', ToPut) /\ Stored'
  BY <1>6 DEF toSend, Stored
<1>7. CASE InitControl \/ Sei \/ Exit \/ Calls
  BY <1>6, <1>7 DEF InitControl, Sei, Exit, Calls, Puts, GetcTest, PeekTest, Available, Flush
<1>8. CASE PutcHead \/ PutcWait \/ PutcReadControl \/ PutcEnable
  BY <1>6, <1>8 DEF PutcHead, PutcWait, PutcReadControl, PutcEnable
<1>9. CASE GetcTail \/ GetcData \/ PeekData \/ ReadStatus
  BY <1>6, <1>9 DEF GetcTail, GetcData, PeekData, ReadStatus
<1>10. CASE ReceiveInterrupt \/ Shift \/ Arrive
  BY <1>6, <1>10 DEF ReceiveInterrupt, Shift, Arrive
<1>11. CASE UNCHANGED vars
  BY <1>6, <1>11 DEF vars
<1> QED
  BY <1>2, <1>3, <1>4, <1>5, <1>7, <1>8, <1>9, <1>10, <1>11 DEF Next, Boot, InCall

\* The transmitter gets the bytes of ToPut, each once and in their order: what waits
\* is the last part of what was put, and the transmitter takes the first of it.
THEOREM BytesStayInOrder == Spec => []BytesInOrder
<1>1. Init => LastOf(toSend, puts, ToPut) /\ Stored
  <2>1. ASSUME Init PROVE toSend = <<>> /\ pc = "init"
    BY <2>1, InitInductive, QueueTypes DEF Init, IInv, UartTypeOK
  <2> QED
    BY <2>1 DEF LastOf, Stored
<1>2. LastOf(toSend, puts, ToPut) => BytesInOrder
  BY DEF LastOf, BytesInOrder
<1>3. Init /\ [][Next]_vars => []IInv
  BY InitInductive, StepInductive, PTL
<1>4. Init /\ []IInv /\ [][Next]_vars => [](LastOf(toSend, puts, ToPut) /\ Stored)
  BY <1>1, OrderKept, PTL
<1> QED
  BY <1>2, <1>3, <1>4, PTL DEF Spec
===============================================================================
