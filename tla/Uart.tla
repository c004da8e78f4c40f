--------------------------------- MODULE Uart ---------------------------------
(***************************************************************************)
(* The serial runtime every compiled program is linked with: USART0 of     *)
(* uart.c as the Makefile builds it (ATmega328p, 8-bit indices), called by *)
(* main_program, which arduinoCodeMain.c starts.                           *)
(*                                                                         *)
(* One processor.  The main program moves one access to a shared variable  *)
(* or register at a time; between two of them the hardware may run an      *)
(* interrupt handler, which runs to its end before the main program moves  *)
(* again: handlers do not nest.  An ATOMIC_BLOCK is one step.  The line    *)
(* delivers the frames OnLine, main_program puts the bytes ToPut, and      *)
(* makes its calls in any order.                                           *)
(***************************************************************************)
EXTENDS Integers, Sequences

CONSTANTS Byte,     \* the bytes in use, 0 (that of cleared memory) among them
          TxSize,   \* UART_TX0_BUFFER_SIZE, a power of 2
          RxSize,   \* UART_RX0_BUFFER_SIZE, a power of 2
          ToPut,    \* the bytes main_program puts, in this order
          OnLine    \* the frames the line carries: a byte and its error bits

VARIABLES interrupts,                 \* the I bit of SREG
          ucsr0b,                     \* which interrupts UCSR0B enables
          udr,                        \* the byte the transmitter holds; UDRE0 <=> NoByte
          fifo,                       \* frames the receiver holds; RXC0 <=> not empty
          TxBuf, TxHead, TxTail,
          RxBuf, RxHead, RxTail, LastRxError,
          pc, tmp, ctl, left,         \* of the main program: where it is, its copy of an
                                      \* index and of UCSR0B (cleared after their last
                                      \* use), and the bytes its call still puts
          data, high,                 \* the two bytes of the last result
          puts, arrivals,             \* how far ToPut and OnLine are
          dropped,                    \* history: bytes that found RxBuf full
          promised                    \* history: what available() said and is not taken

NoByte == -1

\* Error bits of UCSR0A, and the status uart.c makes up for a full buffer.
FE0 == 16
DOR0 == 8
BUFFER_OVERFLOW == 2     \* UART_BUFFER_OVERFLOW >> 8
NO_DATA == 1             \* UART_NO_DATA >> 8
Errors == {0, FE0, DOR0, FE0 + DOR0}
Frame == [data : Byte, status : Errors]
Latch == 2               \* frames the receiver holds before it overruns

ASSUME SizesAssumption == TxSize \in Nat /\ TxSize >= 2 /\ RxSize \in Nat /\ RxSize >= 2
ASSUME ByteAssumption == 0 \in Byte /\ Byte \subseteq 0..255
ASSUME WorkAssumption == ToPut \in Seq(Byte) /\ OnLine \in Seq(Frame)

\* Mutant: the index is not masked.
AfterUnmasked(i, size) == i + 1

\* (i + 1) & UART_xX0_BUFFER_MASK, for an index i of a buffer of 2^n bytes.
After(i, size) == IF i + 1 = size THEN 0 ELSE i + 1

\* (SIZE + head - tail) & MASK: the bytes between the indices.
Count(tail, head, size) == IF head >= tail THEN head - tail ELSE head - tail + size

vars == <<interrupts, ucsr0b, udr, fifo, TxBuf, TxHead, TxTail, RxBuf, RxHead, RxTail,
          LastRxError, pc, tmp, ctl, left, data, high, puts, arrivals, dropped, promised>>
tx == <<TxBuf, TxHead, TxTail, puts, left>>
rx == <<RxBuf, RxHead, RxTail, LastRxError, dropped, promised>>
result == <<data, high>>
hardware == <<udr, fifo, arrivals>>

\* After reset: static variables are zero, interrupts are off.
Init ==
  /\ interrupts = FALSE /\ ucsr0b = {} /\ udr = NoByte /\ fifo = <<>>
  /\ TxBuf = [i \in 0..TxSize - 1 |-> 0] /\ TxHead = 0 /\ TxTail = 0
  /\ RxBuf = [i \in 0..RxSize - 1 |-> 0] /\ RxHead = 0 /\ RxTail = 0
  /\ LastRxError = 0
  /\ pc = "init" /\ tmp = 0 /\ ctl = {} /\ left = 0 /\ data = 0 /\ high = 0
  /\ puts = 0 /\ arrivals = 0 /\ dropped = 0 /\ promised = 0

Go(from, to) == pc = from /\ pc' = to

(***************************************************************************)
(* main() of arduinoCodeMain.c.                                            *)
(***************************************************************************)
\* ATOMIC_FORCEON leaves the interrupts on, whatever they were before.
InitIndices ==
  /\ Go("init", "control")
  /\ TxHead' = 0 /\ TxTail' = 0 /\ RxHead' = 0 /\ RxTail' = 0
  /\ interrupts' = TRUE
  /\ UNCHANGED <<ucsr0b, hardware, TxBuf, puts, left, RxBuf, LastRxError, dropped, promised,
                 tmp, ctl, result>>

InitControl ==
  /\ Go("control", "sei")
  /\ ucsr0b' = {"RXCIE0"}
  /\ UNCHANGED <<interrupts, hardware, tx, rx, tmp, ctl, result>>

Sei ==
  /\ Go("sei", "program")
  /\ interrupts' = TRUE
  /\ UNCHANGED <<ucsr0b, hardware, tx, rx, tmp, ctl, result>>

\* main_program and main return: exit() of avr-libc turns the interrupts off.
Exit ==
  /\ Go("program", "stopped")
  /\ interrupts' = FALSE
  /\ UNCHANGED <<ucsr0b, hardware, tx, rx, tmp, ctl, result>>

(***************************************************************************)
(* uart0_putc, and uart0_puts, which calls it for each byte of a string.   *)
(***************************************************************************)
Puts(n) ==
  /\ Go("program", "putc")
  /\ puts + n <= Len(ToPut)
  /\ left' = n
  /\ UNCHANGED <<interrupts, ucsr0b, hardware, TxBuf, TxHead, TxTail, puts, rx, tmp, ctl, result>>

\* tmphead = (UART_TxHead + 1) & MASK: only this function writes UART_TxHead.
PutcHead ==
  /\ Go("putc", "putc wait")
  /\ tmp' = After(TxHead, TxSize)
  /\ UNCHANGED <<interrupts, ucsr0b, hardware, tx, rx, ctl, result>>

\* Mutant: does not wait for room.
PutcOverwrites ==
  /\ Go("putc wait", "putc store")
  /\ UNCHANGED <<interrupts, ucsr0b, hardware, tx, rx, tmp, ctl, result>>

\* while (tmphead == UART_TxTail): the last turn; those before change nothing.
PutcWait ==
  /\ Go("putc wait", "putc store")
  /\ tmp # TxTail
  /\ UNCHANGED <<interrupts, ucsr0b, hardware, tx, rx, tmp, ctl, result>>

\* Mutant: the byte goes to the head, not behind it.
PutcStoreAtHead ==
  /\ Go("putc store", "putc advance")
  /\ TxBuf' = [TxBuf EXCEPT ![TxHead] = ToPut[puts + 1]]
  /\ UNCHANGED <<interrupts, ucsr0b, hardware, TxHead, TxTail, puts, left, rx, tmp, ctl, result>>

PutcStore ==
  /\ Go("putc store", "putc advance")
  /\ TxBuf' = [TxBuf EXCEPT ![tmp] = ToPut[puts + 1]]
  /\ UNCHANGED <<interrupts, ucsr0b, hardware, TxHead, TxTail, puts, left, rx, tmp, ctl, result>>

PutcAdvance ==
  /\ Go("putc advance", "putc control")
  /\ TxHead' = tmp /\ puts' = puts + 1 /\ left' = left - 1 /\ tmp' = 0
  /\ UNCHANGED <<interrupts, ucsr0b, hardware, TxBuf, TxTail, rx, ctl, result>>

\* Mutant: = for |=.
PutcAssignControl ==
  /\ Go("putc control", "putc enable")
  /\ ctl' = {"UDRIE0"}
  /\ UNCHANGED <<interrupts, ucsr0b, hardware, tx, rx, tmp, result>>

\* Mutant: the bit is forgotten.
PutcKeepControl ==
  /\ Go("putc control", "putc enable")
  /\ ctl' = ucsr0b
  /\ UNCHANGED <<interrupts, ucsr0b, hardware, tx, rx, tmp, result>>

\* UCSR0B |= _BV(UDRIE0): UCSR0B is out of reach of sbi, so the compiler
\* loads, changes and stores it.
PutcReadControl ==
  /\ Go("putc control", "putc enable")
  /\ ctl' = ucsr0b \cup {"UDRIE0"}
  /\ UNCHANGED <<interrupts, ucsr0b, hardware, tx, rx, tmp, result>>

PutcEnable ==
  /\ Go("putc enable", IF left = 0 THEN "program" ELSE "putc")
  /\ ucsr0b' = ctl /\ ctl' = {}
  /\ UNCHANGED <<interrupts, hardware, tx, rx, tmp, result>>

(***************************************************************************)
(* uart0_getc, uart0_peek, uart0_available, uart0_flush.                   *)
(***************************************************************************)
\* The atomic block tests for data; the rest of the function is outside it.
Empty == RxHead = RxTail

GetcTest ==
  /\ pc = "program" /\ pc' = IF Empty THEN "program" ELSE "getc tail"
  /\ interrupts' = TRUE
  /\ IF Empty THEN data' = 0 /\ high' = NO_DATA ELSE UNCHANGED result
  /\ UNCHANGED <<ucsr0b, hardware, tx, rx, tmp, ctl>>

GetcTail ==
  /\ Go("getc tail", "getc data")
  /\ tmp' = After(RxTail, RxSize) /\ RxTail' = After(RxTail, RxSize)
  /\ promised' = IF promised = 0 THEN 0 ELSE promised - 1
  /\ UNCHANGED <<interrupts, ucsr0b, hardware, tx, RxBuf, RxHead, LastRxError, dropped,
                 ctl, result>>

GetcData ==
  /\ Go("getc data", "status")
  /\ data' = RxBuf[tmp] /\ tmp' = 0
  /\ UNCHANGED <<interrupts, ucsr0b, hardware, tx, rx, ctl, high>>

\* The status is that of the byte that arrived last, not of the byte returned.
ReadStatus ==
  /\ Go("status", "program")
  /\ high' = LastRxError
  /\ UNCHANGED <<interrupts, ucsr0b, hardware, tx, rx, tmp, ctl, data>>

PeekTest ==
  /\ pc = "program" /\ pc' = IF Empty THEN "program" ELSE "peek"
  /\ interrupts' = TRUE
  /\ IF Empty THEN data' = 0 /\ high' = NO_DATA ELSE UNCHANGED result
  /\ UNCHANGED <<ucsr0b, hardware, tx, rx, tmp, ctl>>

PeekData ==
  /\ Go("peek", "status")
  /\ data' = RxBuf[After(RxTail, RxSize)]
  /\ UNCHANGED <<interrupts, ucsr0b, hardware, tx, rx, tmp, ctl, high>>

Available ==
  /\ Go("program", "program")
  /\ interrupts' = TRUE
  /\ promised' = Count(RxTail, RxHead, RxSize)
  /\ UNCHANGED <<ucsr0b, hardware, tx, RxBuf, RxHead, RxTail, LastRxError, dropped,
                 tmp, ctl, result>>

Flush ==
  /\ Go("program", "program")
  /\ interrupts' = TRUE
  /\ RxHead' = RxTail /\ promised' = 0
  /\ UNCHANGED <<ucsr0b, hardware, tx, RxBuf, RxTail, LastRxError, dropped, tmp, ctl, result>>

(***************************************************************************)
(* The interrupt handlers.  RXC0 has a lower vector than UDRE0: it goes    *)
(* first when both are pending.                                            *)
(***************************************************************************)
RxPending == "RXCIE0" \in ucsr0b /\ fifo # <<>>

\* Mutant: a full buffer is not noticed.
ReceiveAlways ==
  LET tmphead == After(RxHead, RxSize)
      frame == Head(fifo)
  IN
  /\ interrupts /\ RxPending
  /\ fifo' = Tail(fifo)
  /\ LastRxError' = frame.status
  /\ RxHead' = tmphead /\ RxBuf' = [RxBuf EXCEPT ![tmphead] = frame.data]
  /\ UNCHANGED <<interrupts, ucsr0b, udr, arrivals, tx, RxTail, dropped, promised, pc, tmp, ctl,
                 result>>

ReceiveInterrupt ==
  LET tmphead == After(RxHead, RxSize)
      frame == Head(fifo)
  IN
  /\ interrupts /\ RxPending
  /\ fifo' = Tail(fifo)
  /\ IF tmphead = RxTail
     THEN /\ LastRxError' = BUFFER_OVERFLOW /\ dropped' = dropped + 1
          /\ UNCHANGED <<RxHead, RxBuf>>
     ELSE /\ LastRxError' = frame.status
          /\ RxHead' = tmphead /\ RxBuf' = [RxBuf EXCEPT ![tmphead] = frame.data]
          /\ UNCHANGED dropped
  /\ UNCHANGED <<interrupts, ucsr0b, udr, arrivals, tx, RxTail, promised, pc, tmp, ctl, result>>

\* Mutant: the interrupt is disabled one byte early.
TransmitButOne ==
  /\ interrupts /\ "UDRIE0" \in ucsr0b /\ udr = NoByte /\ ~RxPending
  /\ IF TxHead # TxTail /\ TxHead # After(TxTail, TxSize)
     THEN /\ TxTail' = After(TxTail, TxSize)
          /\ udr' = TxBuf[After(TxTail, TxSize)]
          /\ UNCHANGED ucsr0b
     ELSE /\ ucsr0b' = ucsr0b \ {"UDRIE0"}
          /\ UNCHANGED <<TxTail, udr>>
  /\ UNCHANGED <<interrupts, fifo, arrivals, TxBuf, TxHead, puts, left, rx, pc, tmp, ctl, result>>

TransmitInterrupt ==
  /\ interrupts /\ "UDRIE0" \in ucsr0b /\ udr = NoByte /\ ~RxPending
  /\ IF TxHead # TxTail
     THEN /\ TxTail' = After(TxTail, TxSize)
          /\ udr' = TxBuf[After(TxTail, TxSize)]
          /\ UNCHANGED ucsr0b
     ELSE /\ ucsr0b' = ucsr0b \ {"UDRIE0"}
          /\ UNCHANGED <<TxTail, udr>>
  /\ UNCHANGED <<interrupts, fifo, arrivals, TxBuf, TxHead, puts, left, rx, pc, tmp, ctl, result>>

(***************************************************************************)
(* The hardware.                                                           *)
(***************************************************************************)
\* The transmitter shifts its byte out.
Shift ==
  /\ udr # NoByte /\ udr' = NoByte
  /\ UNCHANGED <<interrupts, ucsr0b, fifo, arrivals, tx, rx, pc, tmp, ctl, result>>

\* A frame arrives once the receiver is on.  One too many is lost, and the
\* newest frame the receiver holds says so.
Arrive ==
  /\ "RXCIE0" \in ucsr0b /\ arrivals < Len(OnLine)
  /\ arrivals' = arrivals + 1
  /\ fifo' = IF Len(fifo) < Latch THEN Append(fifo, OnLine[arrivals + 1])
             ELSE [fifo EXCEPT ![Latch].status = IF @ \in {0, FE0} THEN @ + DOR0 ELSE @]
  /\ UNCHANGED <<interrupts, ucsr0b, udr, tx, rx, pc, tmp, ctl, result>>

(***************************************************************************)
(* The specification.                                                      *)
(***************************************************************************)
Boot == InitIndices \/ InitControl \/ Sei
Calls == (\E n \in 1..Len(ToPut) : Puts(n)) \/ GetcTest \/ PeekTest \/ Available \/ Flush
InCall ==
  \/ PutcHead \/ PutcWait \/ PutcStore \/ PutcAdvance \/ PutcReadControl \/ PutcEnable
  \/ GetcTail \/ GetcData \/ PeekData \/ ReadStatus

Next ==
  \/ Boot \/ Calls \/ InCall \/ Exit
  \/ ReceiveInterrupt \/ TransmitInterrupt \/ Shift \/ Arrive

\* A call that has begun goes on: after each handler the processor executes at
\* least one instruction of the main program.  A pending interrupt is taken
\* once they are on, and the transmitter finishes its byte.
Fairness ==
  WF_vars(InCall) /\ WF_vars(ReceiveInterrupt) /\ WF_vars(TransmitInterrupt) /\ WF_vars(Shift)

Spec == Init /\ [][Next]_vars /\ Fairness

(***************************************************************************)
(* Properties                                                              *)
(***************************************************************************)
Places == {"init", "control", "sei", "program", "stopped", "putc", "putc wait", "putc store",
           "putc advance", "putc control", "putc enable", "getc tail", "getc data", "peek",
           "status"}
Enables == {"RXCIE0", "UDRIE0"}
Statuses == Errors \cup {BUFFER_OVERFLOW}

ProgramTypeOK ==
  /\ interrupts \in BOOLEAN /\ ucsr0b \subseteq Enables /\ ctl \subseteq Enables
  /\ pc \in Places /\ tmp \in Nat /\ data \in Byte /\ high \in Statuses \cup {NO_DATA}

SendTypeOK ==
  /\ TxBuf \in [0..TxSize - 1 -> Byte] /\ TxHead \in 0..TxSize - 1 /\ TxTail \in 0..TxSize - 1
  /\ udr \in Byte \cup {NoByte}
  /\ left \in Nat /\ puts \in Nat /\ puts + left <= Len(ToPut)

ReceiveTypeOK ==
  /\ RxBuf \in [0..RxSize - 1 -> Byte] /\ RxHead \in 0..RxSize - 1 /\ RxTail \in 0..RxSize - 1
  /\ LastRxError \in Statuses /\ dropped \in Nat /\ promised \in 0..RxSize - 1

LineTypeOK == fifo \in Seq(Frame) /\ Len(fifo) <= Latch /\ arrivals \in 0..Len(OnLine)

\* Every index stays in its buffer, every byte is one.
UartTypeOK == ProgramTypeOK /\ SendTypeOK /\ ReceiveTypeOK /\ LineTypeOK

\* The bytes between the indices of a ring buffer, oldest first.
Slot(tail, k, size) == IF tail + k < size THEN tail + k ELSE tail + k - size
Contents(buf, tail, head, size) ==
  [k \in 1..Count(tail, head, size) |-> buf[Slot(tail, k, size)]]

\* The queues of SerialPort.  getc() takes its byte when it moves the tail and
\* reads it one step later.
toSend == Contents(TxBuf, TxTail, TxHead, TxSize)
received == Contents(RxBuf, RxTail, RxHead, RxSize)
taken == IF pc = "getc data" THEN RxBuf[tmp] ELSE data

Port == INSTANCE SerialPort WITH
  TxRoom <- TxSize - 1, RxRoom <- RxSize - 1, transmitter <- udr

\* uart.c implements the two queues, although getc() leaves its atomic block before
\* it takes the byte, and a receive interrupt may come between any two of its steps.
ImplementsSerialPort == Port!Spec

\* The bytes that wait to be sent are the last ones main_program put, in order.
BytesInOrder ==
  \A k \in 1..Len(toSend) : toSend[k] = ToPut[puts - Len(toSend) + k]

\* While bytes wait to be sent the transmit interrupt is enabled, or the running
\* putc() is about to enable it, although the handler that turns it off may run
\* between the load and the store of putc(); and that store, of a copy that may be
\* stale, never turns the receive interrupt off.
HandlersArmed ==
  /\ TxHead # TxTail => "UDRIE0" \in ucsr0b \/ pc \in {"putc control", "putc enable"}
  /\ pc \notin {"init", "control"} => "RXCIE0" \in ucsr0b

\* The bytes available() counted stay there for getc(): what arrives later is
\* dropped before it costs one of them.
AvailableKept == promised <= Count(RxTail, RxHead, RxSize)

\* A call returns: putc() does not wait for ever for room in a full buffer.
CallsReturn == pc \in Places \ {"init", "control", "sei", "program", "stopped"} ~> pc = "program"

\* What was put is handed to the transmitter, unless main_program returns first:
\* exit() then leaves it in the buffer.
EverythingSent == TxHead # TxTail ~> TxHead = TxTail \/ pc = "stopped"
===============================================================================
