------------------------------ MODULE SerialPort ------------------------------
(***************************************************************************)
(* What the serial port of a compiled program promises (uart.h): two first *)
(* in, first out queues of bounded room.  No byte is lost, repeated,       *)
(* changed or overtaken between putc() and the transmitter, nor between    *)
(* the receiver and getc(), except that a byte that arrives when the       *)
(* receive queue is full is dropped.  Each operation is one step: there    *)
(* are no interrupts, indices or registers at this level.                  *)
(***************************************************************************)
EXTENDS Integers, Sequences

CONSTANTS Byte,
          TxRoom,   \* how many bytes wait at most for the transmitter
          RxRoom    \* and for the program

VARIABLES toSend,        \* bytes put and not yet handed to the transmitter
          transmitter,   \* the byte it is sending, or NoByte
          received,      \* bytes that arrived and were not taken
          taken,         \* the byte the program last took or looked at
          dropped        \* how many bytes found the receive queue full

portVars == <<toSend, transmitter, received, taken, dropped>>

NoByte == -1

Init ==
  /\ toSend = <<>> /\ received = <<>>
  /\ transmitter = NoByte /\ taken = 0 /\ dropped = 0

Put(byte) ==
  /\ Len(toSend) < TxRoom
  /\ toSend' = Append(toSend, byte)
  /\ UNCHANGED <<transmitter, received, taken, dropped>>

Send ==
  /\ toSend # <<>> /\ transmitter = NoByte
  /\ transmitter' = Head(toSend)
  /\ toSend' = Tail(toSend)
  /\ UNCHANGED <<received, taken, dropped>>

Sent ==
  /\ transmitter # NoByte /\ transmitter' = NoByte
  /\ UNCHANGED <<toSend, received, taken, dropped>>

Receive(byte) ==
  /\ Len(received) < RxRoom
  /\ received' = Append(received, byte)
  /\ UNCHANGED <<toSend, transmitter, taken, dropped>>

Drop ==
  /\ Len(received) = RxRoom /\ dropped' = dropped + 1
  /\ UNCHANGED <<toSend, transmitter, received, taken>>

\* getc() takes the oldest byte, peek() leaves it.
Take ==
  /\ received # <<>>
  /\ taken' = Head(received) /\ received' = Tail(received)
  /\ UNCHANGED <<toSend, transmitter, dropped>>

Look ==
  /\ received # <<>>
  /\ taken' = Head(received)
  /\ UNCHANGED <<toSend, transmitter, received, dropped>>

\* Both answer a program that finds nothing with a zero.
FindNothing ==
  /\ received = <<>> /\ taken' = 0
  /\ UNCHANGED <<toSend, transmitter, received, dropped>>

Flush ==
  /\ received' = <<>>
  /\ UNCHANGED <<toSend, transmitter, taken, dropped>>

Next ==
  \/ \E byte \in Byte : Put(byte) \/ Receive(byte)
  \/ Send \/ Sent \/ Drop \/ Take \/ Look \/ FindNothing \/ Flush

Spec == Init /\ [][Next]_portVars
===============================================================================
