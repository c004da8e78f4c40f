-------------------------------- MODULE Wiring --------------------------------
(***************************************************************************)
(* The whole board under a compiled program: main of arduinoCodeMain.c,    *)
(* the serial port of Uart and the pin functions of wiring_digital.c and   *)
(* wiring_analog.c, with the tables of variants/standard/pins_arduino.h.   *)
(*                                                                         *)
(* main_program calls them all in any order; the handlers of the serial    *)
(* port run between two register accesses of any of them, unless the       *)
(* function has turned the interrupts off.  main() never calls init() of   *)
(* wiring.c: the bits it would set (ADEN among them) stay clear.           *)
(***************************************************************************)
EXTENDS Uart

CONSTANTS Pins,        \* the pins the program uses
          AnalogPins,  \* those it reads with analogRead
          References,  \* the arguments of analogReference
          Values       \* the second arguments of analogWrite, 16 bits

VARIABLES ddr, out,          \* DDRx and PORTx: for each port the bits that are set
          com,               \* the channels COMnx1 connects to their pins
          ocr,               \* OCRnx of each channel
          analog_reference, admux, adcsra,
          adc,               \* the ADC register: the channel last converted, or NoSample
          pin, arg, val,     \* of the running call: its pin, mode or level, and duty,
          oldSREG,           \* the I bit it saved,
          after,             \* and where pinMode goes on
          value              \* what digitalRead last returned

pinVars == <<ddr, out, com, ocr>>
adcVars == <<analog_reference, admux, adcsra, adc>>
call == <<pin, arg, val, after>>
wiringVars == <<pinVars, adcVars, call, oldSREG, value>>
serialVars == <<ucsr0b, hardware, tx, rx, tmp, ctl, result>>
boardVars == <<vars, wiringVars>>

NoSample == -1
LOW == 0
HIGH == 1
INPUT == 0
OUTPUT == 1
INPUT_PULLUP == 2

ASSUME PinsAssumption == Pins \subseteq 0..19 /\ AnalogPins \subseteq 0..19
ASSUME ValuesAssumption == (\A v \in Values : v \in Nat /\ v < 65536) /\ References \subseteq 0..3

(***************************************************************************)
(* The tables of the pins.                                                 *)
(***************************************************************************)
PortOf(p) == CASE p < 8 -> "D" [] p \in 8..13 -> "B" [] p > 13 -> "C"
BitOf(p) == CASE p < 8 -> p [] p \in 8..13 -> p - 8 [] p > 13 -> p - 14

Timers == [p \in {3, 5, 6, 9, 10, 11} |->
             CASE p = 3 -> "2B" [] p = 5 -> "0B" [] p = 6 -> "0A"
               [] p = 9 -> "1A" [] p = 10 -> "1B" [] p = 11 -> "2A"]
OnTimer(p) == p \in DOMAIN Timers
Channels == {Timers[p] : p \in DOMAIN Timers \cap Pins}

\* Timer 1 has registers of 16 bits, the others of 8.
Width(channel) == IF channel \in {"1A", "1B"} THEN 65536 ELSE 256

\* reg |= bit, or reg &= ~bit, for the register of a pin's port.
Assign(reg, p, on) ==
  [reg EXCEPT ![PortOf(p)] = IF on THEN @ \cup {BitOf(p)} ELSE @ \ {BitOf(p)}]
IsSet(reg, p) == BitOf(p) \in reg[PortOf(p)]

BoardInit ==
  /\ Init
  /\ ddr = [port \in {"B", "C", "D"} |-> {}] /\ out = ddr
  /\ com = {} /\ ocr = [c \in Channels |-> 0]
  /\ analog_reference = 1 /\ admux = <<0, 0>> /\ adcsra = {} /\ adc = NoSample
  /\ pin = 0 /\ arg = 0 /\ val = 0 /\ after = "program" /\ oldSREG = FALSE /\ value = 0

Begin(place, p, a, v, then) ==
  /\ Go("program", place)
  /\ pin' = p /\ arg' = a /\ val' = v /\ after' = then
  /\ UNCHANGED <<interrupts, serialVars, pinVars, adcVars, oldSREG, value>>

Forget == pin' = 0 /\ arg' = 0 /\ val' = 0 /\ after' = "program"

\* Mutant: cli() comes before the copy of SREG.
SaveLate(from, to) ==
  /\ Go(from, to)
  /\ oldSREG' = FALSE /\ interrupts' = FALSE
  /\ UNCHANGED <<serialVars, pinVars, adcVars, call, value>>

\* SREG is saved and the interrupts go off.
Save(from, to) ==
  /\ Go(from, to)
  /\ oldSREG' = interrupts /\ interrupts' = FALSE
  /\ UNCHANGED <<serialVars, pinVars, adcVars, call, value>>

Restore ==
  /\ Go("restore", after)
  /\ interrupts' = oldSREG /\ oldSREG' = FALSE
  /\ IF after = "program" THEN Forget ELSE UNCHANGED call
  /\ UNCHANGED <<serialVars, pinVars, adcVars, value>>

(***************************************************************************)
(* pinMode                                                                 *)
(***************************************************************************)
PinMode(p, mode) == Begin("mode save", p, mode, 0, "program")

ModeSave == Save("mode save", "mode direction")

\* Mutant: the output register goes first.
ModeLatchFirst ==
  /\ Go("mode direction", IF arg = OUTPUT THEN "restore" ELSE "mode latch")
  /\ IF arg = OUTPUT
     THEN ddr' = Assign(ddr, pin, TRUE) /\ UNCHANGED out
     ELSE out' = Assign(out, pin, arg = INPUT_PULLUP) /\ UNCHANGED ddr
  /\ UNCHANGED <<interrupts, serialVars, com, ocr, adcVars, call, oldSREG, value>>

\* An output keeps its latch; an input gets its pull-up from it.
ModeDirection ==
  /\ Go("mode direction", IF arg = OUTPUT THEN "restore" ELSE "mode latch")
  /\ ddr' = Assign(ddr, pin, arg = OUTPUT)
  /\ UNCHANGED <<interrupts, serialVars, out, com, ocr, adcVars, call, oldSREG, value>>

ModeLatch ==
  /\ Go("mode latch", "restore")
  /\ out' = Assign(out, pin, arg = INPUT_PULLUP)
  /\ UNCHANGED <<interrupts, serialVars, ddr, com, ocr, adcVars, call, oldSREG, value>>

(***************************************************************************)
(* digitalWrite and digitalRead.  turnOffPWM leaves the interrupts on: no  *)
(* handler uses TCCRnA.                                                    *)
(***************************************************************************)
WritePlace(p) == IF OnTimer(p) THEN "write pwm" ELSE "write save"

DigitalWrite(p, level) == Begin(WritePlace(p), p, level, 0, "program")

\* Mutant: the pin keeps its wave.
KeepPWM(from, to) ==
  /\ Go(from, to)
  /\ UNCHANGED <<interrupts, serialVars, pinVars, adcVars, call, oldSREG, value>>

TurnOffPWM(from, to) ==
  /\ Go(from, to)
  /\ com' = com \ {Timers[pin]}
  /\ UNCHANGED <<interrupts, serialVars, ddr, out, ocr, adcVars, call, oldSREG, value>>

WritePwm == TurnOffPWM("write pwm", "write save")

WriteSave == Save("write save", "write latch")

\* Mutant: returns with the interrupts off.
WriteLatchReturns ==
  /\ Go("write latch", "program")
  /\ out' = Assign(out, pin, arg # LOW) /\ oldSREG' = FALSE
  /\ Forget
  /\ UNCHANGED <<interrupts, serialVars, ddr, com, ocr, adcVars, value>>

WriteLatch ==
  /\ Go("write latch", "restore")
  /\ out' = Assign(out, pin, arg # LOW)
  /\ UNCHANGED <<interrupts, serialVars, ddr, com, ocr, adcVars, call, oldSREG, value>>

DigitalRead(p) ==
  Begin(IF OnTimer(p) THEN "read pwm" ELSE "read level", p, 0, 0, "program")

ReadPwm == TurnOffPWM("read pwm", "read level")

\* PINx of an output is its latch, that of an input comes from outside.
ReadLevel ==
  /\ Go("read level", "program")
  /\ value' \in {LOW, HIGH}
  /\ IsSet(ddr, pin) => (value' = HIGH <=> IsSet(out, pin))
  /\ Forget
  /\ UNCHANGED <<interrupts, serialVars, pinVars, adcVars, oldSREG>>

(***************************************************************************)
(* analogWrite: pinMode, then digitalWrite or the duty of a channel.       *)
(***************************************************************************)
AnalogWrite(p, v) == Begin("mode save", p, OUTPUT, v, "analog")

\* val is an int: the upper half of its 16 bits is negative.
Negative(v) == v >= 32768

\* The nearer level, for a pin without a timer; 0 and 255 have it on any pin.
Rounded(v) == IF Negative(v) \/ v < 128 THEN LOW ELSE HIGH

AnalogLevel ==
  /\ pc = "analog" /\ (val \in {0, 255} \/ ~OnTimer(pin))
  /\ pc' = WritePlace(pin) /\ after' = "program"
  /\ arg' = Rounded(val)
  /\ UNCHANGED <<interrupts, serialVars, pinVars, adcVars, pin, val, oldSREG, value>>

\* Mutant: the case of TIMER2B sets COM2A1, the bit of the case above it.
AnalogConnectOther ==
  /\ Go("analog", "analog duty")
  /\ val \notin {0, 255} /\ OnTimer(pin)
  /\ com' = com \cup {IF Timers[pin] = "2B" THEN "2A" ELSE Timers[pin]}
  /\ UNCHANGED <<interrupts, serialVars, ddr, out, ocr, adcVars, call, oldSREG, value>>

AnalogConnect ==
  /\ Go("analog", "analog duty")
  /\ val \notin {0, 255} /\ OnTimer(pin)
  /\ com' = com \cup {Timers[pin]}
  /\ UNCHANGED <<interrupts, serialVars, ddr, out, ocr, adcVars, call, oldSREG, value>>

AnalogDuty ==
  /\ Go("analog duty", "program")
  /\ ocr' = [ocr EXCEPT ![Timers[pin]] = val % Width(Timers[pin])]
  /\ Forget
  /\ UNCHANGED <<interrupts, serialVars, ddr, out, com, adcVars, oldSREG, value>>

(***************************************************************************)
(* analogReference and analogRead.                                         *)
(***************************************************************************)
AnalogReference(mode) ==
  /\ Go("program", "program")
  /\ analog_reference' = mode
  /\ UNCHANGED <<interrupts, serialVars, pinVars, admux, adcsra, adc, call, oldSREG, value>>

AnalogRead(p) == Begin("adc mux", p, 0, 0, "program")

Input(p) == (IF p >= 14 THEN p - 14 ELSE p) % 8

AdcMux ==
  /\ Go("adc mux", "adc start")
  /\ admux' = <<analog_reference, Input(pin)>>
  /\ UNCHANGED <<interrupts, serialVars, pinVars, analog_reference, adcsra, adc, call, oldSREG,
                 value>>

AdcStart ==
  /\ Go("adc start", "adc wait")
  /\ adcsra' = adcsra \cup {"ADSC"}
  /\ UNCHANGED <<interrupts, serialVars, pinVars, analog_reference, admux, adc, call, oldSREG,
                 value>>

\* The last turn of the loop on ADSC; what adc holds is returned.
AdcWait ==
  /\ Go("adc wait", "program")
  /\ "ADSC" \notin adcsra
  /\ Forget
  /\ UNCHANGED <<interrupts, serialVars, pinVars, adcVars, oldSREG, value>>

\* The converter clears ADSC.  It converts if ADEN is set; if not, whether ADSC
\* ever reads as 0 is not known.
Converter ==
  /\ "ADSC" \in adcsra /\ adcsra' = adcsra \ {"ADSC"}
  /\ adc' = IF "ADEN" \in adcsra THEN admux[2] ELSE adc
  /\ UNCHANGED <<vars, pinVars, analog_reference, admux, call, oldSREG, value>>

(***************************************************************************)
(* The specification.                                                      *)
(***************************************************************************)
WiringCalls ==
  \/ \E p \in Pins : \/ \E mode \in {INPUT, OUTPUT, INPUT_PULLUP} : PinMode(p, mode)
                     \/ \E level \in {LOW, HIGH} : DigitalWrite(p, level)
                     \/ \E v \in Values : AnalogWrite(p, v)
                     \/ DigitalRead(p)
  \/ \E p \in AnalogPins : AnalogRead(p)
  \/ \E mode \in References : AnalogReference(mode)

InWiring ==
  \/ ModeSave \/ ModeDirection \/ ModeLatch \/ Restore
  \/ WritePwm \/ WriteSave \/ WriteLatch \/ ReadPwm \/ ReadLevel
  \/ AnalogLevel \/ AnalogConnect \/ AnalogDuty
  \/ AdcMux \/ AdcStart \/ AdcWait

Serial(step) == step /\ UNCHANGED wiringVars

BoardNext == Serial(Next) \/ WiringCalls \/ InWiring \/ Converter

\* As in Uart, but a handler waits while a pin function has the interrupts off,
\* again and again: the processor takes a pending interrupt one instruction after
\* they come back.  The converter answers once it is enabled.
BoardFairness ==
  /\ WF_boardVars(Serial(InCall) \/ InWiring)
  /\ SF_boardVars(Serial(ReceiveInterrupt)) /\ SF_boardVars(Serial(TransmitInterrupt))
  /\ WF_boardVars(Serial(Shift))
  /\ WF_boardVars(Converter /\ "ADEN" \in adcsra)

BoardSpec == BoardInit /\ [][BoardNext]_boardVars /\ BoardFairness

(***************************************************************************)
(* Properties                                                              *)
(***************************************************************************)
WiringPlaces == {"mode save", "mode direction", "mode latch", "restore", "write pwm",
                 "write save", "write latch", "read pwm", "read level", "analog",
                 "analog duty", "adc mux", "adc start", "adc wait"}

\* Registers hold bits and duties they have, only channels of pins the program uses
\* are ever connected, and a call works on a pin it was given.
WiringTypeOK ==
  /\ ddr \in [{"B", "C", "D"} -> SUBSET (0..7)] /\ out \in [{"B", "C", "D"} -> SUBSET (0..7)]
  /\ com \subseteq Channels /\ ocr \in [Channels -> Nat] /\ \A c \in Channels : ocr[c] < Width(c)
  /\ pc \in Places \cup WiringPlaces /\ after \in {"program", "analog"}
  /\ interrupts \in BOOLEAN /\ oldSREG \in BOOLEAN
  /\ pin \in Pins \cup AnalogPins \cup {0} /\ arg \in 0..2 /\ val \in Values \cup {0}
  /\ analog_reference \in 0..3 /\ adcsra \subseteq {"ADSC"} /\ value \in Nat

\* The interrupts are off only between the copy of SREG and its return: every
\* other step of a call, and the program itself, runs with the handlers of the
\* serial port on.
InterruptsRestored ==
  pc \notin {"init", "stopped", "mode direction", "mode latch", "write latch", "restore"}
    => interrupts

Driven(p) == IsSet(ddr, p) /\ (OnTimer(p) => Timers[p] \notin com)

\* A pin that drives a level changes it only when digitalWrite stores it there:
\* pinMode clears the direction of an output before it sets or clears its latch for
\* the pull-up, and no call for one pin changes the level another drives.
NoGlitch ==
  [][\A p \in Pins : Driven(p) /\ Driven(p)' /\ IsSet(out, p) # IsSet(out, p)'
       => pc = "write latch" /\ pin = p]_boardVars

\* Registers, masks and timers give each pin a state of its own.  The direction
\* of an input and its pull-up count as one step: no handler comes between.
Wired == DOMAIN Timers \cap Pins
LevelOf(p) ==
  IF (IF pc = "mode latch" /\ pin = p THEN arg = INPUT_PULLUP ELSE IsSet(out, p))
  THEN HIGH ELSE LOW
Duties(p) == 0..Width(Timers[p]) - 1

modes == [p \in Pins |-> IF IsSet(ddr, p) THEN "output" ELSE "input"]
levels == [p \in Pins |-> LevelOf(p)]
waves == [p \in Wired |-> Timers[p] \in com]
duties == [p \in Wired |-> ocr[Timers[p]]]

EachPin == INSTANCE Pins WITH
  Pin <- Pins, WavePin <- Wired, Duty <- Duties,
  mode <- modes, level <- levels, wave <- waves, duty <- duties, seen <- value

ImplementsPins == EachPin!Spec

\* The serial port does not see the pin functions.  To uart.c a call of one is a
\* pause of the program with the interrupts on: they come back with it, no store
\* goes to a variable or register of the port, and nothing of its own calls is cut.
portPc == IF pc \in WiringPlaces THEN "program" ELSE pc
portInterrupts == pc \in WiringPlaces \/ interrupts

Alone == INSTANCE Uart WITH pc <- portPc, interrupts <- portInterrupts

KeepsSerialPort == Alone!Init /\ [][Alone!Next]_Alone!vars

\* What was put is sent, whatever the program does with its pins meanwhile.
BoardEverythingSent == TxHead # TxTail ~> TxHead = TxTail \/ pc = "stopped"

\* analogRead returns a conversion of the input of its pin.
AnalogReadConverts ==
  \A p \in AnalogPins : pc = "adc wait" /\ pin = p ~> pc = "program" /\ adc = Input(p)
===============================================================================
