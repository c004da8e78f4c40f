----------------------------- MODULE Wiring_proofs -----------------------------
(***************************************************************************)
(* The pin functions are safe for any set of pins: registers keep their    *)
(* types, the interrupts come back, and no pin that drives a level         *)
(* changes it except by digitalWrite.  They implement the pins of module   *)
(* Pins, and leave the serial port alone, with buffers of any size.        *)
(***************************************************************************)
EXTENDS Wiring, TLAPS

Off == {"mode direction", "mode latch", "write latch", "restore"}
PinPlaces == {"mode save", "mode direction", "mode latch", "restore", "write pwm", "write save",
              "write latch", "read pwm", "read level", "analog", "analog duty"}

\* What a call relies on at each of its steps.
CallHolds ==
  /\ pc \in Off => oldSREG = TRUE
  /\ pc \in PinPlaces => pin \in Pins
  /\ pc \in {"write pwm", "read pwm", "analog duty"} => OnTimer(pin)
  /\ pc = "mode latch" => ~IsSet(ddr, pin)

RegistersOK ==
  /\ ddr \in [{"B", "C", "D"} -> SUBSET (0..7)] /\ out \in [{"B", "C", "D"} -> SUBSET (0..7)]
  /\ com \subseteq Channels
  /\ ocr \in [Channels -> Nat] /\ \A c \in Channels : ocr[c] < Width(c)
  /\ analog_reference \in 0..3 /\ adcsra \subseteq {"ADSC"} /\ value \in Nat

ControlOK ==
  /\ pc \in Places \cup WiringPlaces /\ after \in {"program", "analog"}
  /\ interrupts \in BOOLEAN /\ oldSREG \in BOOLEAN
  /\ pin \in Pins \cup AnalogPins \cup {0} /\ arg \in 0..2 /\ val \in Values \cup {0}

LEMMA TypeParts == WiringTypeOK <=> RegistersOK /\ ControlOK
  BY DEF WiringTypeOK, RegistersOK, ControlOK

BInv == RegistersOK /\ ControlOK /\ InterruptsRestored /\ CallHolds

(***************************************************************************)
(* The tables of the pins.                                                 *)
(***************************************************************************)
LEMMA PinTables ==
  ASSUME NEW p \in 0..19
  PROVE  PortOf(p) \in {"B", "C", "D"} /\ BitOf(p) \in 0..7
  BY DEF PortOf, BitOf

\* No two pins share a bit of a port.
LEMMA OwnBit ==
  ASSUME NEW p \in 0..19, NEW q \in 0..19, p # q
  PROVE  PortOf(p) # PortOf(q) \/ BitOf(p) # BitOf(q)
  BY DEF PortOf, BitOf

LEMMA OwnChannel ==
  ASSUME NEW p \in Pins, OnTimer(p)
  PROVE  Timers[p] \in Channels
  BY DEF OnTimer, Channels

LEMMA AssignType ==
  ASSUME NEW reg \in [{"B", "C", "D"} -> SUBSET (0..7)], NEW p \in 0..19, NEW on \in BOOLEAN
  PROVE  Assign(reg, p, on) \in [{"B", "C", "D"} -> SUBSET (0..7)]
  BY PinTables DEF Assign

\* Assigning a pin's bit changes that bit, and that of no other pin.
LEMMA AssignSets ==
  ASSUME NEW reg \in [{"B", "C", "D"} -> SUBSET (0..7)], NEW p \in 0..19, NEW on \in BOOLEAN
  PROVE  /\ IsSet(Assign(reg, p, on), p) <=> on
         /\ \A q \in 0..19 : q # p => (IsSet(Assign(reg, p, on), q) <=> IsSet(reg, q))
<1>1. PortOf(p) \in {"B", "C", "D"}
  BY PinTables
<1>2. IsSet(Assign(reg, p, on), p) <=> on
  BY <1>1 DEF Assign, IsSet
<1>3. ASSUME NEW q \in 0..19, q # p
      PROVE  IsSet(Assign(reg, p, on), q) <=> IsSet(reg, q)
  <2>1. PortOf(q) \in {"B", "C", "D"}
    BY PinTables
  <2>2. CASE PortOf(p) # PortOf(q)
    BY <1>1, <2>1, <2>2 DEF Assign, IsSet
  <2>3. CASE PortOf(p) = PortOf(q) /\ BitOf(p) # BitOf(q)
    BY <1>1, <2>1, <2>3 DEF Assign, IsSet
  <2> QED
    BY <1>3, <2>2, <2>3, OwnBit
<1> QED
  BY <1>2, <1>3

(***************************************************************************)
(* The invariant.                                                          *)
(***************************************************************************)
LEMMA BoardInitOK == BoardInit => BInv
<1> SUFFICES ASSUME BoardInit PROVE BInv
  OBVIOUS
<1>1. RegistersOK
  BY DEF BoardInit, RegistersOK, Width
<1>2. ControlOK
  <2>1. interrupts \in BOOLEAN /\ oldSREG \in BOOLEAN
    BY DEF BoardInit, Init
  <2>2. pc \in Places /\ after \in {"program", "analog"} /\ pin = 0 /\ arg \in 0..2 /\ val = 0
    BY DEF BoardInit, Init, Places
  <2> QED
    BY <2>1, <2>2 DEF ControlOK
<1>3. InterruptsRestored /\ CallHolds
  BY DEF BoardInit, Init, InterruptsRestored, CallHolds, Off, PinPlaces
<1> QED
  BY <1>1, <1>2, <1>3 DEF BInv

\* The serial port moves between places of its own and leaves the interrupts on.
LEMMA SerialMoves ==
  Next => \/ UNCHANGED <<pc, interrupts>>
          \/ /\ pc \in Places \ {"stopped"} /\ pc' \in Places
             /\ \/ interrupts' = TRUE
                \/ interrupts' = interrupts /\ pc # "init"
                \/ interrupts' = FALSE /\ pc' = "stopped"
<1> USE DEF Go, Places
<1>1. CASE Boot
  BY <1>1 DEF Boot, InitIndices, InitControl, Sei
<1>2. CASE Calls
  BY <1>2 DEF Calls, Puts, GetcTest, PeekTest, Available, Flush
<1>3. CASE PutcHead \/ PutcWait \/ PutcStore \/ PutcAdvance \/ PutcReadControl \/ PutcEnable
  BY <1>3 DEF PutcHead, PutcWait, PutcStore, PutcAdvance, PutcReadControl, PutcEnable
<1>4. CASE GetcTail \/ GetcData \/ PeekData \/ ReadStatus
  BY <1>4 DEF GetcTail, GetcData, PeekData, ReadStatus
<1>5. CASE Exit
  BY <1>5 DEF Exit
<1>6. CASE ReceiveInterrupt \/ TransmitInterrupt \/ Shift \/ Arrive
  BY <1>6 DEF ReceiveInterrupt, TransmitInterrupt, Shift, Arrive
<1> QED
  BY <1>1, <1>2, <1>3, <1>4, <1>5, <1>6 DEF Next, InCall

LEMMA SerialKeepsBoard == BInv /\ Serial(Next) => BInv'
<1> SUFFICES ASSUME BInv, Serial(Next) PROVE BInv'
  OBVIOUS
<1> USE DEF BInv, Serial, wiringVars, pinVars, adcVars, call
<1>1. RegistersOK'
  BY DEF RegistersOK
<1>2. ControlOK'
  BY SerialMoves DEF ControlOK
<1>3. InterruptsRestored' /\ CallHolds'
  <2>1. CASE UNCHANGED <<pc, interrupts>>
    BY <2>1 DEF InterruptsRestored, CallHolds
  <2>2. CASE pc \in Places /\ pc' \in Places
    <3>1. InterruptsRestored'
      BY <2>2, SerialMoves DEF InterruptsRestored, Places, ControlOK
    <3>2. CallHolds'
      BY <2>2 DEF CallHolds, Places, Off, PinPlaces
    <3> QED
      BY <3>1, <3>2
  <2> QED
    BY <2>1, <2>2, SerialMoves
<1> QED
  BY <1>1, <1>2, <1>3

(***************************************************************************)
(* The registers.                                                          *)
(***************************************************************************)
LEMMA OnBoard == ASSUME BInv, pc \in PinPlaces PROVE pin \in Pins /\ pin \in 0..19
  BY PinsAssumption DEF BInv, CallHolds

LEMMA DutyFits ==
  ASSUME NEW v \in Nat, NEW c PROVE v % Width(c) \in Nat /\ v % Width(c) < Width(c)
<1>1. Width(c) = 65536 \/ Width(c) = 256
  BY DEF Width
<1> QED
  BY <1>1

LEMMA CallsKeepRegisters == BInv /\ WiringCalls => RegistersOK'
<1> SUFFICES ASSUME BInv, WiringCalls PROVE RegistersOK'
  OBVIOUS
<1>1. CASE \E mode \in References : AnalogReference(mode)
  <2>1. PICK mode \in References :
          analog_reference' = mode /\ UNCHANGED <<ddr, out, com, ocr, adcsra, value>>
    BY <1>1 DEF AnalogReference, pinVars
  <2>2. analog_reference' \in 0..3
    BY <2>1, ValuesAssumption
  <2>3. RegistersOK
    BY DEF BInv
  <2> QED
    BY <2>1, <2>2, <2>3 DEF RegistersOK
<1>2. CASE UNCHANGED <<pinVars, adcVars, value>>
  BY <1>2 DEF BInv, RegistersOK, pinVars, adcVars
<1> QED
  BY <1>1, <1>2
     DEF WiringCalls, PinMode, DigitalWrite, AnalogWrite, DigitalRead, AnalogRead, Begin

LEMMA StepsKeepRegisters == BInv /\ (InWiring \/ Converter) => RegistersOK'
<1> SUFFICES ASSUME BInv, InWiring \/ Converter PROVE RegistersOK'
  OBVIOUS
<1>r. RegistersOK
  BY DEF BInv
<1>1. CASE ModeSave \/ WriteSave \/ Restore \/ AnalogLevel \/ AdcWait
  BY <1>1, <1>r
     DEF ModeSave, WriteSave, Save, Restore, AnalogLevel, AdcWait, RegistersOK, pinVars, adcVars
<1>2. CASE ModeDirection
  <2>1. ddr' = Assign(ddr, pin, arg = OUTPUT) /\ UNCHANGED <<out, com, ocr, adcVars, value>>
    BY <1>2 DEF ModeDirection
  <2>2. pin \in 0..19
    BY <1>2, OnBoard DEF ModeDirection, Go, PinPlaces
  <2>3. ddr' \in [{"B", "C", "D"} -> SUBSET (0..7)]
    BY <1>r, <2>1, <2>2, AssignType DEF RegistersOK
  <2> QED
    BY <1>r, <2>1, <2>3 DEF RegistersOK, adcVars
<1>3. CASE ModeLatch \/ WriteLatch
  <2>1. PICK on \in BOOLEAN :
          out' = Assign(out, pin, on) /\ UNCHANGED <<ddr, com, ocr, adcVars, value>>
    BY <1>3 DEF ModeLatch, WriteLatch
  <2>2. pin \in 0..19
    BY <1>3, OnBoard DEF ModeLatch, WriteLatch, Go, PinPlaces
  <2>3. out' \in [{"B", "C", "D"} -> SUBSET (0..7)]
    BY <1>r, <2>1, <2>2, AssignType DEF RegistersOK
  <2> QED
    BY <1>r, <2>1, <2>3 DEF RegistersOK, adcVars
<1>4. CASE WritePwm \/ ReadPwm
  <2>1. com' \subseteq com /\ UNCHANGED <<ddr, out, ocr, adcVars, value>>
    BY <1>4 DEF WritePwm, ReadPwm, TurnOffPWM
  <2> QED
    BY <1>r, <2>1 DEF RegistersOK, adcVars
<1>5. CASE AnalogConnect
  <2>1. com' = com \cup {Timers[pin]} /\ OnTimer(pin) /\ UNCHANGED <<ddr, out, ocr, adcVars, value>>
    BY <1>5 DEF AnalogConnect
  <2>2. pin \in Pins
    BY <1>5, OnBoard DEF AnalogConnect, Go, PinPlaces
  <2>3. Timers[pin] \in Channels
    BY <2>1, <2>2, OwnChannel
  <2> QED
    BY <1>r, <2>1, <2>3 DEF RegistersOK, adcVars
<1>6. CASE AnalogDuty
  <2> DEFINE c == Timers[pin]
  <2>1. /\ ocr' = [ocr EXCEPT ![c] = val % Width(c)]
        /\ UNCHANGED <<ddr, out, com, adcVars, value>>
    BY <1>6 DEF AnalogDuty
  <2> HIDE DEF c
  <2>c. val \in Values \cup {0}
    BY DEF BInv, ControlOK
  <2>2. val \in Nat
    BY <2>c, ValuesAssumption
  <2>3. val % Width(c) \in Nat /\ val % Width(c) < Width(c)
    BY <2>2, DutyFits
  <2>4. ocr' \in [Channels -> Nat]
    BY <1>r, <2>1, <2>3 DEF RegistersOK
  <2>5. \A d \in Channels : ocr'[d] < Width(d)
    BY <1>r, <2>1, <2>3 DEF RegistersOK
  <2> QED
    BY <1>r, <2>1, <2>4, <2>5 DEF RegistersOK, adcVars
<1>7. CASE ReadLevel
  <2>v. value' \in {LOW, HIGH}
    BY <1>7 DEF ReadLevel
  <2>1. value' \in Nat
    BY <2>v DEF LOW, HIGH
  <2> QED
    BY <1>7, <1>r, <2>1 DEF ReadLevel, RegistersOK, pinVars, adcVars
<1>8. CASE AdcMux \/ AdcStart \/ Converter
  BY <1>8, <1>r DEF AdcMux, AdcStart, Converter, RegistersOK, pinVars
<1> QED
  BY <1>1, <1>2, <1>3, <1>4, <1>5, <1>6, <1>7, <1>8 DEF InWiring

(***************************************************************************)
(* The calls.                                                              *)
(***************************************************************************)
\* What is true of the state in which a call begins.
Begun(place, p, a, v, then) ==
  /\ pc = "program" /\ pc' = place
  /\ interrupts' = interrupts /\ oldSREG' = oldSREG
  /\ pin' = p /\ arg' = a /\ val' = v /\ after' = then

LEMMA CallBegins ==
  ASSUME BInv, NEW place, NEW p \in Pins \cup AnalogPins, NEW a \in 0..2,
         NEW v \in Values \cup {0}, NEW then \in {"program", "analog"},
         Begun(place, p, a, v, then),
         \/ place \in {"mode save", "write save", "read level"} /\ p \in Pins
         \/ place \in {"write pwm", "read pwm"} /\ p \in Pins /\ OnTimer(p)
         \/ place = "adc mux"
  PROVE  ControlOK' /\ InterruptsRestored' /\ CallHolds'
<1>1. interrupts' \in BOOLEAN /\ oldSREG' \in BOOLEAN
  BY DEF BInv, ControlOK, Begun
<1>2. ControlOK'
  BY <1>1 DEF ControlOK, Begun, WiringPlaces
<1>3. InterruptsRestored'
  BY DEF BInv, InterruptsRestored, Begun
<1>4. CallHolds'
  BY DEF CallHolds, Begun, Off, PinPlaces, OnTimer
<1> QED
  BY <1>2, <1>3, <1>4

LEMMA CallsBegin == BInv /\ WiringCalls => ControlOK' /\ InterruptsRestored' /\ CallHolds'
<1> SUFFICES ASSUME BInv, WiringCalls PROVE ControlOK' /\ InterruptsRestored' /\ CallHolds'
  OBVIOUS
<1>1. ASSUME NEW p \in Pins, NEW mode \in {INPUT, OUTPUT, INPUT_PULLUP}, PinMode(p, mode)
      PROVE  ControlOK' /\ InterruptsRestored' /\ CallHolds'
  <2>1. mode \in 0..2
    BY DEF INPUT, OUTPUT, INPUT_PULLUP
  <2>2. Begun("mode save", p, mode, 0, "program")
    BY <1>1 DEF PinMode, Begin, Begun, Go
  <2> QED
    BY <2>1, <2>2, CallBegins
<1>2. ASSUME NEW p \in Pins, NEW level \in {LOW, HIGH}, DigitalWrite(p, level)
      PROVE  ControlOK' /\ InterruptsRestored' /\ CallHolds'
  <2>1. level \in 0..2
    BY DEF LOW, HIGH
  <2>2. Begun(WritePlace(p), p, level, 0, "program")
    BY <1>2 DEF DigitalWrite, Begin, Begun, Go
  <2>3. \/ WritePlace(p) = "write save"
        \/ WritePlace(p) = "write pwm" /\ OnTimer(p)
    BY DEF WritePlace
  <2> QED
    BY <2>1, <2>2, <2>3, CallBegins
<1>3. ASSUME NEW p \in Pins, NEW v \in Values, AnalogWrite(p, v)
      PROVE  ControlOK' /\ InterruptsRestored' /\ CallHolds'
  <2>1. OUTPUT \in 0..2
    BY DEF OUTPUT
  <2>2. Begun("mode save", p, OUTPUT, v, "analog")
    BY <1>3 DEF AnalogWrite, Begin, Begun, Go
  <2> QED
    BY <2>1, <2>2, CallBegins
<1>4. ASSUME NEW p \in Pins, DigitalRead(p)
      PROVE  ControlOK' /\ InterruptsRestored' /\ CallHolds'
  <2> DEFINE place == IF OnTimer(p) THEN "read pwm" ELSE "read level"
  <2>1. Begun(place, p, 0, 0, "program")
    BY <1>4 DEF DigitalRead, Begin, Begun, Go
  <2>2. \/ place = "read level"
        \/ place = "read pwm" /\ OnTimer(p)
    OBVIOUS
  <2> HIDE DEF place
  <2>3. 0 \in 0..2 /\ 0 \in Values \cup {0}
    OBVIOUS
  <2> QED
    BY <2>1, <2>2, <2>3, CallBegins
<1>5. ASSUME NEW p \in AnalogPins, AnalogRead(p)
      PROVE  ControlOK' /\ InterruptsRestored' /\ CallHolds'
  <2>1. Begun("adc mux", p, 0, 0, "program")
    BY <1>5 DEF AnalogRead, Begin, Begun, Go
  <2>2. 0 \in 0..2 /\ 0 \in Values \cup {0}
    OBVIOUS
  <2> QED
    BY <2>1, <2>2, CallBegins
<1>6. ASSUME NEW mode \in References, AnalogReference(mode)
      PROVE  ControlOK' /\ InterruptsRestored' /\ CallHolds'
  <2>1. UNCHANGED <<pc, interrupts, call, oldSREG>> /\ pc = "program"
    BY <1>6 DEF AnalogReference, Go
  <2>2. interrupts' \in BOOLEAN /\ oldSREG' \in BOOLEAN
    BY <2>1 DEF BInv, ControlOK
  <2>3. ControlOK'
    BY <2>1, <2>2 DEF BInv, ControlOK, call
  <2>4. InterruptsRestored' /\ CallHolds'
    BY <2>1 DEF BInv, InterruptsRestored, CallHolds, Off, PinPlaces
  <2> QED
    BY <2>3, <2>4
<1> QED
  BY <1>1, <1>2, <1>3, <1>4, <1>5, <1>6 DEF WiringCalls

\* A step of a call that leaves the interrupts and the arguments alone.
LEMMA CallGoesOn ==
  ASSUME BInv, NEW place \in WiringPlaces, pc' = place, pc \in WiringPlaces,
         UNCHANGED <<interrupts, oldSREG, pin, arg, val, after>>,
         pc \in Off <=> place \in Off
  PROVE  ControlOK' /\ InterruptsRestored'
<1>1. interrupts' \in BOOLEAN /\ oldSREG' \in BOOLEAN
  BY DEF BInv, ControlOK
<1>2. ControlOK'
  BY <1>1 DEF BInv, ControlOK
<1>3. CASE pc \in Off
  <2>1. pc' \in {"mode direction", "mode latch", "write latch", "restore"}
    BY <1>3 DEF Off
  <2> QED
    BY <1>2, <2>1 DEF InterruptsRestored
<1>4. CASE pc \notin Off
  <2>1. pc \notin {"init", "stopped"}
    BY DEF WiringPlaces
  <2>2. interrupts
    BY <1>4, <2>1 DEF BInv, InterruptsRestored, Off
  <2>3. interrupts' = interrupts
    OBVIOUS
  <2> QED
    BY <1>2, <2>2, <2>3 DEF InterruptsRestored
<1> QED
  BY <1>2, <1>3, <1>4

\* A step that ends a call with the interrupts on.
LEMMA CallEnds ==
  ASSUME BInv, pc \in WiringPlaces \ Off, pc' = "program", Forget, UNCHANGED <<interrupts, oldSREG>>
  PROVE  ControlOK' /\ InterruptsRestored' /\ CallHolds'
<1>1. interrupts
  BY DEF BInv, InterruptsRestored, Off, WiringPlaces
<1>2. interrupts' \in BOOLEAN /\ oldSREG' \in BOOLEAN
  BY DEF BInv, ControlOK
<1>3. ControlOK'
  BY <1>2 DEF Forget, ControlOK, Places
<1>4. InterruptsRestored'
  BY <1>1 DEF InterruptsRestored
<1>5. CallHolds'
  BY DEF CallHolds, Off, PinPlaces
<1> QED
  BY <1>3, <1>4, <1>5

LEMMA SaveStep ==
  ASSUME BInv, NEW from, NEW to, Save(from, to), from \in {"mode save", "write save"},
         to \in {"mode direction", "write latch"}
  PROVE  ControlOK' /\ InterruptsRestored' /\ CallHolds'
<1>1. interrupts = TRUE
  <2>1. interrupts
    BY DEF BInv, InterruptsRestored, Save, Go
  <2>2. interrupts \in BOOLEAN
    BY DEF BInv, ControlOK
  <2> QED
    BY <2>1, <2>2
<1>2. oldSREG' = TRUE /\ interrupts' = FALSE /\ pc' = to /\ pc = from /\ UNCHANGED call
  BY <1>1 DEF Save, Go
<1>3. interrupts' \in BOOLEAN /\ oldSREG' \in BOOLEAN
  BY <1>2
<1>4. ControlOK'
  BY <1>2, <1>3 DEF BInv, ControlOK, WiringPlaces, call
<1>5. InterruptsRestored'
  BY <1>2 DEF InterruptsRestored
<1>6. CallHolds'
  BY <1>2 DEF BInv, CallHolds, Off, PinPlaces, call
<1> QED
  BY <1>4, <1>5, <1>6

LEMMA RestoreStep == BInv /\ Restore => ControlOK' /\ InterruptsRestored' /\ CallHolds'
<1> SUFFICES ASSUME BInv, Restore PROVE ControlOK' /\ InterruptsRestored' /\ CallHolds'
  OBVIOUS
<1>1. pc = "restore" /\ pc' = after /\ oldSREG' = FALSE
  BY DEF Restore, Go
<1>2. interrupts' = TRUE
  BY <1>1 DEF BInv, CallHolds, Off, Restore
<1>3. after \in {"program", "analog"} /\ pin \in Pins
  BY <1>1 DEF BInv, ControlOK, CallHolds, PinPlaces
<1>4. interrupts' \in BOOLEAN /\ oldSREG' \in BOOLEAN
  BY <1>1, <1>2
<1>5. ControlOK'
  <2>1. CASE after = "program"
    BY <1>1, <1>4, <2>1 DEF Restore, Forget, ControlOK, Places
  <2>2. CASE after = "analog"
    BY <1>1, <1>4, <2>2 DEF Restore, BInv, ControlOK, WiringPlaces, call
  <2> QED
    BY <1>3, <2>1, <2>2
<1>6. InterruptsRestored'
  BY <1>2 DEF InterruptsRestored
<1>7. CallHolds'
  <2>1. CASE after = "program"
    BY <1>1, <2>1 DEF CallHolds, Off, PinPlaces
  <2>2. CASE after = "analog"
    BY <1>1, <1>3, <2>2 DEF Restore, CallHolds, Off, PinPlaces, call
  <2> QED
    BY <1>3, <2>1, <2>2
<1> QED
  BY <1>5, <1>6, <1>7

LEMMA AnalogLevelStep == BInv /\ AnalogLevel => ControlOK' /\ InterruptsRestored' /\ CallHolds'
<1> SUFFICES ASSUME BInv, AnalogLevel PROVE ControlOK' /\ InterruptsRestored' /\ CallHolds'
  OBVIOUS
<1>1. /\ pc = "analog" /\ pc' = WritePlace(pin) /\ after' = "program" /\ arg' \in {LOW, HIGH}
      /\ UNCHANGED <<interrupts, pin, val, oldSREG>>
  BY DEF AnalogLevel, Rounded
<1>2. pin \in Pins
  BY <1>1 DEF BInv, CallHolds, PinPlaces
<1>3. interrupts' \in BOOLEAN /\ oldSREG' \in BOOLEAN
  BY <1>1 DEF BInv, ControlOK
<1>4. arg' \in 0..2 /\ val \in Values \cup {0}
  BY <1>1 DEF BInv, ControlOK, LOW, HIGH
<1>5. ControlOK'
  BY <1>1, <1>2, <1>3, <1>4 DEF ControlOK, WritePlace, WiringPlaces
<1>6. InterruptsRestored'
  BY <1>1 DEF BInv, InterruptsRestored
<1>7. CallHolds'
  BY <1>1, <1>2 DEF CallHolds, WritePlace, Off, PinPlaces, OnTimer
<1> QED
  BY <1>5, <1>6, <1>7

LEMMA StepsKeepCalls == BInv /\ InWiring => ControlOK' /\ InterruptsRestored' /\ CallHolds'
<1> SUFFICES ASSUME BInv, InWiring PROVE ControlOK' /\ InterruptsRestored' /\ CallHolds'
  OBVIOUS
<1>1. CASE ModeSave \/ WriteSave
  BY <1>1, SaveStep DEF ModeSave, WriteSave
<1>2. CASE Restore
  BY <1>2, RestoreStep
<1>3. CASE AnalogLevel
  BY <1>3, AnalogLevelStep
<1>4. CASE ReadLevel \/ AnalogDuty \/ AdcWait
  <2>1. pc \in WiringPlaces \ Off /\ pc' = "program" /\ Forget /\ UNCHANGED <<interrupts, oldSREG>>
    BY <1>4 DEF ReadLevel, AnalogDuty, AdcWait, Go, WiringPlaces, Off
  <2> QED
    BY <2>1, CallEnds
<1>5. CASE ModeDirection
  <2>1. /\ pc = "mode direction" /\ pc' = IF arg = OUTPUT THEN "restore" ELSE "mode latch"
        /\ ddr' = Assign(ddr, pin, arg = OUTPUT)
        /\ UNCHANGED <<interrupts, oldSREG, pin, arg, val, after>>
    BY <1>5 DEF ModeDirection, Go, call
  <2>2. ControlOK' /\ InterruptsRestored'
    BY <2>1, CallGoesOn DEF WiringPlaces, Off
  <2>3. pin \in Pins /\ pin \in 0..19
    BY <2>1, OnBoard DEF PinPlaces
  <2>4. arg # OUTPUT => ~IsSet(ddr', pin)
    BY <2>1, <2>3, AssignSets DEF BInv, RegistersOK
  <2>5. IsSet(ddr, pin)' <=> IsSet(ddr', pin)
    BY <2>1 DEF IsSet
  <2>6. oldSREG = TRUE
    BY <2>1 DEF BInv, CallHolds, Off
  <2>7. CallHolds'
    BY <2>1, <2>3, <2>4, <2>5, <2>6 DEF CallHolds, Off, PinPlaces
  <2> QED
    BY <2>2, <2>7
<1>6. CASE ModeLatch \/ WriteLatch
  <2>1. /\ pc \in {"mode latch", "write latch"} /\ pc' = "restore"
        /\ UNCHANGED <<interrupts, oldSREG, pin, arg, val, after>>
    BY <1>6 DEF ModeLatch, WriteLatch, Go, call
  <2>2. ControlOK' /\ InterruptsRestored'
    BY <2>1, CallGoesOn DEF WiringPlaces, Off
  <2>3. CallHolds'
    BY <2>1 DEF BInv, CallHolds, Off, PinPlaces
  <2> QED
    BY <2>2, <2>3
<1>7. CASE WritePwm \/ ReadPwm
  <2>1. /\ \/ pc = "write pwm" /\ pc' = "write save"
           \/ pc = "read pwm" /\ pc' = "read level"
        /\ UNCHANGED <<interrupts, oldSREG, pin, arg, val, after>>
    BY <1>7 DEF WritePwm, ReadPwm, TurnOffPWM, Go, call
  <2>2. ControlOK' /\ InterruptsRestored'
    BY <2>1, CallGoesOn DEF WiringPlaces, Off
  <2>3. CallHolds'
    BY <2>1 DEF BInv, CallHolds, Off, PinPlaces
  <2> QED
    BY <2>2, <2>3
<1>8. CASE AnalogConnect
  <2>1. /\ pc = "analog" /\ pc' = "analog duty" /\ OnTimer(pin)
        /\ UNCHANGED <<interrupts, oldSREG, pin, arg, val, after>>
    BY <1>8 DEF AnalogConnect, Go, call
  <2>2. ControlOK' /\ InterruptsRestored'
    BY <2>1, CallGoesOn DEF WiringPlaces, Off
  <2>3. CallHolds'
    BY <2>1 DEF BInv, CallHolds, Off, PinPlaces, OnTimer
  <2> QED
    BY <2>2, <2>3
<1>9. CASE AdcMux \/ AdcStart
  <2>1. /\ pc \in {"adc mux", "adc start"} /\ pc' \in {"adc start", "adc wait"}
        /\ UNCHANGED <<interrupts, oldSREG, pin, arg, val, after>>
    BY <1>9 DEF AdcMux, AdcStart, Go, call
  <2>2. ControlOK' /\ InterruptsRestored'
    BY <2>1, CallGoesOn DEF WiringPlaces, Off
  <2>3. CallHolds'
    BY <2>1 DEF CallHolds, Off, PinPlaces
  <2> QED
    BY <2>2, <2>3
<1> QED
  BY <1>1, <1>2, <1>3, <1>4, <1>5, <1>6, <1>7, <1>8, <1>9 DEF InWiring

LEMMA ConverterKeepsCalls == BInv /\ Converter => ControlOK' /\ InterruptsRestored' /\ CallHolds'
<1> SUFFICES ASSUME BInv, Converter PROVE ControlOK' /\ InterruptsRestored' /\ CallHolds'
  OBVIOUS
<1>1. UNCHANGED <<pc, interrupts, call, oldSREG, ddr>>
  BY DEF Converter, vars, pinVars
<1>2. interrupts' \in BOOLEAN /\ oldSREG' \in BOOLEAN
  BY <1>1 DEF BInv, ControlOK
<1>3. ControlOK'
  BY <1>1, <1>2 DEF BInv, ControlOK, call
<1>4. InterruptsRestored' /\ CallHolds'
  BY <1>1 DEF BInv, InterruptsRestored, CallHolds, IsSet, call
<1> QED
  BY <1>3, <1>4

LEMMA BoardStep == BInv /\ [BoardNext]_boardVars => BInv'
<1> SUFFICES ASSUME BInv, [BoardNext]_boardVars PROVE BInv'
  OBVIOUS
<1>1. CASE Serial(Next)
  BY <1>1, SerialKeepsBoard
<1>2. CASE WiringCalls
  BY <1>2, CallsKeepRegisters, CallsBegin DEF BInv
<1>3. CASE InWiring
  BY <1>3, StepsKeepRegisters, StepsKeepCalls DEF BInv
<1>4. CASE Converter
  BY <1>4, StepsKeepRegisters, ConverterKeepsCalls DEF BInv
<1>5. CASE UNCHANGED boardVars
  <2>1. UNCHANGED <<pc, interrupts, wiringVars>>
    BY <1>5 DEF boardVars, vars
  <2>2. interrupts' \in BOOLEAN /\ oldSREG' \in BOOLEAN
    BY <2>1 DEF BInv, ControlOK, wiringVars
  <2>3. RegistersOK'
    BY <2>1 DEF BInv, RegistersOK, wiringVars, pinVars, adcVars
  <2>4. ControlOK'
    BY <2>1, <2>2 DEF BInv, ControlOK, wiringVars, call
  <2>5. InterruptsRestored' /\ CallHolds'
    BY <2>1 DEF BInv, InterruptsRestored, CallHolds, IsSet, wiringVars, pinVars, call
  <2> QED
    BY <2>3, <2>4, <2>5 DEF BInv
<1> QED
  BY <1>1, <1>2, <1>3, <1>4, <1>5 DEF BoardNext

LEMMA BoardAlways == BoardSpec => []BInv
<1>1. BoardInit => BInv
  BY BoardInitOK
<1>2. BInv /\ [BoardNext]_boardVars => BInv'
  BY BoardStep
<1> QED
  BY <1>1, <1>2, PTL DEF BoardSpec

(***************************************************************************)
(* The theorems.                                                           *)
(***************************************************************************)
\* Whatever pins, values and references a program uses: the registers of its pins
\* hold bits they have, each duty fits its register, and a call works on one of its
\* pins (pinMode, digitalWrite, digitalRead, analogWrite, analogReference, analogRead).
THEOREM RegistersKeepTypes == BoardSpec => []WiringTypeOK
<1>1. BInv => WiringTypeOK
  BY TypeParts DEF BInv
<1> QED
  BY <1>1, BoardAlways, PTL

\* cli() and SREG = oldSREG of pinMode and digitalWrite: the interrupts are off
\* between the two only, so the handlers of the serial port get their turn.
THEOREM InterruptsComeBack == BoardSpec => []InterruptsRestored
<1>1. BInv => InterruptsRestored
  BY DEF BInv
<1> QED
  BY <1>1, BoardAlways, PTL

LEMMA OthersKeepLatches == [BoardNext]_boardVars => ModeLatch \/ WriteLatch \/ UNCHANGED out
<1> SUFFICES ASSUME [BoardNext]_boardVars, ~ModeLatch, ~WriteLatch PROVE UNCHANGED out
  OBVIOUS
<1>1. CASE Serial(Next) \/ UNCHANGED boardVars
  BY <1>1 DEF Serial, boardVars, wiringVars, pinVars
<1>2. CASE WiringCalls
  BY <1>2 DEF WiringCalls, PinMode, DigitalWrite, AnalogWrite, DigitalRead, AnalogRead,
              AnalogReference, Begin, pinVars
<1>3. CASE InWiring
  BY <1>3 DEF InWiring, ModeSave, ModeDirection, Restore, WritePwm, WriteSave, ReadPwm, ReadLevel,
              AnalogLevel, AnalogConnect, AnalogDuty, AdcMux, AdcStart, AdcWait, Save, TurnOffPWM,
              pinVars
<1>4. CASE Converter
  BY <1>4 DEF Converter, pinVars
<1> QED
  BY <1>1, <1>2, <1>3, <1>4 DEF BoardNext

LEMMA NoGlitchStep ==
  ASSUME BInv, [BoardNext]_boardVars, NEW p \in Pins, Driven(p),
         ~(IsSet(out, p) <=> IsSet(out', p))
  PROVE  pc = "write latch" /\ pin = p
<1>1. p \in 0..19 /\ out \in [{"B", "C", "D"} -> SUBSET (0..7)]
  BY PinsAssumption DEF BInv, RegistersOK
<1>2. CASE ModeLatch
  <2>1. PICK on \in BOOLEAN : pc = "mode latch" /\ out' = Assign(out, pin, on)
    BY <1>2 DEF ModeLatch, Go
  <2>2. pin \in 0..19
    BY <2>1, OnBoard DEF PinPlaces
  <2>3. p # pin
    BY <2>1 DEF BInv, CallHolds, Driven
  <2>4. IsSet(Assign(out, pin, on), p) <=> IsSet(out, p)
    BY <1>1, <2>2, <2>3, AssignSets
  <2>5. IsSet(out', p) <=> IsSet(out, p)
    BY <2>1, <2>4
  <2> QED
    BY <2>5
<1>3. CASE WriteLatch
  <2>1. PICK on \in BOOLEAN : pc = "write latch" /\ out' = Assign(out, pin, on)
    BY <1>3 DEF WriteLatch, Go
  <2>2. pin \in 0..19
    BY <2>1, OnBoard DEF PinPlaces
  <2>3. CASE p # pin
    <3>1. IsSet(Assign(out, pin, on), p) <=> IsSet(out, p)
      BY <1>1, <2>2, <2>3, AssignSets
    <3>2. IsSet(out', p) <=> IsSet(out, p)
      BY <2>1, <3>1
    <3> QED
      BY <3>2
  <2> QED
    BY <2>1, <2>3
<1>4. CASE UNCHANGED out
  BY <1>4
<1> QED
  BY <1>2, <1>3, <1>4, OthersKeepLatches

\* The order of the stores of pinMode, and the masks of its port: while a pin drives
\* a level, only digitalWrite for that pin changes it.
THEOREM PinsDoNotGlitch == BoardSpec => NoGlitch
<1>1. BInv /\ [BoardNext]_boardVars
      => \A p \in Pins : Driven(p) /\ Driven(p)' /\ IsSet(out, p) # IsSet(out, p)'
                           => pc = "write latch" /\ pin = p
  <2> SUFFICES ASSUME BInv, [BoardNext]_boardVars, NEW p \in Pins, Driven(p),
                      IsSet(out, p) # IsSet(out, p)'
               PROVE  pc = "write latch" /\ pin = p
    OBVIOUS
  <2>1. IsSet(out, p)' <=> IsSet(out', p)
    BY DEF IsSet
  <2>2. ~(IsSet(out, p) <=> IsSet(out, p)')
    BY DEF IsSet
  <2> QED
    BY <2>1, <2>2, NoGlitchStep
<1> QED
  BY <1>1, BoardAlways, PTL DEF NoGlitch, BoardSpec

-------------------------------------------------------------------------------
(***************************************************************************)
(* The two abstract views of the board.                                    *)
(***************************************************************************)
(***************************************************************************)
(* What the steps of a call rely on, beyond BInv: a wave starts on an      *)
(* output and has been taken off before the pin is written or read.        *)
(***************************************************************************)
Quiet(p) == OnTimer(p) => Timers[p] \notin com

PinHolds ==
  /\ after = "analog" => arg = OUTPUT
  /\ pc = "analog" => after = "analog"
  /\ pc \in {"write pwm", "write save", "write latch"} => after = "program"
  /\ pc = "mode latch" => arg # OUTPUT
  /\ pc \in {"restore", "analog"} /\ after = "analog" => IsSet(ddr, pin)
  /\ pc = "analog duty" => Timers[pin] \in com
  /\ pc \in {"write save", "write latch", "read level"} => Quiet(pin)

\* No two pins share a channel.
LEMMA OwnTimer ==
  ASSUME NEW p \in DOMAIN Timers, NEW q \in DOMAIN Timers, p # q
  PROVE  Timers[p] # Timers[q]
  BY DEF Timers

LEMMA InitPinHolds == BoardInit => PinHolds
  BY DEF BoardInit, Init, PinHolds

\* The serial port is at places of its own, with the arguments of no pin function
\* that could matter.
LEMMA SerialPinHolds == BInv /\ PinHolds /\ Serial(Next) => PinHolds'
<1> SUFFICES ASSUME BInv, PinHolds, Serial(Next) PROVE PinHolds'
  OBVIOUS
<1>1. UNCHANGED <<ddr, com, pin, arg, after>>
  BY DEF Serial, wiringVars, pinVars, call
<1>2. CASE pc' = pc
  BY <1>1, <1>2 DEF PinHolds, Quiet, IsSet
<1>3. CASE pc' \in Places
  BY <1>1, <1>3 DEF PinHolds, Places
<1> QED
  BY <1>2, <1>3, SerialMoves DEF Serial

LEMMA CallsPinHolds == BInv /\ PinHolds /\ WiringCalls => PinHolds'
<1> SUFFICES ASSUME BInv, PinHolds, WiringCalls PROVE PinHolds'
  OBVIOUS
<1>1. ASSUME NEW p, NEW mode, PinMode(p, mode) PROVE PinHolds'
  BY <1>1 DEF PinMode, Begin, Go, PinHolds
<1>2. ASSUME NEW p, NEW level, DigitalWrite(p, level) PROVE PinHolds'
  BY <1>2 DEF DigitalWrite, WritePlace, Begin, Go, PinHolds, Quiet
<1>3. ASSUME NEW p, NEW v, AnalogWrite(p, v) PROVE PinHolds'
  BY <1>3 DEF AnalogWrite, Begin, Go, PinHolds
<1>4. ASSUME NEW p, DigitalRead(p) PROVE PinHolds'
  BY <1>4 DEF DigitalRead, Begin, Go, PinHolds, Quiet
<1>5. ASSUME NEW p, AnalogRead(p) PROVE PinHolds'
  BY <1>5 DEF AnalogRead, Begin, Go, PinHolds
<1>6. ASSUME NEW mode, AnalogReference(mode) PROVE PinHolds'
  BY <1>6 DEF AnalogReference, Go, PinHolds, call
<1> QED
  BY <1>1, <1>2, <1>3, <1>4, <1>5, <1>6 DEF WiringCalls

LEMMA StepsPinHolds == BInv /\ PinHolds /\ InWiring => PinHolds'
<1> SUFFICES ASSUME BInv, PinHolds, InWiring PROVE PinHolds'
  OBVIOUS
<1>1. CASE ModeSave \/ WriteSave
  BY <1>1 DEF ModeSave, WriteSave, Save, Go, PinHolds, Quiet, call, pinVars
<1>2. CASE ModeDirection
  <2>1. /\ pc = "mode direction" /\ pc' = IF arg = OUTPUT THEN "restore" ELSE "mode latch"
        /\ ddr' = Assign(ddr, pin, arg = OUTPUT)
        /\ UNCHANGED <<com, pin, arg, after>>
    BY <1>2 DEF ModeDirection, Go, call
  <2>2. pin \in 0..19 /\ ddr \in [{"B", "C", "D"} -> SUBSET (0..7)]
    BY <2>1, OnBoard DEF PinPlaces, BInv, RegistersOK
  <2>3. IsSet(ddr', pin) <=> arg = OUTPUT
    BY <2>1, <2>2, AssignSets
  <2> QED
    BY <2>1, <2>3 DEF PinHolds, IsSet
<1>3. CASE ModeLatch \/ WriteLatch
  BY <1>3 DEF ModeLatch, WriteLatch, Go, PinHolds, call
<1>4. CASE Restore
  BY <1>4 DEF Restore, Go, PinHolds, Forget, IsSet, call, pinVars, BInv, ControlOK
<1>5. CASE WritePwm \/ ReadPwm
  BY <1>5 DEF WritePwm, ReadPwm, TurnOffPWM, Go, PinHolds, Quiet, call
<1>6. CASE ReadLevel \/ AnalogDuty \/ AdcWait
  BY <1>6 DEF ReadLevel, AnalogDuty, AdcWait, Go, Forget, PinHolds
<1>7. CASE AnalogLevel
  BY <1>7 DEF AnalogLevel, WritePlace, PinHolds, Quiet, pinVars
<1>8. CASE AnalogConnect
  BY <1>8 DEF AnalogConnect, Go, PinHolds, call
<1>9. CASE AdcMux \/ AdcStart
  BY <1>9 DEF AdcMux, AdcStart, Go, PinHolds, call
<1> QED
  BY <1>1, <1>2, <1>3, <1>4, <1>5, <1>6, <1>7, <1>8, <1>9 DEF InWiring

LEMMA BoardPinHolds == BInv /\ PinHolds /\ [BoardNext]_boardVars => PinHolds'
<1> SUFFICES ASSUME BInv, PinHolds, Converter \/ UNCHANGED boardVars PROVE PinHolds'
  BY SerialPinHolds, CallsPinHolds, StepsPinHolds DEF BoardNext
<1>1. UNCHANGED <<pc, ddr, com, pin, arg, after>>
  BY DEF Converter, boardVars, vars, wiringVars, pinVars, call
<1> QED
  BY <1>1 DEF PinHolds, Quiet, IsSet

(***************************************************************************)
(* The pins, one step of the board at a time.                              *)
(***************************************************************************)
\* The steps of Pins, with what they change.
LEMMA PinDriven ==
  ASSUME NEW p \in Pins, modes' = [modes EXCEPT ![p] = "output"],
         UNCHANGED <<levels, waves, duties, value>>
  PROVE  EachPin!Next
  BY DEF EachPin!Next, EachPin!Drive

LEMMA PinListens ==
  ASSUME NEW p \in Pins, NEW pull \in {0, 1}, modes' = [modes EXCEPT ![p] = "input"],
         levels' = [levels EXCEPT ![p] = pull], UNCHANGED <<waves, duties, value>>
  PROVE  EachPin!Next
  BY DEF EachPin!Next, EachPin!Listen, EachPin!LOW, EachPin!HIGH

LEMMA PinSet ==
  ASSUME NEW p \in Pins, NEW level \in {0, 1}, p \in Wired => ~waves[p],
         levels' = [levels EXCEPT ![p] = level], UNCHANGED <<modes, waves, duties, value>>
  PROVE  EachPin!Next
  BY DEF EachPin!Next, EachPin!Set, EachPin!NoWave, EachPin!LOW, EachPin!HIGH

LEMMA PinRead ==
  ASSUME NEW p \in Pins, value' \in {0, 1}, p \in Wired => ~waves[p],
         modes[p] = "output" => value' = levels[p], UNCHANGED <<modes, levels, waves, duties>>
  PROVE  EachPin!Next
  BY DEF EachPin!Next, EachPin!Read, EachPin!NoWave, EachPin!LOW, EachPin!HIGH

LEMMA PinDisconnected ==
  ASSUME NEW p \in Wired, waves' = [waves EXCEPT ![p] = FALSE],
         UNCHANGED <<modes, levels, duties, value>>
  PROVE  EachPin!Next
  BY DEF EachPin!Next, EachPin!Disconnect

LEMMA PinConnected ==
  ASSUME NEW p \in Wired, modes[p] = "output", waves' = [waves EXCEPT ![p] = TRUE],
         UNCHANGED <<modes, levels, duties, value>>
  PROVE  EachPin!Next
  BY DEF EachPin!Next, EachPin!Connect

LEMMA PinDuty ==
  ASSUME NEW p \in Wired, waves[p], NEW d \in Duties(p),
         duties' = [duties EXCEPT ![p] = d], duties'[p] = d,
         UNCHANGED <<modes, levels, waves, value>>
  PROVE  EachPin!Next
  BY DEF EachPin!Next, EachPin!SetDuty

\* What the four functions depend on.
LEMMA PinsKept ==
  /\ UNCHANGED ddr => UNCHANGED modes
  /\ UNCHANGED com => UNCHANGED waves
  /\ UNCHANGED ocr => UNCHANGED duties
  /\ UNCHANGED out /\ pc # "mode latch" /\ pc' # "mode latch" => UNCHANGED levels
  /\ UNCHANGED <<out, pc, pin, arg>> => UNCHANGED levels
<1>1. UNCHANGED ddr => UNCHANGED modes
  BY DEF modes, IsSet
<1>2. UNCHANGED com => UNCHANGED waves
  BY DEF waves
<1>3. UNCHANGED ocr => UNCHANGED duties
  BY DEF duties
<1>4. UNCHANGED out /\ pc # "mode latch" /\ pc' # "mode latch" => UNCHANGED levels
  BY DEF levels, LevelOf, IsSet
<1>5. UNCHANGED <<out, pc, pin, arg>> => UNCHANGED levels
  BY DEF levels, LevelOf, IsSet
<1> QED
  BY <1>1, <1>2, <1>3, <1>4, <1>5

\* Assigning the bit of a pin sets the entry of that pin.
LEMMA AssignMode ==
  ASSUME BInv, NEW p \in Pins, NEW on \in BOOLEAN, ddr' = Assign(ddr, p, on)
  PROVE  modes' = [modes EXCEPT ![p] = IF on THEN "output" ELSE "input"]
<1>1. p \in 0..19 /\ ddr \in [{"B", "C", "D"} -> SUBSET (0..7)]
  BY PinsAssumption DEF BInv, RegistersOK
<1>2. ASSUME NEW q \in Pins PROVE IsSet(ddr', q) <=> IF q = p THEN on ELSE IsSet(ddr, q)
  <2>1. q \in 0..19
    BY PinsAssumption
  <2> QED
    BY <1>1, <2>1, AssignSets
<1>3. modes' = [q \in Pins |-> IF IsSet(ddr', q) THEN "output" ELSE "input"]
  BY DEF modes, IsSet
<1> QED
  BY <1>2, <1>3 DEF modes

\* The same for the levels, outside the two stores of pinMode.
LEMMA AssignLevel ==
  ASSUME BInv, NEW p \in Pins, NEW on \in BOOLEAN, out' = Assign(out, p, on),
         pc = "mode latch" => pin = p /\ (arg = INPUT_PULLUP <=> on), pc' # "mode latch"
  PROVE  levels' = [levels EXCEPT ![p] = IF on THEN HIGH ELSE LOW]
<1>1. p \in 0..19 /\ out \in [{"B", "C", "D"} -> SUBSET (0..7)]
  BY PinsAssumption DEF BInv, RegistersOK
<1>2. ASSUME NEW q \in Pins PROVE IsSet(out', q) <=> IF q = p THEN on ELSE IsSet(out, q)
  <2>1. q \in 0..19
    BY PinsAssumption
  <2> QED
    BY <1>1, <2>1, AssignSets
<1>3. levels' = [q \in Pins |-> IF IsSet(out', q) THEN HIGH ELSE LOW]
  BY DEF levels, LevelOf, IsSet
<1>4. levels' = [q \in Pins |-> IF q = p THEN IF on THEN HIGH ELSE LOW ELSE levels[q]]
  BY <1>2, <1>3 DEF levels, LevelOf
<1> QED
  BY <1>4 DEF levels

LEMMA WaveChanged ==
  ASSUME NEW p \in Wired, NEW on \in BOOLEAN,
         com' = IF on THEN com \cup {Timers[p]} ELSE com \ {Timers[p]}
  PROVE  waves' = [waves EXCEPT ![p] = on]
<1>1. ASSUME NEW q \in Wired
      PROVE  (Timers[q] \in com') = IF q = p THEN on ELSE (Timers[q] \in com)
  <2>1. CASE q = p
    BY <2>1
  <2>2. CASE q # p
    <3>1. Timers[q] # Timers[p]
      BY <2>2, OwnTimer DEF Wired
    <3> QED
      BY <2>2, <3>1
  <2> QED
    BY <2>1, <2>2
<1>2. waves' = [q \in Wired |-> Timers[q] \in com']
  BY DEF waves
<1> QED
  BY <1>1, <1>2 DEF waves

LEMMA PinsStutter ==
  ASSUME UNCHANGED <<ddr, out, com, ocr, value>>,
         \/ pc # "mode latch" /\ pc' # "mode latch"
         \/ UNCHANGED <<pc, pin, arg>>
  PROVE  UNCHANGED EachPin!pinVars
  BY PinsKept DEF EachPin!pinVars

LEMMA SerialKeepsPins == Serial(Next) => UNCHANGED EachPin!pinVars
<1> SUFFICES ASSUME Serial(Next) PROVE UNCHANGED EachPin!pinVars
  OBVIOUS
<1>1. UNCHANGED <<ddr, out, com, ocr, value, pin, arg>>
  BY DEF Serial, wiringVars, pinVars, call
<1>2. (UNCHANGED pc) \/ (pc \in Places /\ pc' \in Places)
  BY SerialMoves DEF Serial
<1> QED
  BY <1>1, <1>2, PinsStutter DEF Places

LEMMA CallsKeepPins == WiringCalls => UNCHANGED EachPin!pinVars
<1> SUFFICES ASSUME WiringCalls PROVE UNCHANGED EachPin!pinVars
  OBVIOUS
<1>1. UNCHANGED <<ddr, out, com, ocr, value>>
  BY DEF WiringCalls, PinMode, DigitalWrite, AnalogWrite, DigitalRead, AnalogRead,
         AnalogReference, Begin, pinVars
<1>2. pc = "program" /\ pc' # "mode latch"
  BY DEF WiringCalls, PinMode, DigitalWrite, AnalogWrite, DigitalRead, AnalogRead,
         AnalogReference, Begin, Go, WritePlace
<1> QED
  BY <1>1, <1>2, PinsStutter

LEMMA DirectionStep == BInv /\ ModeDirection => EachPin!Next
<1> SUFFICES ASSUME BInv, ModeDirection PROVE EachPin!Next
  OBVIOUS
<1>1. /\ pc = "mode direction" /\ pc' = IF arg = OUTPUT THEN "restore" ELSE "mode latch"
      /\ ddr' = Assign(ddr, pin, arg = OUTPUT)
      /\ UNCHANGED <<out, com, ocr, value, pin, arg>>
  BY DEF ModeDirection, Go, call
<1>2. pin \in Pins
  BY <1>1, OnBoard DEF PinPlaces
<1>3. modes' = [modes EXCEPT ![pin] = IF arg = OUTPUT THEN "output" ELSE "input"]
  BY <1>1, <1>2, AssignMode
<1>4. UNCHANGED <<waves, duties, value>>
  BY <1>1, PinsKept
<1>5. CASE arg = OUTPUT
  <2>1. UNCHANGED levels
    BY <1>1, <1>5, PinsKept
  <2> QED
    BY <1>2, <1>3, <1>4, <1>5, <2>1, PinDriven
<1>6. CASE arg # OUTPUT
  <2> DEFINE pull == IF arg = INPUT_PULLUP THEN HIGH ELSE LOW
  <2>1. \A p \in Pins : LevelOf(p)' = IF p = pin THEN pull ELSE LevelOf(p)
    BY <1>1, <1>6 DEF LevelOf, IsSet
  <2>2. levels' = [p \in Pins |-> LevelOf(p)']
    BY DEF levels
  <2>3. levels' = [levels EXCEPT ![pin] = pull]
    BY <2>1, <2>2 DEF levels
  <2>4. pull \in {0, 1}
    BY DEF HIGH, LOW
  <2> HIDE DEF pull
  <2> QED
    BY <1>2, <1>3, <1>4, <1>6, <2>3, <2>4, PinListens
<1> QED
  BY <1>5, <1>6

\* The store to the latch of an input has been counted with that of its direction.
LEMMA PullupStep == BInv /\ ModeLatch => UNCHANGED EachPin!pinVars
<1> SUFFICES ASSUME BInv, ModeLatch PROVE UNCHANGED EachPin!pinVars
  OBVIOUS
<1> DEFINE on == arg = INPUT_PULLUP
<1>1. /\ pc = "mode latch" /\ pc' = "restore" /\ out' = Assign(out, pin, on) /\ on \in BOOLEAN
      /\ UNCHANGED <<ddr, com, ocr, value>>
  BY DEF ModeLatch, Go
<1>2. pin \in Pins
  BY <1>1, OnBoard DEF PinPlaces
<1>3. levels' = [levels EXCEPT ![pin] = IF on THEN HIGH ELSE LOW]
  BY <1>1, <1>2, AssignLevel
<1>4. levels[pin] = IF on THEN HIGH ELSE LOW
  BY <1>1, <1>2 DEF levels, LevelOf
<1>5. UNCHANGED levels
  BY <1>2, <1>3, <1>4 DEF levels
<1> QED
  BY <1>1, <1>5, PinsKept DEF EachPin!pinVars

LEMMA QuietPin ==
  ASSUME Quiet(pin), pin \in Pins
  PROVE  pin \in Wired => ~waves[pin]
  BY DEF Quiet, OnTimer, Wired, waves

LEMMA LatchStep == BInv /\ PinHolds /\ WriteLatch => EachPin!Next
<1> SUFFICES ASSUME BInv, PinHolds, WriteLatch PROVE EachPin!Next
  OBVIOUS
<1> DEFINE on == arg # LOW
<1>1. /\ pc = "write latch" /\ pc' = "restore" /\ out' = Assign(out, pin, on) /\ on \in BOOLEAN
      /\ UNCHANGED <<ddr, com, ocr, value>>
  BY DEF WriteLatch, Go
<1> HIDE DEF on
<1>2. pin \in Pins
  BY <1>1, OnBoard DEF PinPlaces
<1>3. levels' = [levels EXCEPT ![pin] = IF on THEN HIGH ELSE LOW]
  BY <1>1, <1>2, AssignLevel
<1>4. pin \in Wired => ~waves[pin]
  BY <1>1, <1>2, QuietPin DEF PinHolds
<1>5. UNCHANGED <<modes, waves, duties, value>>
  BY <1>1, PinsKept
<1>6. HIGH \in {0, 1} /\ LOW \in {0, 1}
  BY DEF HIGH, LOW
<1> QED
  BY <1>2, <1>3, <1>4, <1>5, <1>6, PinSet

LEMMA ReadStep == BInv /\ PinHolds /\ ReadLevel => EachPin!Next
<1> SUFFICES ASSUME BInv, PinHolds, ReadLevel PROVE EachPin!Next
  OBVIOUS
<1>1. /\ pc = "read level" /\ pc' = "program" /\ value' \in {LOW, HIGH}
      /\ IsSet(ddr, pin) => (value' = HIGH <=> IsSet(out, pin))
      /\ UNCHANGED <<ddr, out, com, ocr>>
  BY DEF ReadLevel, Go, pinVars
<1>2. pin \in Pins
  BY <1>1, OnBoard DEF PinPlaces
<1>3. pin \in Wired => ~waves[pin]
  BY <1>1, <1>2, QuietPin DEF PinHolds
<1>4. modes[pin] = "output" => value' = levels[pin]
  BY <1>1, <1>2 DEF modes, levels, LevelOf, HIGH, LOW
<1>5. UNCHANGED <<modes, levels, waves, duties>>
  BY <1>1, PinsKept
<1>6. value' \in {0, 1}
  BY <1>1 DEF HIGH, LOW
<1> QED
  BY <1>2, <1>3, <1>4, <1>5, <1>6, PinRead

LEMMA PwmStep == BInv /\ (WritePwm \/ ReadPwm) => EachPin!Next
<1> SUFFICES ASSUME BInv, WritePwm \/ ReadPwm PROVE EachPin!Next
  OBVIOUS
<1>1. /\ pc \in {"write pwm", "read pwm"} /\ pc' # "mode latch"
      /\ com' = com \ {Timers[pin]}
      /\ UNCHANGED <<ddr, out, ocr, value>>
  BY DEF WritePwm, ReadPwm, TurnOffPWM, Go
<1>2. pin \in Wired
  BY <1>1, OnBoard DEF PinPlaces, BInv, CallHolds, OnTimer, Wired
<1>3. waves' = [waves EXCEPT ![pin] = FALSE]
  BY <1>1, <1>2, WaveChanged
<1>4. UNCHANGED <<modes, levels, duties, value>>
  BY <1>1, PinsKept
<1> QED
  BY <1>2, <1>3, <1>4, PinDisconnected

LEMMA ConnectStep == BInv /\ PinHolds /\ AnalogConnect => EachPin!Next
<1> SUFFICES ASSUME BInv, PinHolds, AnalogConnect PROVE EachPin!Next
  OBVIOUS
<1>1. /\ pc = "analog" /\ pc' = "analog duty" /\ OnTimer(pin)
      /\ com' = com \cup {Timers[pin]}
      /\ UNCHANGED <<ddr, out, ocr, value>>
  BY DEF AnalogConnect, Go
<1>2. pin \in Wired
  BY <1>1, OnBoard DEF PinPlaces, OnTimer, Wired
<1>3. waves' = [waves EXCEPT ![pin] = TRUE]
  BY <1>1, <1>2, WaveChanged
<1>4. modes[pin] = "output"
  BY <1>1, <1>2 DEF PinHolds, modes, Wired
<1>5. UNCHANGED <<modes, levels, duties, value>>
  BY <1>1, PinsKept
<1> QED
  BY <1>2, <1>3, <1>4, <1>5, PinConnected

LEMMA DutyStep == BInv /\ PinHolds /\ AnalogDuty => EachPin!Next
<1> SUFFICES ASSUME BInv, PinHolds, AnalogDuty PROVE EachPin!Next
  OBVIOUS
<1> DEFINE c == Timers[pin]
           d == val % Width(c)
<1>1. /\ pc = "analog duty" /\ pc' = "program" /\ ocr' = [ocr EXCEPT ![c] = d]
      /\ UNCHANGED <<ddr, out, com, value>>
  BY DEF AnalogDuty, Go
<1>2. pin \in Wired /\ pin \in Pins
  BY <1>1, OnBoard DEF PinPlaces, BInv, CallHolds, OnTimer, Wired
<1>3. waves[pin]
  BY <1>1, <1>2 DEF PinHolds, waves
<1>4. d \in Duties(pin)
  <2>1. val \in Values \cup {0}
    BY DEF BInv, ControlOK
  <2>2. val \in Nat
    BY <2>1, ValuesAssumption
  <2>3. Width(c) \in Nat
    BY DEF Width
  <2>4. d \in Nat /\ d < Width(c)
    BY <2>2, DutyFits
  <2> HIDE DEF d
  <2> QED
    BY <2>3, <2>4 DEF Duties
<1>5. c \in Channels /\ ocr \in [Channels -> Nat]
  BY <1>2, OwnChannel DEF BInv, RegistersOK, Wired, OnTimer
<1> HIDE DEF d
<1>6. ASSUME NEW q \in Wired PROVE ocr'[Timers[q]] = IF q = pin THEN d ELSE ocr[Timers[q]]
  <2>1. Timers[q] \in Channels
    BY OwnChannel DEF Wired, OnTimer
  <2>2. q # pin => Timers[q] # Timers[pin]
    BY <1>2, OwnTimer DEF Wired
  <2> QED
    BY <1>1, <1>5, <2>1, <2>2
<1>7. duties' = [q \in Wired |-> ocr'[Timers[q]]]
  BY DEF duties
<1>8. duties' = [duties EXCEPT ![pin] = d] /\ duties'[pin] = d
  BY <1>2, <1>6, <1>7 DEF duties
<1>9. UNCHANGED <<modes, levels, waves, value>>
  BY <1>1, PinsKept
<1> QED
  BY <1>2, <1>3, <1>4, <1>8, <1>9, PinDuty

LEMMA OthersKeepPins ==
  /\ BInv
  /\ \/ ModeSave \/ WriteSave \/ Restore \/ AnalogLevel
     \/ AdcMux \/ AdcStart \/ AdcWait \/ Converter
  => UNCHANGED EachPin!pinVars
<1>1. ASSUME ModeSave \/ WriteSave \/ AdcMux \/ AdcStart \/ AdcWait
      PROVE  UNCHANGED EachPin!pinVars
  BY <1>1, PinsStutter DEF ModeSave, WriteSave, Save, AdcMux, AdcStart, AdcWait, Go, pinVars
<1>2. ASSUME Restore, BInv PROVE UNCHANGED EachPin!pinVars
  BY <1>2, PinsStutter DEF Restore, Go, pinVars, BInv, ControlOK
<1>3. ASSUME AnalogLevel PROVE UNCHANGED EachPin!pinVars
  BY <1>3, PinsStutter DEF AnalogLevel, WritePlace, pinVars
<1>4. ASSUME Converter PROVE UNCHANGED EachPin!pinVars
  BY <1>4, PinsStutter DEF Converter, vars, pinVars, call
<1> QED
  BY <1>1, <1>2, <1>3, <1>4

LEMMA BoardMapsToPins ==
  BInv /\ PinHolds /\ [BoardNext]_boardVars => [EachPin!Next]_EachPin!pinVars
<1> SUFFICES ASSUME BInv, PinHolds, [BoardNext]_boardVars
             PROVE  [EachPin!Next]_EachPin!pinVars
  OBVIOUS
<1>1. CASE Serial(Next) \/ WiringCalls
  BY <1>1, SerialKeepsPins, CallsKeepPins
<1>2. CASE UNCHANGED boardVars
  BY <1>2, PinsStutter DEF boardVars, vars, wiringVars, pinVars, call
<1>3. CASE InWiring \/ Converter
  BY <1>3, DirectionStep, PullupStep, LatchStep, ReadStep, PwmStep, ConnectStep, DutyStep,
     OthersKeepPins DEF InWiring
<1> QED
  BY <1>1, <1>2, <1>3 DEF BoardNext

LEMMA BoardStartsAsPins == BoardInit => EachPin!Init
<1> SUFFICES ASSUME BoardInit PROVE EachPin!Init
  OBVIOUS
<1>1. \A p \in Pins : ~IsSet(ddr, p) /\ ~IsSet(out, p)
  BY PinTables, PinsAssumption DEF BoardInit, IsSet
<1>2. pc = "init" /\ com = {} /\ value = 0
  BY DEF BoardInit, Init
<1>3. \A p \in Wired : ocr[Timers[p]] = 0
  BY OwnChannel DEF BoardInit, Wired, OnTimer
<1>4. \A p \in Pins : LevelOf(p) = 0
  BY <1>1, <1>2 DEF LevelOf, LOW
<1>5. modes = [p \in Pins |-> "input"] /\ levels = [p \in Pins |-> 0]
  BY <1>1, <1>4 DEF modes, levels
<1>6. waves = [p \in Wired |-> FALSE]
  <2>1. \A p \in Wired : (Timers[p] \in com) = FALSE
    BY <1>2
  <2> QED
    BY <2>1 DEF waves
<1>7. duties = [p \in Wired |-> 0]
  BY <1>3 DEF duties
<1> QED
  BY <1>2, <1>5, <1>6, <1>7 DEF EachPin!Init, EachPin!LOW

\* pinMode, digitalWrite, digitalRead and analogWrite: the ports, masks and timers of
\* the tables give every pin a mode, a level, a wave and a duty of its own.  A pin is
\* written and read without its wave, and a wave starts on an output only.
THEOREM WiringImplementsPins == BoardSpec => ImplementsPins
<1>1. BoardInit => PinHolds /\ EachPin!Init
  BY InitPinHolds, BoardStartsAsPins
<1>2. BInv /\ PinHolds /\ [BoardNext]_boardVars => PinHolds'
  BY BoardPinHolds
<1>3. BInv /\ PinHolds /\ [BoardNext]_boardVars => [EachPin!Next]_EachPin!pinVars
  BY BoardMapsToPins
<1> QED
  BY <1>1, <1>2, <1>3, BoardAlways, PTL DEF BoardSpec, ImplementsPins, EachPin!Spec

(***************************************************************************)
(* The serial port on the board.                                           *)
(***************************************************************************)
\* A step of a pin function changes nothing the port uses.
LEMMA PortPauses ==
  ASSUME UNCHANGED <<serialVars, portPc, portInterrupts>>
  PROVE  UNCHANGED Alone!vars
  BY DEF Alone!vars, serialVars, hardware, tx, rx, result

\* Between the calls of pin functions the port sees the board as it is.
LEMMA PortSees ==
  ASSUME BInv, BInv', pc \in Places, pc' \in Places
  PROVE  portPc = pc /\ portPc' = pc' /\ portInterrupts = interrupts /\ portInterrupts' = interrupts'
<1>1. pc \notin WiringPlaces /\ pc' \notin WiringPlaces
  BY DEF Places, WiringPlaces
<1>2. interrupts \in BOOLEAN /\ interrupts' \in BOOLEAN
  BY DEF BInv, ControlOK
<1>3. portPc = pc /\ portPc' = pc'
  BY <1>1 DEF portPc
<1>4. portInterrupts = interrupts
  BY <1>1, <1>2 DEF portInterrupts
<1>5. portInterrupts' = interrupts'
  BY <1>1, <1>2 DEF portInterrupts
<1> QED
  BY <1>3, <1>4, <1>5

LEMMA ProgramSteps ==
  ASSUME Boot \/ Calls \/ InCall \/ Exit,
         portPc = pc, portPc' = pc', portInterrupts = interrupts, portInterrupts' = interrupts'
  PROVE  Alone!Next
<1> USE DEF Go, Alone!Go, hardware, tx, rx, result, Alone!hardware, Alone!tx, Alone!rx, Alone!result
<1>1. CASE Boot
  <2>1. Alone!Boot
    BY <1>1 DEF Boot, InitIndices, InitControl, Sei,
                Alone!Boot, Alone!InitIndices, Alone!InitControl, Alone!Sei
  <2> QED
    BY <2>1 DEF Alone!Next
<1>2. CASE Exit
  <2>1. Alone!Exit
    BY <1>2 DEF Exit, Alone!Exit
  <2> QED
    BY <2>1 DEF Alone!Next
<1>3. CASE Calls
  <2>1. ASSUME NEW n \in 1..Len(ToPut), Puts(n) PROVE Alone!Puts(n)
    BY <2>1 DEF Puts, Alone!Puts
  <2>2. ASSUME GetcTest \/ PeekTest PROVE Alone!GetcTest \/ Alone!PeekTest
    BY <2>2 DEF GetcTest, PeekTest, Empty, NO_DATA,
                Alone!GetcTest, Alone!PeekTest, Alone!Empty, Alone!NO_DATA
  <2>3. ASSUME Available \/ Flush PROVE Alone!Available \/ Alone!Flush
    BY <2>3 DEF Available, Flush, Count, Alone!Available, Alone!Flush, Alone!Count
  <2>4. Alone!Calls
    BY <1>3, <2>1, <2>2, <2>3 DEF Calls, Alone!Calls
  <2> QED
    BY <2>4 DEF Alone!Next
<1>4. CASE InCall
  <2> USE DEF After, Alone!After
  <2>1. ASSUME PutcHead \/ PutcWait \/ PutcStore PROVE Alone!InCall
    BY <2>1 DEF PutcHead, PutcWait, PutcStore,
                Alone!PutcHead, Alone!PutcWait, Alone!PutcStore, Alone!InCall
  <2>2. ASSUME PutcAdvance \/ PutcReadControl \/ PutcEnable PROVE Alone!InCall
    BY <2>2 DEF PutcAdvance, PutcReadControl, PutcEnable,
                Alone!PutcAdvance, Alone!PutcReadControl, Alone!PutcEnable, Alone!InCall
  <2>3. ASSUME GetcTail \/ GetcData \/ PeekData \/ ReadStatus PROVE Alone!InCall
    BY <2>3 DEF GetcTail, GetcData, PeekData, ReadStatus,
                Alone!GetcTail, Alone!GetcData, Alone!PeekData, Alone!ReadStatus, Alone!InCall
  <2>4. Alone!InCall
    BY <1>4, <2>1, <2>2, <2>3 DEF InCall
  <2> QED
    BY <2>4 DEF Alone!Next
<1> QED
  BY <1>1, <1>2, <1>3, <1>4

\* A handler or the hardware may come in the middle of a pin function.
LEMMA HandlerSteps ==
  ASSUME ReceiveInterrupt \/ TransmitInterrupt \/ Shift \/ Arrive,
         interrupts => portInterrupts, UNCHANGED <<portPc, portInterrupts>>
  PROVE  Alone!Next
<1> USE DEF tx, rx, result, Alone!tx, Alone!rx, Alone!result, After, Alone!After,
            RxPending, Alone!RxPending
<1>1. CASE ReceiveInterrupt
  <2>1. Alone!ReceiveInterrupt
    BY <1>1 DEF ReceiveInterrupt, Alone!ReceiveInterrupt, BUFFER_OVERFLOW, Alone!BUFFER_OVERFLOW
  <2> QED
    BY <2>1 DEF Alone!Next
<1>2. CASE TransmitInterrupt
  <2>1. Alone!TransmitInterrupt
    BY <1>2 DEF TransmitInterrupt, Alone!TransmitInterrupt, NoByte, Alone!NoByte
  <2> QED
    BY <2>1 DEF Alone!Next
<1>3. CASE Shift
  <2>1. Alone!Shift
    BY <1>3 DEF Shift, Alone!Shift, NoByte, Alone!NoByte
  <2> QED
    BY <2>1 DEF Alone!Next
<1>4. CASE Arrive
  <2>1. Alone!Arrive
    BY <1>4 DEF Arrive, Alone!Arrive, Latch, Alone!Latch, FE0, DOR0, Alone!FE0, Alone!DOR0
  <2> QED
    BY <2>1 DEF Alone!Next
<1> QED
  BY <1>1, <1>2, <1>3, <1>4

LEMMA ProgramMoves ==
  Boot \/ Calls \/ InCall \/ Exit => pc \in Places /\ pc' \in Places
<1> USE DEF Go, Places
<1>1. CASE Boot \/ Exit
  BY <1>1 DEF Boot, InitIndices, InitControl, Sei, Exit
<1>2. CASE Calls
  BY <1>2 DEF Calls, Puts, GetcTest, PeekTest, Available, Flush
<1>3. CASE InCall
  BY <1>3 DEF InCall, PutcHead, PutcWait, PutcStore, PutcAdvance, PutcReadControl, PutcEnable,
              GetcTail, GetcData, PeekData, ReadStatus
<1> QED
  BY <1>1, <1>2, <1>3

LEMMA SerialStepsAlone == BInv /\ BInv' /\ Serial(Next) => Alone!Next
<1> SUFFICES ASSUME BInv, BInv', Serial(Next) PROVE Alone!Next
  OBVIOUS
<1>1. CASE Boot \/ Calls \/ InCall \/ Exit
  BY <1>1, ProgramMoves, PortSees, ProgramSteps
<1>2. CASE ReceiveInterrupt \/ TransmitInterrupt \/ Shift \/ Arrive
  <2>1. UNCHANGED <<pc, interrupts>>
    BY <1>2 DEF ReceiveInterrupt, TransmitInterrupt, Shift, Arrive
  <2>2. UNCHANGED portPc
    BY <2>1 DEF portPc
  <2>3. UNCHANGED portInterrupts
    BY <2>1 DEF portInterrupts
  <2>4. interrupts => portInterrupts
    BY DEF portInterrupts
  <2> QED
    BY <1>2, <2>2, <2>3, <2>4, HandlerSteps
<1> QED
  BY <1>1, <1>2 DEF Serial, Next

\* The interrupts are on when a pin function begins and when it ends.
LEMMA PinFunctionsPause ==
  BInv /\ BInv' /\ (WiringCalls \/ InWiring \/ Converter) => UNCHANGED <<portPc, portInterrupts>>
<1> SUFFICES ASSUME BInv, BInv', WiringCalls \/ InWiring \/ Converter
             PROVE  UNCHANGED portPc /\ UNCHANGED portInterrupts
  OBVIOUS
<1>1. CASE Converter
  BY <1>1 DEF Converter, vars, portPc, portInterrupts
<1>2. CASE WiringCalls \/ InWiring
  <2>1. pc \in WiringPlaces \cup {"program"} /\ pc' \in WiringPlaces \cup {"program"}
    BY <1>2 DEF WiringCalls, PinMode, DigitalWrite, AnalogWrite, DigitalRead, AnalogRead,
       AnalogReference, Begin, Go, WritePlace, WiringPlaces, BInv, ControlOK,
       InWiring, ModeSave, ModeDirection, ModeLatch, Restore, WritePwm, WriteSave, WriteLatch,
       ReadPwm, ReadLevel, AnalogLevel, AnalogConnect, AnalogDuty, AdcMux, AdcStart, AdcWait,
       Save, TurnOffPWM
  <2>2. portPc = "program" /\ portPc' = "program"
    BY <2>1 DEF portPc, WiringPlaces
  <2>3. portInterrupts = TRUE
    <3>1. pc = "program" => interrupts = TRUE
      BY DEF BInv, InterruptsRestored, ControlOK
    <3> QED
      BY <2>1, <3>1 DEF portInterrupts
  <2>4. portInterrupts' = TRUE
    <3>1. pc' = "program" => interrupts' = TRUE
      BY DEF BInv, InterruptsRestored, ControlOK
    <3> QED
      BY <2>1, <3>1 DEF portInterrupts
  <2> QED
    BY <2>2, <2>3, <2>4
<1> QED
  BY <1>1, <1>2

LEMMA BoardMapsToPort ==
  BInv /\ BInv' /\ [BoardNext]_boardVars => [Alone!Next]_Alone!vars
<1> SUFFICES ASSUME BInv, BInv', [BoardNext]_boardVars PROVE [Alone!Next]_Alone!vars
  OBVIOUS
<1>1. CASE Serial(Next)
  BY <1>1, SerialStepsAlone
<1>2. CASE WiringCalls \/ InWiring \/ Converter
  <2>1. UNCHANGED <<serialVars>>
    BY <1>2 DEF WiringCalls, PinMode, DigitalWrite, AnalogWrite, DigitalRead, AnalogRead,
       AnalogReference, Begin,
       InWiring, ModeSave, ModeDirection, ModeLatch, Restore, WritePwm, WriteSave, WriteLatch,
       ReadPwm, ReadLevel, AnalogLevel, AnalogConnect, AnalogDuty, AdcMux, AdcStart, AdcWait,
       Save, TurnOffPWM, Converter, vars, serialVars, hardware, tx, rx, result
  <2> QED
    BY <1>2, <2>1, PinFunctionsPause, PortPauses
<1>3. CASE UNCHANGED boardVars
  <2>1. UNCHANGED portPc
    BY <1>3 DEF boardVars, vars, portPc
  <2>2. UNCHANGED portInterrupts
    BY <1>3 DEF boardVars, vars, portInterrupts
  <2>3. UNCHANGED serialVars
    BY <1>3 DEF boardVars, vars, serialVars, hardware, tx, rx, result
  <2> QED
    BY <2>1, <2>2, <2>3, PortPauses
<1> QED
  BY <1>1, <1>2, <1>3 DEF BoardNext

LEMMA BoardStartsAlone == BoardInit => Alone!Init
<1> SUFFICES ASSUME BoardInit PROVE Alone!Init
  OBVIOUS
<1>1. portPc = "init"
  BY DEF BoardInit, Init, portPc, WiringPlaces
<1>2. portInterrupts = FALSE
  BY DEF BoardInit, Init, portInterrupts, WiringPlaces
<1> QED
  BY <1>1, <1>2 DEF BoardInit, Init, Alone!Init, NoByte, Alone!NoByte

\* The pin functions run with the serial port in use: what uart.c does on the board is
\* what it does under a program that calls nothing else, for any pins, buffers and
\* programs.  pinMode and digitalWrite give the interrupts back as they took them.
THEOREM SerialPortUndisturbed == BoardSpec => KeepsSerialPort
<1>1. BoardInit => Alone!Init
  BY BoardStartsAlone
<1>2. BInv /\ BInv' /\ [BoardNext]_boardVars => [Alone!Next]_Alone!vars
  BY BoardMapsToPort
<1> QED
  BY <1>1, <1>2, BoardAlways, PTL DEF BoardSpec, KeepsSerialPort

(***************************************************************************)
(* What is proved of the port alone is then true on the board.             *)
(***************************************************************************)
Proved == INSTANCE Uart_proofs WITH pc <- portPc, interrupts <- portInterrupts

LEMMA SameFrames == Proved!Frame = Frame
  BY DEF Frame, Errors, FE0, DOR0, Proved!Frame, Proved!Errors, Proved!FE0, Proved!DOR0

\* The two instances of Uart are one specification.
LEMMA SamePort ==
  /\ Alone!Init => Proved!Init
  /\ [Alone!Next]_Alone!vars => [Proved!Next]_Proved!vars
<1>1. Alone!Init => Proved!Init
  BY DEF Alone!Init, Proved!Init, Alone!NoByte, Proved!NoByte
<1>2. Alone!Next => Proved!Next
  BY DEF Alone!Next, Alone!Boot, Alone!Calls, Alone!InCall, Alone!Go, Alone!hardware,
         Alone!tx, Alone!rx, Alone!result, Alone!After, Alone!Count, Alone!Empty,
         Alone!RxPending, Alone!NoByte, Alone!FE0, Alone!DOR0, Alone!Latch,
         Alone!BUFFER_OVERFLOW, Alone!NO_DATA, Alone!InitIndices, Alone!InitControl,
         Alone!Sei, Alone!Puts, Alone!GetcTest, Alone!PeekTest, Alone!Available, Alone!Flush,
         Alone!PutcHead, Alone!PutcWait, Alone!PutcStore, Alone!PutcAdvance,
         Alone!PutcReadControl, Alone!PutcEnable, Alone!GetcTail, Alone!GetcData,
         Alone!PeekData, Alone!ReadStatus, Alone!Exit, Alone!ReceiveInterrupt,
         Alone!TransmitInterrupt, Alone!Shift, Alone!Arrive, Proved!Next, Proved!Boot,
         Proved!Calls, Proved!InCall, Proved!Go, Proved!hardware, Proved!tx, Proved!rx,
         Proved!result, Proved!After, Proved!Count, Proved!Empty, Proved!RxPending,
         Proved!NoByte, Proved!FE0, Proved!DOR0, Proved!Latch, Proved!BUFFER_OVERFLOW,
         Proved!NO_DATA, Proved!InitIndices, Proved!InitControl, Proved!Sei, Proved!Puts,
         Proved!GetcTest, Proved!PeekTest, Proved!Available, Proved!Flush, Proved!PutcHead,
         Proved!PutcWait, Proved!PutcStore, Proved!PutcAdvance, Proved!PutcReadControl,
         Proved!PutcEnable, Proved!GetcTail, Proved!GetcData, Proved!PeekData,
         Proved!ReadStatus, Proved!Exit, Proved!ReceiveInterrupt, Proved!TransmitInterrupt,
         Proved!Shift, Proved!Arrive
<1>3. UNCHANGED Alone!vars => UNCHANGED Proved!vars
  BY DEF Alone!vars, Proved!vars
<1> QED
  BY <1>1, <1>2, <1>3

LEMMA PortInvariant ==
  /\ Proved!Init => Proved!IInv
  /\ Proved!IInv /\ [Proved!Next]_Proved!vars => Proved!IInv'
  BY Proved!InitInductive, Proved!StepInductive, SameFrames,
     SizesAssumption, ByteAssumption, WorkAssumption

LEMMA PortInvariantHere == Proved!IInv => HandlersArmed /\ AvailableKept
<1> SUFFICES ASSUME Proved!IInv PROVE HandlersArmed /\ AvailableKept
  OBVIOUS
<1>1. Proved!HandlersArmed /\ Proved!AvailableKept
  BY DEF Proved!IInv
<1>2. HandlersArmed
  BY <1>1 DEF HandlersArmed, Proved!HandlersArmed, portPc, WiringPlaces
<1>3. AvailableKept
  BY <1>1 DEF AvailableKept, Proved!AvailableKept, Count, Proved!Count
<1> QED
  BY <1>2, <1>3

\* While the program is in a pin function, too, a handler that has work is enabled,
\* or the putc that gave it the work is about to enable it, and no byte available()
\* has counted is lost.
THEOREM PortSafeOnBoard == BoardSpec => [](HandlersArmed /\ AvailableKept)
<1>1. BoardSpec => Alone!Init /\ [][Alone!Next]_Alone!vars
  BY SerialPortUndisturbed DEF KeepsSerialPort
<1> QED
  BY <1>1, SamePort, PortInvariant, PortInvariantHere, PTL
===============================================================================
