--------------------------------- MODULE Pins ---------------------------------
(***************************************************************************)
(* What the pin functions of the board promise a compiled program: each    *)
(* pin has a mode, a level and a wave of its own.  There are no ports,     *)
(* masks, timers or interrupts at this level, and no call for one pin      *)
(* touches another.                                                        *)
(***************************************************************************)
EXTENDS Integers

CONSTANTS Pin,
          WavePin,     \* the pins with a wave generator
          Duty(_)      \* the duties each of them can have

VARIABLES mode, level, wave, duty,
          seen         \* what the program last read from a pin

pinVars == <<mode, level, wave, duty, seen>>

LOW == 0
HIGH == 1

Init ==
  /\ mode = [p \in Pin |-> "input"] /\ level = [p \in Pin |-> LOW]
  /\ wave = [p \in WavePin |-> FALSE] /\ duty = [p \in WavePin |-> 0]
  /\ seen = LOW

NoWave(p) == p \in WavePin => ~wave[p]

\* The level of an input is its pull-up.
Listen(p, pull) ==
  /\ mode' = [mode EXCEPT ![p] = "input"] /\ level' = [level EXCEPT ![p] = pull]
  /\ UNCHANGED <<wave, duty, seen>>

Drive(p) ==
  /\ mode' = [mode EXCEPT ![p] = "output"]
  /\ UNCHANGED <<level, wave, duty, seen>>

\* A pin is written and read without its wave.
Set(p, value) ==
  /\ NoWave(p) /\ level' = [level EXCEPT ![p] = value]
  /\ UNCHANGED <<mode, wave, duty, seen>>

Read(p, value) ==
  /\ NoWave(p) /\ (mode[p] = "output" => value = level[p])
  /\ seen' = value
  /\ UNCHANGED <<mode, level, wave, duty>>

\* A wave starts on an output only, with the duty of the last one.
Disconnect(p) ==
  /\ wave' = [wave EXCEPT ![p] = FALSE]
  /\ UNCHANGED <<mode, level, duty, seen>>

Connect(p) ==
  /\ mode[p] = "output" /\ wave' = [wave EXCEPT ![p] = TRUE]
  /\ UNCHANGED <<mode, level, duty, seen>>

SetDuty(p) ==
  /\ wave[p]
  /\ duty'[p] \in Duty(p) /\ duty' = [duty EXCEPT ![p] = duty'[p]]
  /\ UNCHANGED <<mode, level, wave, seen>>

Next ==
  \/ \E p \in Pin : Drive(p) \/ \E v \in {LOW, HIGH} : Listen(p, v) \/ Set(p, v) \/ Read(p, v)
  \/ \E p \in WavePin : Disconnect(p) \/ Connect(p) \/ SetDuty(p)

Spec == Init /\ [][Next]_pinVars
===============================================================================
