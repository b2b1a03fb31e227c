------------------------------- MODULE Sketches ------------------------------
(****************************************************************************)
(* Sketches of pins: verilog/dv/arduino_line_follower, arduino_switchCase2, *)
(* arduino_digital_port_control and arduino_arrays.  A pass of loop() is a  *)
(* list of statements; pins are written one after another, while the        *)
(* sensors and the serial line go on.                                       *)
(****************************************************************************)
EXTENDS Image, Integers, Sequences

CONSTANTS
  Typed,     \* bound: characters that are typed
  Channels,  \* channels of the potentiometer, six
  Levels     \* steps of a wiper in the sketch, sixty-four

ASSUME SketchAssumption == Typed \in Nat /\ {Channels, Levels} \subseteq Nat \ {0}

VARIABLES
  statements,   \* left of this pass of loop()
  pin,          \* the level of each pin
  seen,         \* the sensors read in this pass
  steady,       \* history: passes begun since a sensor changed, two or more as two
  BuzzerValue,
  text, read,  \* all that was typed, and how much of it was read
  setting,      \* settings of the potentiometer done, in the pass
  shifted,      \* bytes the potentiometer has taken since it was selected
  wiper         \* its wipers, -1 before the first setting

sketchVars == <<image, statements, pin, seen, steady, BuzzerValue, text, read, setting, shifted, wiper>>

RIGHT_MOTOR_P == 9
RIGHT_MOTOR_N == 10
LEFT_MOTOR_N == 15
LEFT_MOTOR_P == 16
LEFT_SENSOR == 17
RIGHT_SENSOR == 14
BUZZER == 4
slaveSelectPin == 10
PinNumbers == 2..17
Sensors == <<LEFT_SENSOR, RIGHT_SENSOR>>

LOW == 0
HIGH == 1

SketchInit ==
  /\ statements = <<>> /\ pin = [p \in PinNumbers |-> LOW]
  /\ seen = <<>> /\ steady = 0 /\ BuzzerValue = LOW
  /\ text = <<>> /\ read = 0
  /\ setting = 0 /\ shifted = <<>> /\ wiper = [c \in 0..Channels |-> -1]

digitalWrite(p, value) == [op |-> "write", pin |-> p, value |-> value]
Transfer(value) == [op |-> "transfer", pin |-> 0, value |-> value]
All(pins, value) == [k \in DOMAIN pins |-> digitalWrite(pins[k], value)]

------------------------------------------------------------------------------
(* The potentiometer takes the bytes while it is selected, and at the end   *)
(* sets the channel of the first to the second.                             *)
Selects(s) == s.pin = slaveSelectPin /\ s.value = LOW
Deselects(s) == s.pin = slaveSelectPin /\ s.value = HIGH /\ pin[slaveSelectPin] = LOW

Statement ==
  /\ statements # <<>>
  /\ statements' = Tail(statements)
  /\ LET s == Head(statements)
     IN  IF s.op = "transfer"
           THEN /\ shifted' = IF pin[slaveSelectPin] = LOW THEN Append(shifted, s.value) ELSE shifted
                /\ UNCHANGED <<pin, wiper>>
           ELSE /\ pin' = [pin EXCEPT ![s.pin] = IF s.value = 0 THEN LOW ELSE HIGH]
                /\ shifted' = IF Selects(s) THEN <<>> ELSE shifted
                /\ wiper' = IF Deselects(s) /\ Len(shifted) = 2
                              THEN [wiper EXCEPT ![shifted[1]] = shifted[2]] ELSE wiper
  /\ UNCHANGED <<seen, steady, BuzzerValue, text, read, setting>>

------------------------------------------------------------------------------
(* The line follower.                                                       *)
Motors == <<RIGHT_MOTOR_P, RIGHT_MOTOR_N, LEFT_MOTOR_N, LEFT_MOTOR_P>>

(* A turn that leaves the minus of the other wheel as it is.                *)
TurnLeavesMinus(left, right) ==
  IF left = LOW /\ right = LOW THEN All(Motors, HIGH)
  ELSE <<digitalWrite(RIGHT_MOTOR_P, left)>>
       \o (IF left = LOW THEN <<digitalWrite(RIGHT_MOTOR_N, LOW)>>
                         ELSE <<digitalWrite(LEFT_MOTOR_N, LOW)>>)
       \o <<digitalWrite(LEFT_MOTOR_P, right)>>

Turn(left, right) ==
  IF left = LOW /\ right = LOW THEN All(Motors, HIGH)
  ELSE <<digitalWrite(RIGHT_MOTOR_P, left), digitalWrite(RIGHT_MOTOR_N, LOW),
         digitalWrite(LEFT_MOTOR_N, LOW), digitalWrite(LEFT_MOTOR_P, right)>>

(* ~BuzzerValue of an int.                                                  *)
Buzzer(left, right) ==
  IF left = LOW /\ right = LOW THEN LOW
  ELSE IF left = HIGH /\ right = HIGH THEN -BuzzerValue - 1 ELSE HIGH

(* The sensors are read one after the other.                                *)
ReadSensor ==
  LET values == Append(seen, pin[Sensors[Len(seen) + 1]])
  IN  IF Len(values) < 2
        THEN seen' = values /\ UNCHANGED <<BuzzerValue, statements>>
        ELSE /\ seen' = <<>>
             /\ BuzzerValue' = Buzzer(values[1], values[2])
             /\ statements' = Append(Turn(values[1], values[2]), digitalWrite(BUZZER, BuzzerValue'))

FollowLine ==
  /\ Runs("follower") /\ statements = <<>>
  /\ ReadSensor
  /\ steady' = IF seen = <<>> /\ steady < 2 THEN steady + 1 ELSE steady
  /\ UNCHANGED <<pin, text, read, setting, shifted, wiper>>

SensorChanges ==
  /\ Runs("follower")
  /\ \E p \in {LEFT_SENSOR, RIGHT_SENSOR} : pin' = [pin EXCEPT ![p] = 1 - @]
  /\ steady' = 0
  /\ UNCHANGED <<statements, seen, BuzzerValue, text, read, setting, shifted, wiper>>

------------------------------------------------------------------------------
(* The switch of the serial line.                                           *)
LedPin == [a |-> 2, b |-> 3, c |-> 4, d |-> 5, e |-> 6]
Letters == DOMAIN LedPin
SwitchPins == <<2, 3, 4, 5, 6>>
Characters == Letters \cup {"x"}

(* A case that falls through into the next one.                             *)
CaseFallsThrough(inByte) ==
  IF inByte = "d" THEN All(<<5, 6>>, HIGH)
  ELSE IF inByte \in Letters THEN <<digitalWrite(LedPin[inByte], HIGH)>>
  ELSE All(SwitchPins, LOW)

Case(inByte) ==
  IF inByte \in Letters THEN <<digitalWrite(LedPin[inByte], HIGH)>>
  ELSE All(SwitchPins, LOW)

SwitchLeds ==
  /\ Runs("switch") /\ statements = <<>> /\ read < Len(text)
  /\ read' = read + 1
  /\ statements' = Case(text[read'])
  /\ UNCHANGED <<pin, seen, steady, BuzzerValue, text, setting, shifted, wiper>>

(* The line's buffer holds what the sketch has not read yet.                *)
Types ==
  /\ Runs("switch") /\ Len(text) < Typed
  /\ \E c \in Characters : text' = Append(text, c)
  /\ UNCHANGED <<statements, pin, seen, steady, BuzzerValue, read, setting, shifted, wiper>>

------------------------------------------------------------------------------
(* The potentiometer: each channel up and down again.                       *)

(* The value before the address.                                            *)
SettingSwapped(channel, level) ==
  <<digitalWrite(slaveSelectPin, LOW), Transfer(level), Transfer(channel),
    digitalWrite(slaveSelectPin, HIGH)>>

Setting(channel, level) ==
  <<digitalWrite(slaveSelectPin, LOW), Transfer(channel), Transfer(level),
    digitalWrite(slaveSelectPin, HIGH)>>

LevelOf(n) == IF n < Levels THEN n ELSE Levels - (n - Levels)

digitalPotWrite ==
  /\ Runs("potentiometer") /\ statements = <<>>
  /\ statements' = Setting(setting \div (2 * Levels), LevelOf(setting % (2 * Levels)))
  /\ setting' = (setting + 1) % (2 * Levels * Channels)
  /\ UNCHANGED <<pin, seen, steady, BuzzerValue, text, read, shifted, wiper>>

------------------------------------------------------------------------------
(* The light that runs along an array of pins and back.                     *)
ledPins == <<2, 7, 4, 6, 5, 3>>
pinCount == 6

(* Put out before it is lit.                                                *)
BlinkSwapped(p) == <<digitalWrite(p, LOW), digitalWrite(p, HIGH)>>

Blink(p) == <<digitalWrite(p, HIGH), digitalWrite(p, LOW)>>

(* Two statements for each pin of a loop.                                   *)
Blinks(pins) == [k \in 1..(2 * pinCount) |-> Blink(pins[(k + 1) \div 2])[1 + ((k + 1) % 2)]]

Forth == Blinks(ledPins)
Back == Blinks([k \in 1..pinCount |-> ledPins[pinCount + 1 - k]])

RunAlong ==
  /\ Runs("arrays") /\ statements = <<>> /\ statements' = Forth \o Back
  /\ UNCHANGED <<pin, seen, steady, BuzzerValue, text, read, setting, shifted, wiper>>

------------------------------------------------------------------------------
Sketch == Statement \/ FollowLine \/ SwitchLeds \/ digitalPotWrite \/ RunAlong

SketchNext == (Sketch \/ SensorChanges \/ Types) /\ UNCHANGED image

SketchSpec == SketchInit /\ [][SketchNext]_sketchVars

------------------------------------------------------------------------------
Drives(plus, minus) == <<pin[plus], pin[minus]>>
Forward == <<HIGH, LOW>>

(* When a second pass begins since the sensors last changed, the motors do  *)
(* what the sensors ask for and go on doing it, whatever pass was under way *)
(* with the values of before: each wheel is driven forward exactly when the *)
(* sensor of the other side is on, and is not driven backward.              *)
MotorsFollow ==
  Runs("follower") /\ steady = 2 =>
    /\ (Drives(RIGHT_MOTOR_P, RIGHT_MOTOR_N) = Forward) = (pin[LEFT_SENSOR] = HIGH)
    /\ (Drives(LEFT_MOTOR_P, LEFT_MOTOR_N) = Forward) = (pin[RIGHT_SENSOR] = HIGH)
    /\ <<LOW, HIGH>> \notin {Drives(RIGHT_MOTOR_P, RIGHT_MOTOR_N),
                             Drives(LEFT_MOTOR_P, LEFT_MOTOR_N)}

(* Between two passes the lit pins are the letters since the last other     *)
(* character, however fast they were typed.                                 *)
LedsFollowText ==
  Runs("switch") /\ statements = <<>> =>
    \A l \in Letters :
      (pin[LedPin[l]] = HIGH) =
        \E i \in 1..read : /\ text[i] = l
                           /\ \A j \in i..read : text[j] \in Letters

(* Of the pins of the array at most one is lit, on the way forth and back   *)
(* and where they meet (arduino_arrays.ino.cpp, lines 40-62).               *)
OneLit ==
  Runs("arrays") =>
    \A j, k \in 1..pinCount : pin[ledPins[j]] = HIGH /\ pin[ledPins[k]] = HIGH => j = k

(* A wiper goes by one step at a time, one wiper at a time, and after its   *)
(* first setting stays within the range of the sketch.                      *)
WiperSteps ==
  [][\A c \in DOMAIN wiper :
       wiper'[c] # wiper[c] =>
         /\ wiper'[c] \in 0..Levels
         /\ IF wiper[c] = -1 THEN wiper'[c] = 0 ELSE wiper'[c] - wiper[c] \in {-1, 1}
         /\ \A d \in DOMAIN wiper \ {c} : wiper'[d] = wiper[d]]_wiper

==============================================================================
