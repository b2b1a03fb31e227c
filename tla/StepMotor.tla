------------------------------ MODULE StepMotor ------------------------------
(****************************************************************************)
(* The stepper motor: the registers and the sequencer of                    *)
(* verilog/rtl/sm_ctrl/src/sm_ctrl.sv, clock by clock, and the program of   *)
(* verilog/dv/step_motor_controller that starts a movement and waits for    *)
(* its end.  Of the prescaler and the pulse width there is the strobe at    *)
(* the start of a period, and of the coils the number of steps.             *)
(****************************************************************************)
EXTENDS Image, Integers

CONSTANT
  Moves     \* the movements: [cycles, period: Nat, reverse, free: BOOLEAN]

(* Movements for TLC: none to three counts, with and without a period of    *)
(* its own between the steps, backward, and without an end.                 *)
Move(n, p, back, f) == [cycles |-> n, period |-> p, reverse |-> back, free |-> f]

SomeMoves == {Move(n, p, FALSE, FALSE) : n \in 0..3, p \in 0..1}
             \cup {Move(2, 0, TRUE, FALSE), Move(1, 0, FALSE, TRUE)}

ASSUME MotorAssumption ==
  Moves \subseteq [cycles : Nat, period : Nat, reverse : BOOLEAN, free : BOOLEAN]

VARIABLES
  move,               \* the movement the program asks for
  smPc,               \* "period", "config", "control", "wait" or "done"
  smValid, ready,     \* an access of the program and its acknowledge
  smData,             \* wbs_dat_o of the control register
  controller_en, period, run, cycles,
  pwmStart, quiet,    \* the strobe of the pulse width, clocks since the last
  smCounter, step_strobe,
  motor_state,
  steps               \* history: steps since the program started the motor

motorVars == <<image, move, smPc, smValid, ready, smData, controller_en, period, run, cycles,
               pwmStart, quiet, smCounter, step_strobe, motor_state, steps>>

MotorInit ==
  /\ move \in Choice("motor", Moves)
  /\ smPc = "period" /\ smValid = FALSE /\ ready = FALSE
  /\ smData = [run |-> FALSE, cycles |-> 0]
  /\ controller_en = FALSE /\ period = 0 /\ run = FALSE /\ cycles = 0
  /\ pwmStart = FALSE /\ quiet = 0 /\ smCounter = 0 /\ step_strobe = FALSE
  /\ motor_state = 0 /\ steps = 0

------------------------------------------------------------------------------
(* A period of the pulse width has 256 ticks; here at least Apart clocks.   *)
Apart == 3

pwm_generator ==
  /\ pwmStart' \in (IF controller_en /\ quiet = Apart THEN BOOLEAN ELSE {FALSE})
  /\ quiet' = IF pwmStart' THEN 0 ELSE IF quiet < Apart THEN quiet + 1 ELSE quiet

(* A comparison that never holds.                                           *)
StepDueAbove == run /\ pwmStart /\ smCounter > period

StepDue == run /\ pwmStart /\ smCounter >= period

Turned(s) == IF move.reverse THEN (s + 7) % 8 ELSE (s + 1) % 8

motor_sequencer ==
  /\ step_strobe' = (controller_en /\ StepDue)
  /\ smCounter' = IF ~controller_en \/ ~run \/ (pwmStart /\ smCounter >= period) THEN 0
                  ELSE IF pwmStart THEN smCounter + 1 ELSE smCounter
  /\ IF run /\ pwmStart /\ smCounter >= period
       THEN motor_state' = Turned(motor_state) /\ steps' = steps + 1
       ELSE UNCHANGED <<motor_state, steps>>

------------------------------------------------------------------------------
Accessed == smValid /\ ~ready
MotorWritten(register) == Accessed /\ smPc = register

(* The motor stops with the strobe that ends the count.                     *)
LastStrobeEarly == ~move.free /\ step_strobe /\ cycles <= 1

(* The motor stops with the first strobe that finds the count at zero.      *)
LastStrobe == ~move.free /\ step_strobe /\ cycles = 0

sm_regs ==
  /\ ready' = Accessed
  /\ period' = IF MotorWritten("period") THEN move.period ELSE period
  /\ controller_en' = (controller_en \/ MotorWritten("config"))
  /\ smData' = IF MotorWritten("control") \/ MotorWritten("wait")
                 THEN [run |-> run, cycles |-> cycles] ELSE smData
  /\ run' = (MotorWritten("control") \/ (run /\ ~LastStrobe))
  /\ cycles' = IF MotorWritten("control") THEN move.cycles
               ELSE IF step_strobe /\ cycles # 0 THEN cycles - 1 ELSE cycles

(* The mask of the wait leaves out the bit of run.                          *)
MotorStopped == smData.cycles = 0

AfterAccess ==
  CASE smPc = "period" -> "config" [] smPc = "config" -> "control" [] smPc = "control" -> "wait"
    [] OTHER -> IF MotorStopped THEN "done" ELSE "wait"

(* The program starts an access at any clock and ends it with the           *)
(* acknowledge.                                                             *)
MotorProgram ==
  \/ smPc # "done" /\ ~smValid /\ ~ready /\ smValid' = TRUE /\ UNCHANGED smPc
  \/ ready /\ smValid' = FALSE /\ smPc' = AfterAccess

MotorStalls == UNCHANGED <<smPc, smValid>>

MotorClock == pwm_generator /\ motor_sequencer /\ sm_regs /\ UNCHANGED <<image, move>>

(* A free movement goes round once, the others end on their own.            *)
Bound == steps < move.cycles + 8

MotorNext ==
  /\ Runs("motor") /\ Bound
  /\ MotorProgram \/ (~ready /\ MotorStalls)
  /\ MotorClock

MotorSpec == image = "motor" /\ MotorInit /\ [][MotorNext]_motorVars

------------------------------------------------------------------------------
(* The program's wait is commented "Wait end of step moving"                 *)
(* (step_motor_controller.c, line 55): when it is over the motor stands.    *)
WaitEndsMoving == smPc = "done" => ~run

(* A movement takes one step more than its count says, whenever the strobes *)
(* come, and the motor has not moved before or after it: sm_regs sees a     *)
(* strobe two clocks after the period that made the step.                   *)
CountedSteps ==
  ~move.free /\ controller_en =>
    IF run THEN steps = move.cycles - cycles + (IF step_strobe THEN 1 ELSE 0)
    ELSE steps \in {0, move.cycles + 1}

(* The wait of the program ends, and then the movement does.                *)
MotorEnds == Runs("motor") /\ ~move.free => <>(smPc = "done" /\ ~run)

==============================================================================
