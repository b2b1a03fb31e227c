------------------------------ MODULE Interrupts -----------------------------
(****************************************************************************)
(* Interrupts from the pin or the timer to the handler of a sketch, clock   *)
(* by clock: the edge detector and the sticky status of the GPIO block, the *)
(* global status behind it, the processor that serves one line after        *)
(* another, and verilog/dv/arduino_gpio_intr and arduino_timer_intr.        *)
(****************************************************************************)
EXTENDS Image, Integers

CONSTANTS
  Pins,          \* the pins a sketch attaches, from 2 on
  PinChanges,    \* bound: how often the level of a pin changes
  TickLimits     \* [0..1 -> Nat]: a timer is disabled above it, 19 and 4 in the sketch

ASSUME InterruptAssumption ==
  /\ Pins \subseteq Nat \ {0, 1} /\ PinChanges \in Nat
  /\ TickLimits \in [{0, 1} -> Nat]

Timers == {0, 1}    \* lines of the global status; pins have numbers above
Lines == Pins \cup Timers

VARIABLES
  wired,         \* the lines the sketch uses
  attachedTo,    \* lines it has attached, in the order of setup()
  enabled,       \* timers enabled
  level, reg_2,  \* gpio_in_data, and of the clock before
  gpioStat,      \* reg_4 of gpio_reg
  glblStat,      \* reg_4 of glbl_reg
  irq,           \* what the processor is doing, and for which line
  ticks,         \* Timer_us and Timer_ms
  changes,       \* level changes so far
  owed           \* history: attached edges whose handler has not been called since

intrVars == <<image, wired, attachedTo, enabled, level, reg_2, gpioStat, glblStat, irq, ticks,
              changes, owed>>

Idle == [at |-> "idle", line |-> 0]

IntrInit ==
  /\ wired \in Choice("interrupts", {Pins, Timers})
  /\ attachedTo = {} /\ enabled = wired \cap Timers
  /\ level \in Choice("interrupts", [Pins -> BOOLEAN]) /\ reg_2 = level
  /\ gpioStat = {} /\ glblStat = {} /\ irq = Idle
  /\ ticks = [t \in Timers |-> 0] /\ changes = [p \in Pins |-> 0] /\ owed = {}

------------------------------------------------------------------------------
(* Even pins call increase_2 when they rise, odd ones decrease_1 when they  *)
(* fall.                                                                    *)
Rising(p) == p % 2 = 0
Pos == {p \in Pins \cap attachedTo : Rising(p)}
Neg == {p \in Pins \cap attachedTo : ~Rising(p)}

gpio_int_event ==
  {p \in Pos : ~reg_2[p] /\ level[p]} \cup {p \in Neg : reg_2[p] /\ ~level[p]}

(* A status that takes nothing while the processor writes to it.            *)
StatBusy(stat, request, clear) == IF clear # {} THEN stat \ clear ELSE stat \cup request

(* A request sets its bit, also in the clock in which it is cleared.        *)
Stat(stat, request, clear) == (stat \ clear) \cup request

------------------------------------------------------------------------------
(* The sketch attaches its lines one after another; what is not attached is *)
(* masked.                                                                  *)
ToAttach == wired \ attachedTo
Attach ==
  /\ irq = Idle /\ ToAttach # {}
  /\ attachedTo' = attachedTo \cup {CHOOSE l \in ToAttach : \A k \in ToAttach : l <= k}
  /\ UNCHANGED <<irq, ticks, enabled>>

(* The processor takes a pending line, clears its bits and calls the        *)
(* handler: the order of user_cpu_clkgate.c, line 51, and what is assumed   *)
(* of the board package's dispatcher.                                       *)
TakeInterrupt ==
  /\ irq = Idle
  /\ \E l \in glblStat \cap attachedTo :
       irq' = [at |-> IF l \in Pins THEN "clear_gpio" ELSE "clear_global", line |-> l]
  /\ UNCHANGED <<attachedTo, ticks, enabled>>

Then(here, next) == irq.at = here /\ irq' = [irq EXCEPT !.at = next]

Clear ==
  /\ Then("clear_gpio", "clear_global") \/ Then("clear_global", "call")
  /\ UNCHANGED <<attachedTo, ticks, enabled>>

PinHandler ==
  /\ irq.at = "call" /\ irq.line \in Pins /\ irq' = Idle
  /\ UNCHANGED <<attachedTo, ticks, enabled>>

CountTick ==
  /\ irq.line \in Timers /\ Then("call", "compare")
  /\ ticks' = [ticks EXCEPT ![irq.line] = @ + 1]
  /\ UNCHANGED <<attachedTo, enabled>>

(* A handler that stops at the limit only, and the other timer.             *)
StopsOther(t) == IF ticks[t] > TickLimits[t] THEN {1 - t} ELSE {}

Stops(t) == IF ticks[t] > TickLimits[t] THEN {t} ELSE {}

CompareTick ==
  /\ irq.at = "compare" /\ irq' = Idle
  /\ enabled' = enabled \ Stops(irq.line)
  /\ UNCHANGED <<attachedTo, ticks>>

Processor == Attach \/ TakeInterrupt \/ Clear \/ PinHandler \/ CountTick \/ CompareTick
Stalls == UNCHANGED <<attachedTo, irq, ticks, enabled>>

Write(at) == IF irq.at = at /\ irq'.at # at THEN {irq.line} ELSE {}

(* Pins in use change level at any clock, timers come to their end.         *)
Clock ==
  \E flips \in SUBSET {p \in Pins \cap wired : changes[p] < PinChanges},
     pulses \in SUBSET enabled :
    /\ level' = [p \in Pins |-> IF p \in flips THEN ~level[p] ELSE level[p]]
    /\ changes' = [p \in Pins |-> IF p \in flips THEN changes[p] + 1 ELSE changes[p]]
    /\ reg_2' = level
    /\ gpioStat' = Stat(gpioStat, gpio_int_event, Write("clear_gpio"))
    /\ glblStat' = Stat(glblStat, (gpioStat \cap attachedTo) \cup pulses, Write("clear_global"))
    /\ owed' = (owed \ Write("call"))
               \cup {p \in flips \cap attachedTo : Rising(p) # level[p]}

IntrNext ==
  Runs("interrupts") /\ (Processor \/ Stalls) /\ Clock /\ UNCHANGED <<image, wired>>

IntrSpec == IntrInit /\ [][IntrNext]_intrVars

(* The processor does not stall.                                            *)
Interrupted == Runs("interrupts") /\ Processor /\ Clock /\ UNCHANGED <<image, wired>>

------------------------------------------------------------------------------
(* Every edge that a sketch attached a handler to is followed by a call of  *)
(* the handler, though it may come while the processor is clearing or       *)
(* serving another edge of the same pin or of another one (gpio_reg.sv,     *)
(* line 211: the status is updated also while it is written).               *)
EdgesServed == \A p \in Pins : Runs("interrupts") => (p \in owed ~> p \notin owed)

(* A timer is disabled by the first call above the limit; a pulse of before *)
(* that may bring one call more, and no second one.                         *)
TimersStop == \A t \in Timers : ticks[t] <= TickLimits[t] + 2

==============================================================================
