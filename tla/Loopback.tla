------------------------------ MODULE Loopback -------------------------------
(****************************************************************************)
(* The programs that send back what they receive, access by access: "uart"  *)
(* (verilog/dv/user_uart/user_uart.c, user_uart1/user_uart1.c), "master"    *)
(* (user_uart_master/user_uart.c), which does not look whether the UART can *)
(* take more, "clkgate" (user_cpu_clkgate/user_cpu_clkgate.c), which sleeps *)
(* from one timer interrupt to the next, and "serial"                       *)
(* (arduino_multi_serial.ino.cpp), which sends from port to port.           *)
(*                                                                          *)
(* The core sleeps until an interrupt is pending that is not masked.  For   *)
(* "master" the two directions of the line have the same speed, and the     *)
(* load and the store of its one statement are less than a character apart. *)
(****************************************************************************)
EXTENDS Image, Naturals, Sequences

CONSTANTS
  EchoDepth,  \* characters a FIFO of the UART holds
  EchoChars   \* bound: characters that arrive at each port

ASSUME EchoAssumption == EchoDepth \in Nat /\ EchoChars \in Nat

VARIABLES
  echo,               \* which program runs
  echoPc, turn, byte, \* where it is, the port it looks at, what it has read
  echoRx, echoTx,     \* the FIFOs of the ports
  reg_glbl_intr,      \* the interrupts that are pending
  arrived,            \* characters that came to each port, the lost ones with them
  accepted, echoed    \* history: characters the port took, and sent

echoLines == <<echoRx, echoTx, arrived, accepted, echoed>>
echoVars == <<image, echo, echoPc, turn, byte, reg_glbl_intr, echoLines>>

EchoPrograms == {"uart", "master", "clkgate", "serial"}
EchoPorts == IF echo = "serial" THEN {0, 1} ELSE {0}
To(p) == IF echo = "serial" THEN 1 - p ELSE p
PerPortOf(x) == [p \in {0, 1} |-> x]

Beginning == IF echo = "clkgate" THEN "sleep" ELSE "rx"

EchoInit ==
  /\ echo \in Choice("loopback", EchoPrograms)
  /\ echoPc = Beginning /\ turn = (IF echo = "serial" THEN 1 ELSE 0) /\ byte = 0
  /\ echoRx = PerPortOf(<<>>) /\ echoTx = PerPortOf(<<>>)
  /\ reg_glbl_intr = {}
  /\ arrived = PerPortOf(0) /\ accepted = PerPortOf(<<>>) /\ echoed = PerPortOf(<<>>)

Room(p) == Len(echoTx[p]) < EchoDepth

(* The end of the loop's body; the sketch looks at the ports in turn.       *)
Again == echoPc' = Beginning /\ turn' = To(turn)

------------------------------------------------------------------------------
(* The interrupts 0 to 2 are the timers'.  A mask that leaves them out.     *)
MaskAbove == {3}
reg_glbl_intr_msk == {0, 1, 2}

Sleep ==
  /\ echoPc = "sleep" /\ echoPc' = "asleep"
  /\ UNCHANGED <<echo, turn, byte, reg_glbl_intr, echoLines>>

Wake ==
  /\ echoPc = "asleep" /\ reg_glbl_intr \cap reg_glbl_intr_msk # {}
  /\ echoPc' = "clear"
  /\ UNCHANGED <<echo, turn, byte, reg_glbl_intr, echoLines>>

ClearInterrupt ==
  /\ echoPc = "clear" /\ echoPc' = "rx"
  /\ reg_glbl_intr' = {}
  /\ UNCHANGED <<echo, turn, byte, echoLines>>

TimerPulse ==
  /\ echo = "clkgate" /\ 0 \notin reg_glbl_intr
  /\ reg_glbl_intr' = reg_glbl_intr \cup {0}
  /\ UNCHANGED <<echo, echoPc, turn, byte, echoLines>>

(* The two tests of the condition.                                          *)
TestReceive ==
  /\ echoPc = "rx"
  /\ IF echoRx[turn] = <<>> THEN Again
     ELSE /\ echoPc' = IF echo \in {"uart", "clkgate"} THEN "tx" ELSE "take"
          /\ UNCHANGED turn
  /\ UNCHANGED <<echo, byte, reg_glbl_intr, echoLines>>

(* The test of the status with its sense lost.                              *)
TestTransmitAlways ==
  /\ echoPc = "tx" /\ echoPc' = "take"
  /\ UNCHANGED <<echo, turn, byte, reg_glbl_intr, echoLines>>

TestTransmit ==
  /\ echoPc = "tx"
  /\ IF Room(turn) THEN echoPc' = "take" /\ UNCHANGED turn ELSE Again
  /\ UNCHANGED <<echo, byte, reg_glbl_intr, echoLines>>

Take ==
  /\ echoPc = "take" /\ echoPc' = "put"
  /\ byte' = Head(echoRx[turn])
  /\ echoRx' = [echoRx EXCEPT ![turn] = Tail(@)]
  /\ UNCHANGED <<echo, turn, reg_glbl_intr, echoTx, arrived, accepted, echoed>>

(* The sketch's write waits for room, the other programs' does not.         *)
Put ==
  /\ echoPc = "put"
  /\ echo = "serial" => Room(To(turn))
  /\ echoTx' = IF Room(To(turn)) THEN [echoTx EXCEPT ![To(turn)] = Append(@, byte)] ELSE echoTx
  /\ Again
  /\ UNCHANGED <<echo, byte, reg_glbl_intr, echoRx, arrived, accepted, echoed>>

EchoProgram == Sleep \/ Wake \/ ClearInterrupt \/ TestReceive \/ TestTransmit \/ Take \/ Put

(* The time of a character on the lines: one comes or not, and what is      *)
(* there to be sent is sent; of "master" in the same time.                  *)
CharacterTime(coming, going) ==
  /\ coming \cup going # {}
  /\ \A p \in coming : arrived[p] < EchoChars
  /\ \A p \in going : echoTx[p] # <<>>
  /\ echo = "master" =>
       echoPc # "put" /\ going = {p \in EchoPorts : echoTx[p] # <<>>}
  /\ arrived' = [p \in {0, 1} |-> IF p \in coming THEN arrived[p] + 1 ELSE arrived[p]]
  /\ LET taken == {p \in coming : Len(echoRx[p]) < EchoDepth}
     IN  /\ echoRx' = [p \in {0, 1} |->
                         IF p \in taken THEN Append(echoRx[p], arrived[p] + 1) ELSE echoRx[p]]
         /\ accepted' = [p \in {0, 1} |->
                           IF p \in taken THEN Append(accepted[p], arrived[p] + 1) ELSE accepted[p]]
  /\ echoTx' = [p \in {0, 1} |-> IF p \in going THEN Tail(echoTx[p]) ELSE echoTx[p]]
  /\ echoed' = [p \in {0, 1} |->
                  IF p \in going THEN Append(echoed[p], Head(echoTx[p])) ELSE echoed[p]]
  /\ UNCHANGED <<echo, echoPc, turn, byte, reg_glbl_intr>>

LineTime == \E coming, going \in SUBSET EchoPorts : CharacterTime(coming, going)
Transmits(p) == \E coming \in SUBSET EchoPorts, going \in SUBSET EchoPorts :
                  p \in going /\ CharacterTime(coming, going)

EchoStep(A) == Runs("loopback") /\ A /\ UNCHANGED image

EchoNext == EchoStep(EchoProgram \/ TimerPulse \/ LineTime)

EchoSpec == EchoInit /\ [][EchoNext]_echoVars

------------------------------------------------------------------------------
InHand(p) == IF echoPc = "put" /\ turn = p THEN <<byte>> ELSE <<>>

(* Each character a port took is sent back, or across, once and in order,   *)
(* or is still on its way; the one program that does not look at the state  *)
(* of the transmitter loses none either, for the line that brings the       *)
(* characters is no faster than the one that takes them away.               *)
EchoInOrder ==
  \A p \in EchoPorts : echoed[To(p)] \o echoTx[To(p)] \o InHand(p) \o echoRx[p] = accepted[p]

(* In the end every character that was taken is sent, also when the core    *)
(* goes to sleep in the moment in which an interrupt comes                  *)
(* (user_cpu_clkgate.c, lines 50-51).                                       *)
EchoComes ==
  Runs("loopback") => <>[](\A p \in EchoPorts : echoed[To(p)] = accepted[p])

==============================================================================
