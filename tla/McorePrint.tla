------------------------------ MODULE McorePrint ------------------------------
(****************************************************************************)
(* Cores that print on one UART, each message under a hardware lock:        *)
(* verilog/dv/user_mcore_test2/user_mcore_test2.c and, as the other         *)
(* `sketch', verilog/dv/arduino_mcore_test/arduino_mcore_test.ino.cpp, over *)
(* SemaphoreReg and the bus of the peripherals.                             *)
(*                                                                          *)
(* In the test the testbench waits for core 0 in the mailbox register and   *)
(* then lets all cores go; in the sketch core 0 takes the other cores out   *)
(* of reset and lets them go itself.  Serial.print waits for the UART as    *)
(* the test's loop does.  The UART drops a character that finds it full.    *)
(****************************************************************************)
EXTENDS SemaphoreReg, Image, Integers, Sequences, FiniteSets

CONSTANTS
  Cores,      \* the cores, of which 0 is the first
  Messages,   \* bound: messages per core, 4 in the test, 16 in the sketch
  Length,     \* bound: characters per message
  TxDepth     \* characters the UART holds

ASSUME PrintAssumption ==
  /\ Cores \subseteq Nat /\ 0 \in Cores
  /\ Messages \in Nat /\ Length \in Nat \ {0} /\ TxDepth \in Nat \ {0}

VARIABLES
  sketch,       \* which of the two programs runs
  mail_box,     \* "reset", "booted" (core 0 wrote its 1) or "ready" (81 for all)
  bus,          \* the core whose lock access is on the bus, or NoCore
  pc, msg, at,  \* per core: where it is, messages printed, the next character
  tx, printed   \* the UART: characters it holds, those it has sent

printVars == <<image, semaVars, sketch, mail_box, bus, pc, msg, at, tx, printed>>

NoCore == -1
Lock == 0

PrintInit ==
  /\ SemaInit
  /\ sketch \in Choice("print", BOOLEAN)
  /\ mail_box = "reset"
  /\ bus = NoCore
  /\ pc = [c \in Cores |-> IF c = 0 \/ ~sketch THEN "boot" ELSE "reset"]
  /\ msg = [c \in Cores |-> 0] /\ at = [c \in Cores |-> 1]
  /\ tx = <<>> /\ printed = <<>>

Go(c, to) == pc' = [pc EXCEPT ![c] = to]

------------------------------------------------------------------------------
(* Core 0 sets the UART up and says so in the mailbox.                      *)
Boot(c) ==
  /\ pc[c] = "boot" /\ bus = NoCore
  /\ mail_box' = IF c = 0 THEN "booted" ELSE mail_box
  /\ pc' = IF sketch /\ c = 0
             THEN [d \in Cores |-> IF d = 0 THEN "wait" ELSE "boot"]
             ELSE [pc EXCEPT ![c] = "wait"]
  /\ UNCHANGED <<semaVars, sketch, bus, msg, at, tx, printed>>

(* The testbench polls for the first core and lets all of them go.          *)
set_tb_ready ==
  /\ ~sketch /\ mail_box = "booted" /\ bus = NoCore
  /\ mail_box' = "ready"
  /\ UNCHANGED <<semaVars, sketch, bus, pc, msg, at, tx, printed>>

WaitForStart(c) ==
  /\ pc[c] = "wait" /\ bus = NoCore
  /\ mail_box = "ready" \/ (sketch /\ mail_box # "reset")
  /\ Go(c, "lock")
  /\ UNCHANGED <<semaVars, sketch, mail_box, bus, msg, at, tx, printed>>

(* print_message reads the lock, or releases it.                            *)
AccessLock(c) ==
  /\ pc[c] \in {"lock", "release"} /\ bus = NoCore
  /\ pc[c] = "lock" => msg[c] < Messages
  /\ bus' = c
  /\ UNCHANGED <<semaVars, sketch, mail_box, pc, msg, at, tx, printed>>

(* What a core does with the answer, at the acknowledge.                    *)
GotLock(c) ==
  IF reg_rdata THEN Go(c, "poll") /\ UNCHANGED msg
               ELSE UNCHANGED <<pc, msg>>

Released(c) == Go(c, "lock") /\ msg' = [msg EXCEPT ![c] = @ + 1]

(* The bus is given away with the acknowledge and not before.               *)
SemaphoreClock ==
  /\ bus # NoCore
  /\ SemaEdge(pc[bus] = "release", Lock)
  /\ IF reg_ack
       THEN /\ IF pc[bus] = "release" THEN Released(bus) ELSE GotLock(bus)
            /\ bus' = NoCore
       ELSE UNCHANGED <<pc, msg, bus>>
  /\ UNCHANGED <<sketch, mail_box, at, tx, printed>>

(* A loop that does not wait for the UART.                                  *)
PollIgnored(c) ==
  /\ pc[c] = "poll" /\ bus = NoCore
  /\ Go(c, "put")
  /\ UNCHANGED <<semaVars, sketch, mail_box, bus, msg, at, tx, printed>>

PollUart(c) ==
  /\ pc[c] = "poll" /\ bus = NoCore
  /\ Len(tx) < TxDepth
  /\ Go(c, "put")
  /\ UNCHANGED <<semaVars, sketch, mail_box, bus, msg, at, tx, printed>>

Character(c) == <<c, msg[c] + 1, at[c]>>

PutCharacter(c) ==
  /\ pc[c] = "put" /\ bus = NoCore
  /\ tx' = IF Len(tx) < TxDepth THEN Append(tx, Character(c)) ELSE tx
  /\ at' = [at EXCEPT ![c] = IF @ = Length THEN 1 ELSE @ + 1]
  /\ Go(c, IF at[c] = Length THEN "release" ELSE "poll")
  /\ UNCHANGED <<semaVars, sketch, mail_box, bus, msg, printed>>

UartSends ==
  /\ tx # <<>>
  /\ printed' = Append(printed, Head(tx)) /\ tx' = Tail(tx)
  /\ UNCHANGED <<semaVars, sketch, mail_box, bus, pc, msg, at>>

Core(c) ==
  Boot(c) \/ WaitForStart(c) \/ AccessLock(c) \/ PollUart(c) \/ PutCharacter(c)

PrintStep(A) == Runs("print") /\ A /\ UNCHANGED image

PrintNext ==
  PrintStep(set_tb_ready \/ SemaphoreClock \/ UartSends \/ \E c \in Cores : Core(c))

PrintSpec == PrintInit /\ [][PrintNext]_printVars

------------------------------------------------------------------------------
InSection(c) == pc[c] \in {"poll", "put", "release"}

(* Two cores are never between taking the lock and releasing it, and the    *)
(* lock is held if and only if one of them is (semaphore_reg.sv, lines      *)
(* 105-110): a release never takes a free lock.                             *)
MutualExclusion ==
  /\ \A c, d \in Cores : InSection(c) /\ InSection(d) => c = d
  /\ Lock \in reg_0 <=> \E c \in Cores : InSection(c)

(* What is on the line and in the UART is whole messages one after another, *)
(* each core's in their order, but for the one that is being printed: no    *)
(* character is lost or falls into another message.                         *)
LinesWhole ==
  LET out == printed \o tx
  IN  /\ out # <<>> => out[1][3] = 1
      /\ \A i \in 1..(Len(out) - 1) :
           IF out[i][3] < Length
             THEN out[i + 1] = <<out[i][1], out[i][2], out[i][3] + 1>>
             ELSE out[i + 1][3] = 1
      /\ \A i \in DOMAIN out : out[i][3] = 1 =>
           out[i][2] = 1 + Cardinality({j \in 1..(i - 1) :
                             out[j][1] = out[i][1] /\ out[j][3] = 1})

(* In the end every core has printed all its messages.                      *)
Finished == \A c \in Cores : msg[c] = Messages
AllPrinted ==
  Runs("print") =>
    <>(Finished /\ Len(printed) = Cardinality(Cores) * Messages * Length)

==============================================================================
