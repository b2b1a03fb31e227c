------------------------------ MODULE MCFirmware ------------------------------
(****************************************************************************)
(* The programs, one behaviour after another in one specification: the      *)
(* program memory chooses which of them runs.                               *)
(****************************************************************************)
EXTENDS McorePrint, Bthread, Coprocessor, Console, RtcTask, TcmTest, Ws281x, Loopback,
        RegisterMap, Interrupts, Sketches, WireSketches, PinReport, StepMotor, JtagVpi

Images == {"print", "threads", "coprocessor", "console", "rtc", "tcm", "leds", "loopback",
           "registers", "interrupts", "follower", "switch", "potentiometer", "i2c_wr_rd",
           "i2c_scan", "motor", "jtag", "inputs", "copied", "arrays"}

------------------------------------------------------------------------------
(* What the master of user_mcore_test1.c does, and what other masters may   *)
(* do: give a worker a second job before and after a join, two workers at   *)
(* work, and the errors of bthread_spawn and bthread_join.                  *)
J(a, b) == [begin |-> a, end |-> b]
Spawn(t, a, b) == MainStep("spawn", t, J(a, b))
WorkOn(a, b) == MainStep("work", 0, J(a, b))
Join(t) == MainStep("join", t, NoJob)

MasterPrograms ==
  {<<Spawn(1, 2, 4), WorkOn(0, 2), Join(1)>>,
   <<Spawn(1, 0, 1), Spawn(1, 1, 2), Spawn(2, 2, 3), Join(1), Spawn(1, 1, 2), WorkOn(3, 4),
     Join(2), Join(1)>>,
   <<Spawn(0, 0, 1), Spawn(3, 0, 1), Join(3), Join(7)>>}

(* Pieces of formats, and the pairs of them.                                *)
Pieces ==
  {Piece(<<"0">>, 2, -1, "d", 255), Piece(<<"0">>, 12, -1, "x", 255),
   Piece(<<>>, 2, -1, "d", 0), Piece(<<>>, -1, -1, "d", -7), Piece(<<"*">>, 3, -1, "u", 5),
   Piece(<<>>, -1, -1, "o", 64), Piece(<<>>, 4, -1, "X", 175),
   Piece(<<>>, 3, 1, "s", <<"a", "b">>), Piece(<<"-">>, 3, -1, "s", <<"a", "b">>),
   Piece(<<>>, -1, -1, "c", <<"h">>), Piece(<<>>, -1, -1, "%", <<>>),
   Piece(<<>>, 3, -1, "q", <<>>), Piece(<<>>, -1, -1, "", <<"z", "\n">>)}
PrintCalls == {<<a, b>> : a, b \in Pieces}

(* Benches of the real-time clock: from the ends of months and years on, up *)
(* to four steps, and calls with missing or wrong arguments.                *)
Constant(v) == Argument("vpiConstant", v, v)
InitAt(t) == [k \in 1..7 |-> Constant((<<0>> \o t)[k])]
Second == <<Constant(1)>>
Date == <<Constant(2)>>
Starts == {<<2022, 10, 19, 0, 0, 0>>, <<2023, 12, 31, 23, 59, 59>>, <<2024, 2, 28, 23, 59, 58>>,
           <<2100, 2, 28, 12, 30, 59>>, <<1999, 4, 30, 9, 59, 59>>}
Steps == UNION {[1..n -> {Second, Date}] : n \in 0..4}
SomeInit == InitAt(<<2022, 10, 19, 0, 0, 0>>)
ClockBenches ==
  {<<InitAt(t)>> \o s : t \in Starts, s \in Steps}
  \cup {<<SubSeq(SomeInit, 1, n)>> : n \in 0..6}
  \cup {<<Append(Second, Constant(1))>>, <<Append(SomeInit, Constant(1))>>,
        <<[SomeInit EXCEPT ![5].type = "vpiRealVar"]>>,
        <<<<Argument("vpiReg", 1, 0)>>>>, <<<<Argument("vpiReg", 0, 1)>>>>}

TwoPeriods == {<<0, 1>>, <<3, 2>>}

(* Every register right after one of each kind, by a core and by a host,    *)
(* the host after a selection of the bank; and the ends of a cipher block.  *)
FirstNames == {"glbl_mail_box", "gpio_odata", "timer_cfg_timer1", "sema_lock3", "smotor_period",
               "uart1_status", "wbi_dcg"}
Accesses ==
  {<<CoreAccess(a), CoreAccess(b)>> : a \in FirstNames, b \in Names(Internal)}
  \cup {<<SelectBank(k), HostAccess(a), HostAccess(b)>> :
          k \in {0, \h1000}, a \in {"sema_lock0", "mprj_wbhost_reg4", "qspi_status"},
          b \in Names(External)}
  \cup {<<CipherAccess(e[1])>> : e \in Cipher}

TwoLimits == [t \in {0, 1} |-> 3 - 2 * t]

SomeDevices == SUBSET {9, 16, 31, 40}

------------------------------------------------------------------------------
printOwn == <<semaVars, sketch, mail_box, bus, pc, msg, at, tx, printed>>
threadOwn == <<threadArrays, tpc, job, element, program, step, dest, threadHistory>>
copOwn == <<copTest, broken, wrongBytes, copPc, copOp, ErrCnt, exit, reg_gpio_odata,
            dmem_req_ack, cfg_fpu_din1, cfg_fpu_din2, cfg_fpu_req, cfg_fpu_req_l, engine,
            fpu_result>>
consoleOwn == <<call, fmt, ap, last_fmt, directive, todo, buf, flushed, uartHolds, handed, stored>>
rtcOwn == <<bench, made, simulation, tm, answer, start, dates, seconds, missing>>
tcmOwn == <<fault, cells, at_step, TestStatus, lastLine, tcm_mail_box>>
copyOwn == <<copyPc, src_ptr, dst_ptr, func, soft_regs, copy_mail_box, testBench>>
ledOwn == <<periods, port_enb, access, ledCs, ledAck, ledFifo, ledDriver>>
echoOwn == <<echo, echoPc, turn, byte, reg_glbl_intr, echoLines>>

registerOwn == <<asks, reg_cs, bank_sel, reg_blk_sel, blockAck, blockData, answers,
                 waited, copied>>
intrOwn == <<wired, attachedTo, enabled, level, reg_2, gpioStat, glblStat, irq, ticks, changes,
             owed>>
sketchOwn == <<statements, pin, seen, steady, BuzzerValue, text, read, setting, shifted, wiper>>
wireOwn == <<memoryVars, scanVars>>
reportOwn == <<row, awaited, reporting, rowLevel, levelChanges, edges>>
motorOwn == <<move, smPc, smValid, ready, smData, controller_en, period, run, cycles, pwmStart,
              quiet, smCounter, step_strobe, motor_state, steps>>

coreOwn == <<printOwn, threadOwn, copOwn, consoleOwn>>
benchOwn == <<rtcOwn, tcmOwn, copyOwn, ledOwn, echoOwn>>
blockOwn == <<registerOwn, intrOwn, motorOwn, jtagVars>>
pinOwn == <<sketchOwn, wireOwn, reportOwn>>

allVars == <<image, coreOwn, benchOwn, blockOwn, pinOwn>>

Init ==
  /\ image \in Images
  /\ RegInit /\ PrintInit /\ ThreadInit /\ CopInit /\ TcmInit /\ CopyInit /\ LedInit /\ EchoInit
  /\ IntrInit /\ SketchInit /\ WireInit /\ MotorInit /\ JtagInit /\ ConsoleInit /\ RtcInit
  /\ ReportInit

(* The components that stand still while one runs.                          *)
PrintRest == UNCHANGED <<threadOwn, copOwn, consoleOwn, benchOwn, blockOwn, pinOwn>>
ThreadRest == UNCHANGED <<printOwn, copOwn, consoleOwn, benchOwn, blockOwn, pinOwn>>
CopRest == UNCHANGED <<printOwn, threadOwn, consoleOwn, benchOwn, blockOwn, pinOwn>>
ConsoleRest == UNCHANGED <<printOwn, threadOwn, copOwn, benchOwn, blockOwn, pinOwn>>
RtcRest == UNCHANGED <<tcmOwn, copyOwn, ledOwn, echoOwn, coreOwn, blockOwn, pinOwn>>
TcmRest == UNCHANGED <<rtcOwn, copyOwn, ledOwn, echoOwn, coreOwn, blockOwn, pinOwn>>
CopyRest == UNCHANGED <<rtcOwn, tcmOwn, ledOwn, echoOwn, coreOwn, blockOwn, pinOwn>>
LedRest == UNCHANGED <<rtcOwn, tcmOwn, copyOwn, echoOwn, coreOwn, blockOwn, pinOwn>>
EchoRest == UNCHANGED <<rtcOwn, tcmOwn, copyOwn, ledOwn, coreOwn, blockOwn, pinOwn>>
RegRest == UNCHANGED <<intrOwn, motorOwn, jtagVars, coreOwn, benchOwn, pinOwn>>
IntrRest == UNCHANGED <<registerOwn, motorOwn, jtagVars, coreOwn, benchOwn, pinOwn>>
MotorRest == UNCHANGED <<registerOwn, intrOwn, jtagVars, coreOwn, benchOwn, pinOwn>>
JtagRest == UNCHANGED <<registerOwn, intrOwn, motorOwn, coreOwn, benchOwn, pinOwn>>
SketchRest == UNCHANGED <<wireOwn, reportOwn, coreOwn, benchOwn, blockOwn>>
WireRest == UNCHANGED <<sketchOwn, reportOwn, coreOwn, benchOwn, blockOwn>>
ReportRest == UNCHANGED <<sketchOwn, wireOwn, coreOwn, benchOwn, blockOwn>>

Next ==
  \/ PrintNext /\ PrintRest
  \/ ThreadNext /\ ThreadRest
  \/ CopNext /\ CopRest
  \/ ConsoleNext /\ ConsoleRest
  \/ RtcNext /\ RtcRest
  \/ TcmNext /\ TcmRest
  \/ CopyNext /\ CopyRest
  \/ LedNext /\ LedRest
  \/ EchoNext /\ EchoRest
  \/ RegNext /\ RegRest
  \/ IntrNext /\ IntrRest
  \/ MotorNext /\ MotorRest
  \/ JtagStep(JtagNext) /\ JtagRest
  \/ SketchNext /\ SketchRest
  \/ WireNext /\ WireRest
  \/ ReportNext /\ ReportRest

(* The clocks run, the processors go on, and what they work with comes to   *)
(* an end.  The cores share the data port of the processor cluster, which   *)
(* is not in the tree: that each gets it in the end is assumed, as is that  *)
(* the pulse width has its periods.                                         *)
ProgramFairness ==
  /\ WF_printVars(PrintStep(set_tb_ready \/ SemaphoreClock))
  /\ WF_printVars(PrintStep(UartSends))
  /\ \A c \in Cores : SF_printVars(PrintStep(Core(c)))
  /\ WF_threadVars(ThreadStep(Master))
  /\ \A w \in Workers : WF_threadVars(ThreadStep(Worker(w)))
  /\ WF_echoVars(EchoStep(EchoProgram)) /\ WF_echoVars(EchoStep(TimerPulse))
  /\ \A p \in {0, 1} : WF_echoVars(EchoStep(Transmits(p)))

BlockFairness ==
  /\ WF_copVars(CopNext) /\ WF_copVars(CopStep(CopEdge(TRUE)))
  /\ WF_copyVars(CopyStep(CopyMain /\ UNCHANGED testBench)) /\ WF_copyVars(CopyStep(BenchWaits))
  /\ WF_ledVars(LedProgram) /\ WF_reportVars(Looping)
  /\ WF_intrVars(IntrNext) /\ WF_intrVars(Interrupted)
  /\ WF_motorVars(MotorNext) /\ WF_motorVars(MotorNext /\ MotorProgram)
  /\ SF_motorVars(MotorNext /\ pwmStart')
  /\ WF_jtagVars(JtagStep(Simulation)) /\ WF_jtagVars(JtagStep(ReceiveAnswer))

FairSpec == Init /\ [][Next]_allVars /\ ProgramFairness /\ BlockFairness

------------------------------------------------------------------------------
(* What each program is for.  The parts are stated, and their code is       *)
(* named, in the modules of the programs.                                   *)

(* Test programs tell the truth: the results they look at are of their own  *)
(* operation, or run from their own copy, and the verdict at the end is     *)
(* good exactly if the engine or the memory is (user_fpu_core.c,            *)
(* user_aes_core.c, arduino_tcm_test.ino.cpp, user_sram_exec.c).            *)
TestsTellTruth == ResultIsOwn /\ VerdictRight /\ MemoryVerdict /\ CopyRuns

(* A call of sc_printf stores what its format means, in order and nothing   *)
(* twice, and does not overrun its buffer (sc_print.c).                     *)
ConsoleRight == PrintsItsMeaning /\ BufferKept

(* The reference clock answers with the right day and time, from arguments  *)
(* that are there (pli_rtc.c).                                              *)
ReferenceClockRight == ClockRight /\ ArgumentsThere

(* Whatever flows from one queue to another comes out whole and in order:   *)
(* messages of several cores on one line, words of LED chains, characters   *)
(* sent back (user_mcore_test2.c, ws281x_driver.sv, user_uart.c).           *)
StreamsInOrder == LinesWhole /\ WordsInOrder /\ EchoInOrder

(* An access by a name of the headers is answered, by the register it       *)
(* names, with its data, whatever was accessed before                       *)
(* (int_reg_map.h, pinmux_top.sv).                                          *)
RegistersRight == AnswerIsNamed /\ BytesInBlock /\ AccessesEnd

(* What the pin sketches drive and say follows from what their inputs were, *)
(* though these change within a pass (arduino_line_follower,                *)
(* arduino_switchCase2, arduino_gpio_input, arduino_arrays).                *)
PinsFollow == MotorsFollow /\ LedsFollowText /\ EdgesTellLevel /\ OneLit

(* What the two-wire sketches print is what is on the bus                   *)
(* (arduino_i2c_wr_rd, arduino_i2c_scaner).                                 *)
WireRight == ReadBack /\ ScanRight

(* What is counted ends at its count: steps of the motor and ticks of the   *)
(* timers, though both are seen late (sm_ctrl.sv,                           *)
(* arduino_timer_intr.ino.cpp).                                             *)
CountsHold == CountedSteps /\ TimersStop

(* The packets of the server keep their form, a scan clocks all its bits,   *)
(* and an answer goes to the scan it is for (jtag_common.c, bfm_jtag.v).    *)
ScansRight == JtagTypeOK /\ AnswersOwnScan /\ ScansWhole

(* Every program that has an end comes to it, and every wait of a program   *)
(* is over in the end (user_mcore_test1.c, user_fpu_core.c,                 *)
(* step_motor_controller.c, arduino_gpio_input.ino.cpp).                    *)
ProgramsEnd ==
  ProgramEnds /\ CoprocessorTestEnds /\ CopyTestEnds /\ MotorEnds /\ ReportsComeToRest

(* What is given to a queue, an interrupt or a server is served in the end: *)
(* messages, words and characters are sent, edges reach their handlers,     *)
(* scans are answered.                                                      *)
AllServed == AllPrinted /\ AllWordsSent /\ EchoComes /\ EdgesServed /\ ScansAnswered

==============================================================================
