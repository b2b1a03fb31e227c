# Verification of the Riscduino digital core and its programs

TLA+ modules, TLC configurations and TLAPS proofs for the RTL under
`verilog/rtl` and for the programs that run on it and around it under
`verilog/dv`. Paths of RTL files are relative to `verilog/rtl`, the others to
`verilog/dv`.

1. [The system](#1-the-system)
2. [The modules](#2-the-modules)
3. [The runs](#3-the-runs)
4. [Fairness](#4-fairness)
5. [Proofs](#5-proofs)
6. [Disagreements found](#6-disagreements-found)
7. [What is not modelled](#7-what-is-not-modelled)
8. [Plan](#8-plan)
9. [Running it](#9-running-it)

## 1. The system

The chip is a set of blocks on a Wishbone bus. Two hosts outside the core
configure it: a terminal on a serial line and an SPI master. They meet in the
host bridge and reach the interconnect through a clock crossing. Cores and
caches are the other masters of the interconnect. Behind it sit the QSPI
memory controller, the serial block (UART, I2C, USB, SPI) and the pinmux block
with its small peripherals.

    terminal -- uart2wb --[async_reg_bus]--+
                                           +-- wb_host --[async_wb]-- wb_interconnect --+-- qspim (submodule)
    SPI master ---- sspis -----------------+      |        (masters 0..3)               +-- uart_i2c_usb_spi
                                             wbh_reg        riscv (submodule) ----------+-- pinmux_top
                                                                                        +-- wbi_reg

What each part keeps, what it does, with whom it interacts, and what makes it
correct. "M" is modelled, "m" partly, "-" not yet or not at all.

| | component | state | operations | interacts with | correct when | what is hard |
|-|-|-|-|-|-|-|
| M | `wb_interconnect/src/wb_arb.sv` arbiter | grant register | move the grant when the holder does not request | instantiated in each slave port, at the interconnect's registers and in `wb_host` | a transfer keeps its grant; who waits is served | search order is fixed and differs per grant |
| M | `lib/async_fifo.sv` dual-clock FIFO | memory, two pointers, their Gray codes, four synchronizer stages | write, read, synchronize | two unrelated clocks | it is a queue; flags err on the safe side | a flop samples a moving pointer; flags lag |
| M | `lib/sync_fifo2.sv` one-clock FIFO | memory, two pointers | write, read | `sync_wbb` | it is a queue | the wrap at twice the depth |
| M | `lib/sync_wbb.sv` burst bridge | master machine, burst counter, latched command, two FIFOs | store a command, acknowledge, take a response | slave port, slave | no word lost, doubled or reordered | every enable is decided a cycle before it acts |
| M | `wb_interconnect/src/wb_slave_port.sv` slave port | arbiter and bridge | one transfer at a time for up to four masters | masters, slave | a read sees the acknowledged writes of everybody | writes are posted; the grant moves with the last acknowledge |
| M | interconnect registers (`wbi_reg.sv` and the fourth arbiter) | grant, acknowledge, seven registers | read, write | all masters | an acknowledged master had its access done | the answer is wired to several masters |
| M | `lib/async_wb.sv` two-clock bridge | pending flag, two dual-clock FIFOs | post a write, hold a read until its word | `wb_host`, `usb1_host` | one answer per read, the right one | a host may give up |
| m | `wb_host` host bridge and `wbh_reg.sv` | grant, registered strobe and answer, bank register | pass an access to the chip or to its own registers | both hosts, interconnect | each access done once, at the bank that was set | strobe and answer are late by a cycle |
| M | `lib/async_reg_bus.sv` register bus crossing | two machines, a flag and two flops each way, a timer | ask, serve, answer, time out | `uart2wb`, `usb1b_device` | served once, answered once, inputs stable | data cross without flops |
| m | `uart2wb` UART host | interpreter state, address, data, lanes, burst count | `wm`, `rm`, `br` lines | terminal, host bridge | the line does what it says | an interpreter state per character, each with its own leftovers |
| - | `sspis` SPI slave host | shift registers, bit count, machine | command, address, data and wait phases | SPI master, host bridge | each frame is one access | the wait is eight serial clocks, whatever the bus does |
| - | `wbh_reset_fsm.sv`, `strap_ctrl.sv` | sequence state, counter, sticky straps | power-up sequence, soft reboot | everything's reset and clock | one reboot per request, clocks before resets | the request lives in another clock domain |
| - | `lib/src_clk_gate.sv`, `lib/clk_ctl.v`, PLL, skew | idle history, dividers | gate, divide | blocks | no edge lost by an active block | idle is seen a clock late |
| m | `pinmux_top.sv`, `glbl_reg.sv`, `glbl_cfg.sv`, `pinmux.sv` | configuration, block select | decode a register access | small peripherals | an acknowledge comes from the selected block | selection is latched |
| M | `semaphore_reg.sv` | fifteen lock bits | read takes, write toggles | software on several cores | a lock has one owner | release of a free lock takes it |
| m | GPIO (`gpio/src`): interrupt path | edge detector, status | set and clear status | pads, software | no event lost | clear in the clock of the event |
| m | `ws281x`, `sm_ctrl`, `fpu_wrapper` | see below | see below | programs | see below | see below |
| - | timers, PWM, `nec_ir`, `dig2ana`, `peri_top` | counters, FIFOs | count, reload | pads, software | no event lost | reload in the cycle of the event |
| m | `lib/sync_fifo.sv`; not `lib/sync_fifo_occ.sv` | pointers, flags or occupancy | write, read | `ws281x`; `nec_ir`, `usb1b_device` | it is a queue | both sides at a limit at once |
| - | `uart`, `uart2_core.sv`, `uart_auto_det.sv` | bit machines, FIFOs, measured rate | receive, transmit, detect | line, register bus | what is sent is what is received | start in the middle of a character; parity |
| m | wrapper `uart_i2c_usb_spi` | - | decode, choose the acknowledge | its blocks | the named block answers | acknowledges of two blocks |
| - | `i2cm`, `sspim` | byte and bit machines | transfers | buses, registers | a command is done once | lost arbitration |
| - | `usb1_host`, `usb1_device`, `usb1b_device` | packet machines | transactions | bus, register bus | protocol | vendored cores |
| - | `openframe_project_wrapper.v`, `digital_core.sv`, pads, memories, repeaters | - | wiring | - | - | - |
| - | RISC-V, QSPI, AES, FPU cores | - | - | masters and slaves | - | submodules, not in the tree |

The hard behaviours of the fabric are therefore: clocks that are unrelated,
registered enables that act a cycle after they were decided, acknowledges
given before the work is done, arbitration in the middle of traffic, hosts
that give up, and timers. `PROJECT.json` lists them one by one at their lines,
with the properties that would catch them going wrong, and the ones no
property covers yet with the reason.

### Software

| | component | state | operations | interacts with | correct when | what is hard |
|-|-|-|-|-|-|-|
| M | `common/firmware/common_bthread.c`, `crt.S`, `user_mcore_test1` | flags, functions and arguments of the threads | spawn, work, join | worker cores | each job is done once, a join means done | no lock; boots that clear the arrays |
| M | `user_mcore_test2`, `arduino_mcore_test` | program counters, mailbox | take the lock, print, release | `semaphore_reg.sv`, UART | messages are whole | the lock is taken by a read |
| M | `common/firmware/sc_print.c` | format, buffer | print, flush | UART | a call prints what it means | nobody looks whether the UART has room |
| M | `user_fpu_core`, `user_aes_core`, `fpu_wrapper/src/fpu_reg.sv` | operands, request, result | write, request, poll, compare | coprocessor | own results, a true verdict | a poll in the clock of the end |
| M | `user_uart`, `user_uart1`, `user_uart_master`, `user_cpu_clkgate`, `arduino_multi_serial` | a byte in hand | receive, send, sleep | UARTs, timer | what was taken is sent, in order | sleep races with interrupts |
| M | `user_rtc/pli_rtc.c` | calendar time | check a call, set, step | simulator, C library | the right date and time | ends of months and years; what is checked before and read after |
| M | `arduino_tcm_test` | position, verdict | write, compare | memory | passes exactly a good memory | a fault once seen must stay seen |
| M | `user_sram_exec`, `user_cache_bypass` | pointers, array, marks | copy code, call the copy, say the end | test bench, which polls | runs what it copied; marks precede the end | the copy's last half word; a boot shown only until the end |
| M | `ws281x/src`, `lib/sync_fifo.sv`, `arduino_ws281x` | registers, FIFO and driver per port | enable, write, load, shift | LED chains | each word once, in order | a full FIFO holds the bus; one that is empty between two words makes the driver begin anew |
| M | the register headers `int_reg_map.h`, `ext_reg_map.h` | names | access by name | address decode, block select | the named register answers | the selection of the access before |
| M | `arduino_gpio_intr`, `arduino_timer_intr` | counters | attach, handle | GPIO, global status, timers | every edge is served | an edge while status is cleared |
| M | `arduino_line_follower`, `arduino_switchCase2`, `arduino_digital_port_control`, `arduino_arrays`, `arduino_gpio_input` | pins | write pins, read sensors, report | sensors, terminal, potentiometer | outputs follow inputs | inputs that change within a pass |
| M | `arduino_i2c_wr_rd`, `arduino_i2c_scaner` | position | write, read back, scan | two-wire memories | what is read was written | results of transmissions are ignored |
| M | `step_motor_controller`, `sm_ctrl/src/sm_ctrl.sv` | registers, sequencer | start, wait | motor | counted steps, the wait ends | the strobe is two clocks behind the step |
| M | `common/vpi/jtag`, `common/bfm/bfm_jtag.v` | descriptors, packet buffer | serve, decode, scan, answer | OpenOCD over a socket | commands in order, scans answered | packets in pieces, clients that leave |
| - | other sketches and programs | - | prints and register writes in a straight line | - | - | - |

## 2. The modules

### How hardware becomes actions

A register is a variable with the code's name; a wire is an operator of the
same name. An edge of a clock is one action which sets every register of that
clock from the values before the edge, as non-blocking assignments do. Between
two unrelated clocks there are three actions: an edge of one, an edge of the
other, and both in the same instant. In the last one a flop that samples a
signal of the other domain while it moves takes the old or the new value, bit
by bit; this is how metastability is settled after one flop, and what the
second flop is for. Nothing is assumed about the ratio of two clocks. Where
one component drives another, the ports are parameters of operators (records
`[stb, we, ...]`), so that composition is function application and not a
second copy. Byte enables, addresses and error bits that only travel along
with data are left out, except where a property is about them (the UART's
lanes). History variables are marked as such where they are declared. A model
begins when reset is over.

| module | code | what it is |
|-|-|-|
| `WbArb` | `wb_arb.sv` | grant, next-state logic; requests are the environment: one that is not granted stays, unless its master is in `Impatient` |
| `WbArbHistory` | the same | counts how often a waiting master is passed by |
| `FifoPtr` | `sync_fifo2.sv`, `async_fifo.sv` | pointer arithmetic modulo twice the depth |
| `BoundedFifo` | - | abstract: a bounded queue |
| `LaggedFifo` | - | abstract: a queue whose two sides know of each other's doings two flops late |
| `AsyncFifo`, `AsyncFifoGrey` | `async_fifo.sv` | the FIFO down to the bits of its Gray codes; the facts about the code for every depth the parameter allows |
| `SyncFifo2` | `sync_fifo2.sv` | the one-clock FIFO |
| `SyncWbb` | `sync_wbb.sv` | the burst bridge; its FIFOs are sequences, which `SyncFifo2` implements |
| `WbSlavePort` | `wb_slave_port.sv` | `WbArb` + `SyncWbb` between masters and a slave with a memory |
| `WbiPort` | `wb_interconnect.sv`, `wbi_reg.sv` | `WbArb` in front of the registers, where there is no bridge |
| `AsyncWb` | `async_wb.sv` | the two-clock bridge; its FIFOs are `LaggedFifo`, which `AsyncFifo` implements |
| `WbHost` | `wb_host.sv`, `wbh_reg.sv` | `WbArb` + registered strobe and answer + bank register + `AsyncWb` |
| `RegAccess` | - | abstract: an access is asked for, served, answered |
| `AsyncRegBus` | `async_reg_bus.sv` | the four-phase handshake; the timer is a choice when it ends |
| `UartMsgHandler` | `uart_msg_handler.v` | the interpreter, one disjunct per state; a word is eight digits |
| `UartHost`, `MCUartHost` | `uart2wb.sv`, `wb_host.sv` | interpreter + `AsyncRegBus` + arbiter and answers of the host bridge + memory, with a terminal |
| `Image` | the program memory | which program a behaviour runs |
| `SemaphoreReg`, `McorePrint` | `semaphore_reg.sv`, `user_mcore_test2.c`, `arduino_mcore_test.ino.cpp` | the locks clock by clock; cores that print under one of them, access by access |
| `Bthread` | `common_bthread.c`, `crt.S`, `user_mcore_test1.c` | threads, one load or store per step |
| `Coprocessor` | `user_fpu_core.c`, `user_aes_core.c`, `fpu_reg.sv` | program and register block clock by clock, an engine that may be broken |
| `Console` | `sc_print.c` | a call of `sc_printf`, character by character |
| `RtcTask` | `pli_rtc.c` | check and calls of the system function |
| `TcmTest` | `arduino_tcm_test.ino.cpp`, `user_sram_exec.c`, `user_cache_bypass.c` | the memory test over memories with a fault; programs that run from a copy, and the test bench's waits |
| `Ws281x` | `ws281x/src`, `sync_fifo.sv`, `arduino_ws281x.ino.cpp` | register file, FIFO and driver, and the sketch that feeds them |
| `Loopback` | `user_uart*.c`, `user_cpu_clkgate.c`, `arduino_multi_serial.ino.cpp` | the programs that send back |
| `RegisterMap` | the register headers, `wb_host.sv`, `wb_interconnect.sv`, `pinmux_top.sv`, `uart_i2c_usb_spi.sv` | from a name to the register that answers |
| `Interrupts` | `gpio_intr.sv`, `gpio_reg.sv`, `glbl_reg.sv`, two sketches | from an edge to the handler |
| `Sketches`, `PinReport` | five sketches of pins | statement by statement, while the inputs change |
| `WireSketches` | two sketches of the two-wire bus, `i2c_slave_model.v` | transmissions that may be cut |
| `StepMotor` | `sm_ctrl.sv`, `step_motor_controller.c` | registers and sequencer clock by clock, and the program |
| `CommandChannel` | - | abstract: commands are taken in the order in which they were sent |
| `JtagServer`, `JtagVpi` | `jtag_common.c`, `jtag_vpi.c`, `bfm_jtag.v` | sockets and packets; system tasks, command loop and clients |
| `MCFirmware` | - | all the programs in one specification, and their bounds |
| `FifoPtrProofs`, `SyncFifo2Proofs`, `AsyncFifoProofs` | - | the pointers' arithmetic, and that the FIFOs are the queues the larger models take them for |
| `WbArbProofs`, `WbSlavePortProofs` | - | the arbiter, the port to the interconnect's registers; the slave port with its burst bridge |
| `WbHostProofs`, `UartHostProofs` | - | the host bridge with its two-clock bridge; the register bus under the UART host |
| `FirmwareProofs` | - | the programs: each alone, and all in one specification |

How they build on one another:

    BoundedFifo <== AsyncFifo ==> LaggedFifo --> AsyncWb --> WbHost --+
    BoundedFifo <== SyncFifo2       (queues) --> SyncWbb --> WbSlavePort
    RegAccess   <== AsyncRegBus ------------------> UartHost       WbArb --> WbHost, WbSlavePort, WbiPort, UartHost
                    UartMsgHandler ---------------> UartHost

`==>` and `<==` are checked, and proved, refinements; `-->` is composition.
The two FIFOs are replaced by their specifications in the larger models: this
is what keeps those small, and the proofs are what justifies it for every
depth.

`ArbiterUsed` is the converse obligation: the slave port's requests behave as
`WbArb` supposes of its requesters, so that what is proved of the arbiter may
be used there.

### One specification for all programs

The chip runs one program at a time, the one the test puts in its memory.
`MCFirmware` composes the modules of the programs in that way: `image` names
the program, each `...Next` is enabled only for its own image, and the
variables of the others stand still (`...Rest`). A behaviour is thus a
behaviour of exactly one program with its blocks, all programs are explored by
one run, and a property of a program constrains only its own behaviours. A
program that is not loaded has one initial state, so that the parts are added
and not multiplied. Each module has a specification of its own
(`PrintSpec`, `ThreadSpec`, ...). That nothing is lost by the composition is
the theorem `EachRunsAlone`: a behaviour of all the programs is one of each of
them, so what is proved of a program alone holds of the whole.

Software and hardware meet at the grain at which they can disturb each other:
a load or a store where cores share memory (`Bthread`), a bus access where
they share a block (`McorePrint`, `Loopback`), a clock where a block changes
under an access (`Coprocessor`, `Ws281x`, `StepMotor`, `RegisterMap`,
`Interrupts`), a statement where only pins and lines are shared (`Sketches`,
`PinReport`, `WireSketches`).

### Simplifications to know about

- `WbHost`: the chip behind the bridge is one word per bank. What the bank
  register does to addresses is thereby visible; addresses within a bank are
  left out. Of `wbh_reg.sv` there is the bank register; the others set clock
  ratios and the like.
- `UartHost`: the answer of the chip is a memory that answers in any later
  cycle. `AsyncWb` in between would only be one more reason for the delay. The
  serial receiver and transmitter, the rate and its detection are left out: a
  character arrives as a whole and a message is sent when the choice `over`
  says so. The terminal waits with a character until the interpreter accepts
  one; characters that arrive during an access are lost by the code
  (`uart_msg_handler.v:134`), and nothing is claimed about a terminal that
  types on.
- `UartHost`'s lines end with a line break and are well formed, which
  `CommandsAssumption` spells out: an address and a size of one digit, data of
  whole bytes that fit in the word they begin in, every word within the
  memory. A line that begins with a space meets what the line before left
  behind (section 7).
- `WbiPort`: the writable registers are a function; the status register is
  left out.
- `WbSlavePort`: master 0's bursts have one word and master 3's data are zero,
  as the port ties them (`wb_slave_port.sv:167`, `:194`); each may read and
  write.
- `Ws281x`: the two ports of the block that have a FIFO; the sketch also
  enables ports 2 and 3, which it does not write to. From an acknowledge to
  the sketch's next access any number of clocks may pass. When a FIFO runs
  empty the driver pulls the line low for the reset period
  (`ws281x_driver.sv:89`), and the chain takes what follows for a new frame:
  the words still come once and in order, and no more is claimed.
- `Interrupts`: the dispatcher belongs to the board package, which is not in
  the tree. It is assumed to clear the interrupt, in the block and then in the
  global status, before it calls the handler; this is the order in which
  `user_cpu_clkgate.c:51` serves its own. With the opposite order an edge that
  comes during the handler would be cleared with the one being served, so
  `EdgesServed` rests on this assumption.
- `JtagVpi`: a scan that is longer than the array of `jtag_vpi.c:170` is
  carried out and not answered; `ScansAnswered` promises an answer to the
  others, and of this one that the simulation goes on polling. A client that
  waits for it waits for ever. Of a mode sequence whose bits fill its last
  byte `bfm_jtag.v:201` loses that byte; `ScansRight` is about scans.
- `Bthread`: the job is the range of elements it writes; the sums and the
  argument record that travels by pointer are left out. Nothing in the code
  keeps a core from booting after the first spawn; then its start-up code
  clears the arrays (`crt.S:53`). The properties say so (`late`).
- `Coprocessor`, `Loopback`, `Interrupts`: engines, UARTs and timers whose RTL
  is absent or not modelled are environments that finish, send or fire at any
  time. A UART drops a character that finds it full.
- `Console`: `%f` (`sc_print.c:250`), long arguments and negative widths are
  left out. The program's buffer has room for one character at least
  (`BufferAssumption`).
- `RtcTask`: `%b` of the answer's last part is the part of `str` that was
  written; `pli_rtc.c:246` reads a byte more, which is not initialised, when
  the command is none of the three.
  `BenchAssumption` is what the task needs of its bench: a constant argument is
  what it was when it was checked, and the clock is set to a time that there
  is, before the year 8000; beyond it an `int` does not hold the answers.
- `RegisterMap`: of a register there is its block and its number. The programs
  make the accesses of `AskAssumption`: to registers the headers name, to the
  bank register, or a block of the cipher's words. The names of
  the pulse-width block are older than the block, which has four registers for
  each channel; of them nothing is claimed.
- `TcmTest`: a half word that was stored as data is fetched as code by a
  processor that is not in the tree; that the fetch sees the store is assumed.
  The mail box shows the boot only until the program's end overwrites it
  (`user_tasks.sv:439`): a bench that looks too seldom waits for ever, and
  nothing is claimed of it.
- `Sketches`: a pass of the line follower that is under way when a sensor
  changes may leave a wheel in the state of before; `MotorsFollow` is
  therefore stated for the second pass on. The buzzer's `~BuzzerValue`
  (`arduino_line_follower.ino.cpp:90`) is -1 and then 0, as C has it.
- `WireSketches`: the scan of `arduino_i2c_scaner` ends at 31 while its
  comments (lines 21 and 27) speak of 127; the model scans what the code does.
- `WbSlavePort`'s slave acknowledges a word at the earliest a cycle after it
  saw strobe and burst ready, which is how the slaves under `verilog/rtl` do
  it.

## 3. The runs

| run | module, configuration | properties | shows |
|-|-|-|-|
| `async_fifo` | `AsyncFifoGrey`, `AsyncFifo.cfg` | `FlagsConservative`, `FifoSpec`, `LaggedSpec`, `FlagsCatchUp` | the FIFO is a queue under every interleaving of two clocks and every bit a flop may catch; its flags err on the safe side and become true in the end |
| `slave_port` | `WbSlavePort`, `WbSlavePort.cfg` | `SlavePortInv` (`TypeOK`, `NoOverflow`), `MemoryCoherent` (`ReadsSeeWrites`, `PostedWritesLand`), `TransferKeepsGrant`, `ArbiterUsed`, `TransfersEnd` | two masters' bursts through arbiter and bridge never lose, double or reorder a word |
| `wbi_port` | `WbiPort`, `WbiPort.cfg` | `PortInv` (`PortTypeOK`, `GrantedIsServed`), `BoundedOvertaking`, `ChangesAreAcked`, `LowMastersServed` | four masters at arbiter and registers: the granted one is served properly, a register changes once for an acknowledged write, masters 0 and 1 are overtaken at most once, and served unless another master never lets its request down |
| `wbi_port_shared` | `WbiPort`, `WbiPortShared.cfg` | `AckedWasDone` (violated) | section 6 |
| `host_bridge` | `WbHost`, `WbHost.cfg` | `HostInv` (`TypeOK`, `OneResponse`, `AckedOnce`), `AnswersRight`, `WriteFeedsThrough`, `HostsAnswered` | reads see both hosts' acknowledged writes in the bank that was set, although writes are still posted when the bank changes; both hosts are always answered |
| `host_bridge_abandon` | `WbHost`, `WbHostAbandon.cfg` | `WriteFeedsThrough` (violated) | section 6 |
| `uart_host` | `MCUartHost`, `UartHost.cfg` | `LinesRight` (`TypeOK`, `LineDone`), `ReadDataHeld`, `RegAccessSpec`, `AccessStable`, `LinesEnd` | three lines in a row do to the memory, and show of it, what they say |
| `uart_host_timeout` | `MCUartHost`, `UartHostTimeout.cfg` | `LinesEnd` | with the timer a line ends even if the chip never answers |
| `uart_host_shared` | `MCUartHost`, `UartHostShared.cfg` | `ReadDataHeld` (violated) | section 6 |
| `uart_host_restart` | `MCUartHost`, `UartHostRestart.cfg` | `TimeoutTerminates` (violated) | section 6 |
| `firmware` | `MCFirmware`, `Firmware.cfg` | see below | every program does what it is for, with the blocks it drives |
| `motor` | `StepMotor`, `Motor.cfg` | `WaitEndsMoving` (violated) | section 6 |

A property in front of parentheses is the conjunction of those in them, which
are stated, and say what code they are about, at their own definitions.

The run `firmware`, by program:

| image | module | properties | shows |
|-|-|-|-|
| `print` | `McorePrint` | `MutualExclusion`, `LinesWhole`, `AllPrinted` | three cores print whole messages under a lock that is taken by reading it, and all of them get there |
| `threads` | `Bthread` | `JobsRight`, `JoinMeansDone`, `ProgramEnds` | jobs are done once, joins mean done, refused spawns leave nothing behind |
| `coprocessor` | `Coprocessor` | `ResultIsOwn`, `VerdictRight`, `CoprocessorTestEnds` | no result of the operation before is taken, the verdict is good exactly for a good engine |
| `console` | `Console` | `PrintsItsMeaning`, `BufferKept` | a call prints what C says, through a buffer smaller than the text |
| `rtc` | `RtcTask` | `ClockRight`, `ArgumentsThere` | dates and times over the ends of months, years and leap years; a checked call finds its arguments |
| `tcm` | `TcmTest` | `MemoryVerdict` | the test passes exactly the memories without a fault it can see |
| `copied` | `TcmTest` | `CopyRuns`, `CopyTestEnds` | code that was copied runs whole, the marks are there when the end is said, and a bench that saw the boot sees the end |
| `leds` | `Ws281x` | `WordsInOrder`, `AllWordsSent` | each word once and in order, whether the sketch is faster than the line (a full FIFO holds the bus) or slower (the driver finds it empty and begins anew) |
| `loopback` | `Loopback` | `EchoInOrder`, `EchoComes` | what was taken is sent back in order and in the end, also by the core that sleeps |
| `registers` | `RegisterMap` | `AnswerIsNamed`, `AccessesEnd`, `BytesInBlock` | every name of the headers after one of each kind is answered by its own register, within four clocks |
| `interrupts` | `Interrupts` | `EdgesServed`, `TimersStop` | every edge is followed by its handler; a timer is stopped in time |
| `follower`, `switch`, `potentiometer`, `arrays` | `Sketches` | `MotorsFollow`, `LedsFollowText`, `WiperSteps`, `OneLit` | pins follow sensors and text, the wipers go step by step, one light runs along the array |
| `inputs` | `PinReport` | `EdgesTellLevel`, `ReportsComeToRest` | reports of a pin alternate with its edges, and end where they should |
| `i2c_wr_rd`, `i2c_scan` | `WireSketches` | `ReadBack`, `ScanRight` | what is read is what was written; the scan finds what is there |
| `motor` | `StepMotor` | `CountedSteps`, `MotorEnds` | one step more than the count, and the wait ends |
| `jtag` | `JtagServer`, `JtagVpi` | `JtagTypeOK`, `AnswersOwnScan`, `NoDescriptorLost`, `ScansWhole`, `CommandsInOrder`, `ScansAnswered` | commands from packets in pieces in order, answers to their scans, no descriptor left open |

The configuration names some of these properties as they are and joins the
others by what they ask, whatever the program: `TestsTellTruth`
(`ResultIsOwn`, `VerdictRight`, `MemoryVerdict`, `CopyRuns`), `ConsoleRight`
(`PrintsItsMeaning`, `BufferKept`), `ReferenceClockRight` (`ClockRight`,
`ArgumentsThere`), `StreamsInOrder` (`LinesWhole`, `WordsInOrder`,
`EchoInOrder`), `RegistersRight` (`AnswerIsNamed`, `BytesInBlock`,
`AccessesEnd`), `PinsFollow` (`MotorsFollow`, `LedsFollowText`,
`EdgesTellLevel`, `OneLit`), `WireRight` (`ReadBack`, `ScanRight`),
`CountsHold` (`CountedSteps`, `TimersStop`), `ScansRight` (`JtagTypeOK`,
`AnswersOwnScan`, `ScansWhole`); of liveness, `ProgramsEnd` (`ProgramEnds`,
`CoprocessorTestEnds`, `CopyTestEnds`, `MotorEnds`, `ReportsComeToRest`) and
`AllServed` (`AllPrinted`, `AllWordsSent`, `EchoComes`, `EdgesServed`,
`ScansAnswered`). The parts speak of different images, so that a conjunction
is no weaker than its parts: it fails exactly when one of them does.

Each property of a passing run has mutants in `PROJECT.json`, a conjunction
one for most of its parts: a definition of the model changed as a plausible
slip in the code would change it, under which TLC finds the property violated.
The mutated forms stand next to the definitions they replace.

### Bounds, and why they are enough

- `AsyncFifo.cfg`: depth 4, the depth of most instances, with every relative
  position of pointers that count to 8; two words tell any two neighbours
  apart. Other depths are the proofs' business.
- `WbSlavePort.cfg`: FIFOs of depth 2 instead of 4, so that bursts of
  `MaxBurst = 3` are longer than a FIFO and every limit (full, one left, one
  on the way) is reached within a burst. Master 0 cannot burst and is always
  ready, master 1 can do everything; masters 2 and 3 add nothing to them but
  the order of arbitration, which `wbi_port` covers with all four.
- `WbiPort.cfg`: all four masters, each of which may withdraw a request that
  is not granted, and one register, which the masters write with a word other
  than its reset value: the hazard is who is acknowledged, not which register,
  and a read shows on which side of the first write it was. The proof has any
  registers and words. `CountBound = 2` ends the counts of overtakings one above
  what `BoundedOvertaking` allows.
- `WbHost.cfg`: `CmdDepth = 3` instead of 4. The bridge never uses the last
  place of its FIFO, so that two posted commands fit, which is what it takes
  to have one posted before and one after a change of the bank. Only the SPI
  host accesses the bank. The other two configurations have depth 4, both
  hosts at everything and one word, for what depends on no word.
- `UartHost*.cfg`: an address space of 16 bytes, so that four words are
  reached with one-digit addresses and bursts, and bursts wrap into
  neighbours. Seven lines: two whole words with a partial one after, parts at
  every kind of offset, reads of aligned and unaligned addresses, read bursts
  of two and three; three in a row, so that what a line leaves behind meets
  two others. Where only the handshake matters there is a write and a read
  (`MCReads`).

`Firmware.cfg`, by program; what is smaller than in the code is smaller so
that its limit is reached:

- `print`: three cores (two cannot overtake each other twice), two messages of
  two characters, a UART with room for one character, so that it is full while
  another core polls it.
- `threads`: two workers, four elements, three programs of the master: the one
  of the test, one with two workers at work and a second job before and after
  a join, and one with the errors of spawn and join.
- `coprocessor`: all operations of both programs in their order, with the
  engine that is good and ones that fail at any set of the results.
- `console`: every pair of thirteen pieces, which are chosen to meet every
  branch of the interpreter of formats; a buffer of 5 instead of 64, so that
  it is flushed in the middle of a piece; a UART with room for 3.
- `rtc`: from the ends of a month, a year, a leap and a centennial February,
  every sequence of up to four steps of a second or a day, and every call with
  an argument missing, too many or of the wrong type.
- `tcm`: a good memory, one with each address line stuck, one whose byte
  enables are ignored, one whose halves are exchanged; two characters of the
  verdict's line.
- `copied`: a routine of four half words: its two marks, one between, its
  return.
- `leds`: two pairs of periods, four LEDs in words of two bits, which is more
  than the FIFO holds while a word is shifted.
- `loopback`: FIFOs of two characters, and up to four that arrive at each
  port: as many as receiver and transmitter together can keep, so that both
  are full.
- `registers`: every name of the two headers after one name of each kind, so
  that every selection meets every selection of the access before.
- `interrupts`: two pins, three changes, two timers with different limits: an
  edge during a handler, and one while the status is being cleared.
- `follower`, `switch`, `potentiometer`, `inputs`: every state of the sensors
  at every statement; three characters; the wiper in its full size of six
  channels and 64 levels; three rows of the report and six changes of their
  levels, on average two for each.
- `i2c_wr_rd`, `i2c_scan`: one transmission cut at any place; every subset of
  four addresses, in the middle of the scan, where its printing changes, at
  its end and beyond (9, 16, 31, 40).
- `motor`: movements of 0 to 3 counts, with and without a period, one
  backwards and one that lets the motor free.
- `jtag`: packets of 3 bytes instead of 1036, so that a packet comes in up to
  three pieces; three descriptors, two clients one after the other, two
  commands, scans of up to 3 bits in words of 2, so that a scan has a whole
  word and a part of one.

## 4. Fairness

Every liveness property is checked under a named `Fairness`.

- Clocks run: weak fairness of an edge of each clock (an edge of both counts
  for both). Gating and dividing slow clocks down but the code does not stop a
  clock for a bus that is in use.
- A slave, or the chip, does not leave its strobe unanswered for ever. It is
  stated as `[]<>ack \/ []<>~asked`, so that it constrains only one that is
  being asked. The `ws281x` register block breaks this when its FIFO is full
  (a listed hazard).
- A granted master of the slave port is not for ever unready for a word
  (`MasterMayGo`). At the interconnect's registers nothing is assumed of the
  masters: the block answers the one that has the grant, and the end of its
  transfer is derived. The grant stays with a master as long as its request is
  up (`wb_arb.sv:110`), and a master may put up its next access with the
  acknowledge of the last; one that does so for ever keeps everybody else out.
  `LowMastersServed` therefore says what the code does give: masters 0 and 1
  are served unless another one is parked on the grant for ever. The only
  fairness is that the clock ticks (`FairPortSpec`).
- `UartHost`: with `Slow`, the chip need not answer at all; instead the
  nine-bit timer, which counts while the initiator waits, comes to its end
  (`Expiry`).
- `UartHost`: the terminal types the line it began, and messages are sent.
  This is part of the weak fairness of the line's clock. In a state where the
  crossing has come to rest, an edge at which the terminal types nothing, or a
  message is not over, changes nothing; it is a stutter, which does not count
  for the fairness of `<<LineClock \/ BothClocks>>_vars`. For the same reason
  the two liveness runs leave the SPI master out: its accesses would change
  the chip's side at edges of both clocks for ever, which would count as steps
  of the line's clock although nothing happened on the line.
- Programs (`ProgramFairness`, `BlockFairness`): processors and clocks go on,
  and a UART sends what it has. A core that wants the bus gets it in the end,
  which is strong fairness of its steps, since another core may have the bus
  whenever one looks. This is an assumption: the cores share the data port of
  the processor cluster, whose choice among them is not in the tree. Engines
  finish, timers fire, the pulse width block has its periods (`SF` of
  `pwmStart`). The LED sketch comes to its next store in the end
  (`LedProgram`), after any number of clocks. Of the JTAG simulation it is assumed that it polls, and of a
  client that it takes its answer off the socket; nothing makes a client send.

## 5. Proofs

Every theorem holds for all values of the constants that satisfy the named
assumptions. The shape is always the same: an inductive invariant, that it
holds initially, that each kind of edge keeps it, and that it implies what is
claimed.

| module | theorems | for |
|-|-|-|
| `WbArbProofs` | `HTypeCorrect`, `BoundedOvertakingHolds` | every set of wired masters and every set of impatient ones |
| `FifoPtrProofs` | lemmas on pointers: the fill count moves by one, the words between two pointers gain one at the end (`BetweenPut`) or lose one at the front (`BetweenGet`) | every depth the Gray arithmetic allows: the powers of two from 2 to 256 |
| `SyncFifo2Proofs` | `FifoRefinement` (to `BoundedFifo`) | those depths, every set of words |
| `AsyncFifoProofs` | `TypeCorrect`, `FlagsConservativeHolds`, `FifoRefinement` (to `BoundedFifo`), `LaggedRefinement` (to `LaggedFifo`) | those depths, every set of words, every relation of the clocks |
| `UartHostProofs` | `TypeCorrect` | every set of well-formed lines, every address space, both hosts, with the timer |
| `UartHostProofs`, the crossing | `AccessRefinement` (to `RegAccess`), `AccessStableHolds`, `ReadDataHeldHolds` | the same, while the timer does not end (`~Slow`); the last one with the UART as the only host (`~SpiActive`) |
| `UartHostProofs`, the lines | `LinesAreRight` | the same, `~Slow` and `~SpiActive` |
| `WbArbProofs`, second part | `PortServesTheGranted`, `RegistersChangeOnce` | every set of masters, registers and words, whatever the masters put up and withdraw |
| `WbSlavePortProofs` | `BridgeNeverOverflows`, `PostedWritesCoherent`, `GrantKept`, `PortUsesArbiter` | every depth from two on, every set of masters, every longest burst, every set of words |
| `WbHostProofs` | `BridgeHolds`; `ReadsRight`, `WritesFeedThrough` | every depth of the command FIFO from two on, all users, banks and words, every relation of the clocks; the last two for hosts that wait for their answer (`Impatient = {}`) |
| `FirmwareProofs`: composition | `EachRunsAlone` | the specifications of fifteen of the programs |
| JTAG server | `CommandsInOrderHolds` (to `CommandChannel`), `NoDescriptorLostHolds`, `ScansAreRight` | every size of a packet, every set of descriptors, commands and clients |
| cores that print | `Excludes`, `StreamsComeWhole` | every number of cores, messages and characters, every depth of the UART |
| bare threads | `JobsAreRight`, `JoinsAreDone` | every set of workers and elements, every program of the master |
| LED sketch, programs that send back | `StreamsComeWhole` | every number of ports, words and characters, every depth of the UARTs |
| motor, timers | `CountsAreHeld` | every set of movements, every limit of a timer |
| sketches of pins | `PinsTell`, `WipersGoByOne` | every number of typed characters, channels, steps and changes of a level |
| coprocessors, memory test, copies | `TestsAreTruthful` | every set of broken units and of mismatching bytes, every fault of the memory, every length of the routine that is copied |
| two-wire sketches | `WiresTell` | every set of devices, every failure of a transmission |
| reference clock | `ClockTells` | every bench with `BenchAssumption` |
| register headers | `RegistersAnswer` | every set of accesses with `AskAssumption`, every bank |
| console | `BufferIsKept` | every text, every buffer of at least one character |

**Arbiter.** That a master is overtaken at most once is not inductive: one
that was overtaken once could be overtaken again, if nothing were known of who
has the grant. The invariant (`OvertakenBy`) adds where the grant is once a
waiting master has been passed by: with the one master whose search looks at
it first. The proof looks at the search order once (`WhoOvertakes`).

**Dual-clock FIFO.** Pointers are numbers modulo twice the depth, and what
each side knows of the other is up to two flops and a Gray code old. The
invariant (`PtrInv`) says that the copies of each pointer lie in the order of
their age, none further apart than the depth (`InOrder`). Bounds on the
youngest copies alone are what the flags need, but they would not survive an
edge: the next copy comes from the older one. A flop that samples while the
pointer moves catches each bit old or new; since only one bit of the code
differs, what it catches is the code of the old or of the new pointer
(`CaughtMoving`), and no third one. The fact about the code itself (one bit
changes, and `grey2bin` undoes `bin2grey`) is arithmetic on xor over at most
nine bits: it is the assumption `GreyAssumption` of `AsyncFifoGrey`, which TLC
evaluates for all the depths at the start of the run `async_fifo`. From the
invariant each edge is a step of the queue, and of the lagging queue with the
ages as what each side knows.

**One-clock FIFO.** The same lemmas; the invariant is the range of the
registers and that the count does not exceed the depth.

**UART crossing.** The invariant `Handshake` gives, for each state of the
initiator, what the two flags and their flops may be: nothing is up in idle,
both flags rise in order while an access is asked for, both fall in order
while it is dismissed. It is a chain of implications along the four flops, and
this is what makes an edge of both clocks no harder than one of each. `Asking`
ties it to the interpreter: it stays in its sending state until the
acknowledge, so that what crosses without flops does not move. `WordHeld` adds
that the arbiter parks at the UART and the answer's word stays. Both
restrictions are necessary: the runs `uart_host_restart` and
`uart_host_shared` show what happens without them.

**Lines of the UART host.** The invariant (`Course`) follows a line from the
prompt back to the prompt, a stage for each kind of state of the interpreter:
`Naming`, `Addressing`, `Sizing`, `Writing`, `Storing`, `Reading`, `Finished`.
A stage says how far the line is typed and what the registers hold of it. The
meaning of a line would be a fold over its characters, which no theorem can
range over; but the digits of a datum have a closed form, the word with the
first `n` digits (`TypedSoFar`), and so have the memory after the first `d`
data (`Stored`) and the words shown so far (`Shown`). Each step adds one
(`OneMoreTyped`, `OneMoreStored`, `OneMoreShown`), and all of them are what
the command promises (`AllStored`). `Requested` is the arithmetic of the byte
lanes: digits and address together enable the bytes the datum is for.
`Addresses`, `Sizes` and `Data` read characters back as what was typed, and
`Reach` keeps every word within the memory, where the sums do not wrap. What
is between the interpreter and the memory enters at one place: the step in
which an access is served is the only one that changes the memory
(`Answering`; `BusWaits`, `NothingServed` and `ChipRests` are the edges), and
with the acknowledge a read brings the word of its address (`Answered`).

**Slave port.** Every enable of the burst bridge is decided a clock before it
acts, so the state between a decision and its effect is most of the invariant.
`MasterHolds` counts the burst: what is left, what was acknowledged and the
acknowledge that is on its way add up to its length. `SlaveHolds` says that an
answer of the slave is for the first command of the queue, and that this queue
can run empty only in the middle of a burst of writes. For the memory, every
command of the queue is given its place (`Chain`: a burst's words follow one
another, the first where the slave's count stands), and `Latest` says that a
word which no queued write is for is in the memory as the masters believe it,
and that the last queued write of a place carries what they believe. The
places exist rather than being computed, since one would have to recurse along
the queue. A read has to wait behind the writes before it (`ReadHolds`), so
its words are the latest (`WordsRight`). The proof is by the moves of each
side: six of the master's side (`MasterMove`), and the slave's (`SlaveMove`),
which are proved to be all there are. `PortUsesArbiter` is what lets
`BoundedOvertaking` speak about the port.

**Registers of the interconnect.** A request stands until its acknowledge,
which comes in the clock after it was selected; in between neither grant nor
access can change (`AccessKept`), so the acknowledge is for the access that is
still on the lines. The write enable stands in both clocks; in the second the
register already has the word, so it changes once for each acknowledge.

**Host bridge.** Between the two clocks nothing is known of the other side but
what has crossed, and the model of the FIFOs (`LaggedFifo`) says how much that
is. The invariant `Counts` accounts for what has not: words that the reader
does not see yet are in the queue, and the room that the writer does not know
of completes it to its depth. `ReadIsLast` is the heart of `OneResponse`: a
read is the last command, and the answer to the read before it has left
before it is stored. What must be excluded is that the chip's side begins the
read while it still takes the place of the earlier answer for occupied. It
cannot, since news of the room and the read itself cross in the same
direction, two flops each, and the room was there first. All this holds also
when a host gives up. What a read returns does not: with hosts that wait,
`AccessStands` says that a pending read is the access at the lines, `Placed`
that the last write of a bank on its way carries what the hosts believe is
there, and `ReadWords` that a word read is on its way as it was. With a host
that gives up, `WriteFeedsThrough` is false (section 6), which is the
hypothesis of `ReadsRight` and `WritesFeedThrough`.

**JTAG server.** A read of the socket returns as many bytes as there are, up
to what is missing. The invariant (`Placed`) counts: the bytes taken from the
stream are the packets that were handed over, each of `Size` bytes, and the
bytes that wait in `pkt_buf`. What waits is therefore the beginning of the
next command and of no other (`SentByUnique`), and a packet that is complete
is that command, which is a step of `CommandChannel`. The arithmetic is about
a product of two unknowns, which is why its facts are lemmas (`NextPacket`,
`PacketsMonotone`). `OneConnection` and `Descriptors` say who holds each open
descriptor. For the answers of scans `ScanWaits` adds the client's side: one
that waits has sent a scan last and sends nothing behind it, and nothing is on
its way back before all that was sent is done.

**Lock of the printing cores.** That two cores do not print at once is not
inductive without the access in the middle: a core that found the lock free
has not taken it yet when the block has caught the old value for its answer.
`AccessHolds` says that what was caught at the selection is still true at the
acknowledge, because there is one access on the bus; `BootsFirst` that in the
sketch nobody asks for the lock before core 0 has set it free. That the
messages come whole rests on it (`EndsAt`): of a core in the middle of a
message the last character on the line is the one before its next; there is at
most one such core, since it has the lock, and when there is none the line
ends with a whole message. `CountsBegun` counts the messages begun on the
line, which gives their order.

**Bare threads.** The master stores argument, function and flag in this order,
and there is no lock. The invariant says of each worker what it finds in the
arrays at each of its places (`WorkerHolds`), of the master that between its
stores it is at a worker without work (`SpawnHolds`), and that what a worker
has passed of its job is written (`Written`). All of it holds as long as no
core boots after the first spawn (`late`), and so do the theorems: `crt.S`
clears the arrays.

**All programs in one.** A step of the whole is a step of one program while
the variables of the others stand (`PrintStands`, `ThreadStands`, ...), and
the image never changes. `EachRunsAlone` and the theorems on `FairSpec` follow.
The theorems need no fairness; `FairSpec` is what the run checks.

**LED words.** A driver asks its FIFO for a word in the first clock of the
word and takes it in the next; `FifoHolds` says that the word is still there,
and that full and empty are what the pointers' difference says. What was
written, what is in the FIFO and what was loaded are then the words in order.
The sketch is bound only to keep an access on the bus up to its acknowledge;
when it is at the next one does not enter.

**Programs that send back.** For each port, what was accepted is what was sent
on, what waits to be sent, what the program has in hand and what waits to be
read, in this order (`OnItsWay`). `RoomHolds` is why nothing is dropped on the
way: the room a program found is still there when it stores the character, for
only the program fills that queue. The program of `user_uart_master` never
looks for room; there it is the number of characters on their way that fits.

**Motor.** The strobe, the step and the count are a clock apart each, and the
next strobe is further away (`StrobesApart`). So `steps` and what `cycles` has
been counted down by differ by one exactly while the strobe is on its way
(`StepsCount`).

**Timers.** `TimerHolds` bounds the calls that can still come after a timer
was disabled (`Ahead`): the one under way and one pending in the global
status. Neither can be added to once it is disabled.

**Sketches of pins.** A pass of a sketch is a list of statements of which a
rest is left. `From(w, j)` is that rest by its place, and the invariant says
at every place what the pins driven so far in the pass are, by the sensors as
they were when they were read. For the line follower one pass under way with
old values is discounted (`steady`); for the array, that every lighting is
followed by its own darkening, whichever direction the walk has; for the
potentiometer, that the wiper of the channel in turn is at the setting before
(`Before`), and the others have come back to one or were never set. The
report's invariant is the property itself with its types.

**Coprocessors.** `Handshake` says at each place of the program what request,
engine and result are: the operands of the operation are in the registers
before the request, the engine works on them alone, and once the request is
seen down the result is of that operation; at all other times the engine is
idle. `CountsRight` says what of each unit the counters have seen. The count
of mismatches has eight bits, and it is reset between the two functions of the
cipher; that it never wraps to zero (at most 128 come together,
`ComparisonCounts`) is what makes its zero a verdict.

**Memory test.** The order of writes and comparisons is what finds a fault, so
the invariant goes along the steps of the test: which words are still as they
were written (`WordsKept`), that an address line which folds tested words onto
each other has lost the first (`FirstLost`), and what is in word 0 when byte
enables or halves are wrong (`FirstAlike`, `FirstMoved`). `StatusTells` says
at which step the status falls for each fault. What an address line does to
the sixteen tested words is a division by a power of two, a case for each line
(`LineOf`, `CellsApart`, `CellsFolded`).

**Copies.** The half words between the pointers are as they are at the source
(`CopyInv`), so that the copy is whole when it is called; and the marks are
stored in their order (`MarksStored`), the end last.

**Two-wire sketches.** Unless a transmission was cut the memory holds the
bytes of the pass, and its location is the first of them at the read, wherever
the pass before left it (`WireInv`). For the scan: the lines so far are those
of the first addresses (`LinesTell`), and the count is zero exactly if none of
them says "found" (`CountTells`). `PaddedFacts` reads two digits back.

**Reference clock.** The invariant (`ClockKept`) counts days: those of the
task's time are those of the time it was set to, the dates stepped and the
days that the seconds make. That `mktime` keeps the count when it carries a
day over the end of a month or of a year is `ClockGoesOn`; that a year is 365
days longer, and 366 after a leap year, with the divisions by 4, 100 and 400,
is `LeapDays`; of the calendar nothing else is used. The answer is written
with two decimal digits to a byte and read back (`ReadsBack`).

**Register headers.** Two halves. The tables first: an address is a page and
an offset (`PageBits`, `OffsetBits`), the page decides the block and the
offset the register (`PinmuxLeads`, `OtherLeads`), and names in a row of a
header lead to registers in a row (`RegisterPlaces`), so each header is a few
cases and not a list. Then the bus: the selection that `pinmux_top` remembers
from the access before is this access's own by the time a block acknowledges
(`SelectionKept`), and an access waits one clock for its chip select and one
for its block. Under another bank than the one of the reset a host's address
leads elsewhere, where it is answered just as soon (`AccessLeads`).

**Console.** While nothing is flushed there is room for one more character;
during a flush what is stored follows the buffer (`FlushBegins`). Together
with `BufferKept` this is inductive, for any buffer.

### What is only model-checked

- Liveness, which is out of the prover's reach together with `ENABLED`:
  `AllPrinted` and its like in `ProgramsEnd` and `AllServed`, `HostsAnswered`,
  `LowMastersServed` and the others that section 4 is about. The safety parts
  of these programs are proved where the table says so.
- `PrintsItsMeaning`, the other half of `ConsoleRight`: what a format means is
  a fold over its items, and what the printing code does for every format is
  induction over data. `BufferKept`, which does not depend on the meaning, is
  proved.
- Everything about the runs that expect a violation.

No module declares a recursive operator, and no theorem needs induction over
data.

## 6. Disagreements found

Each is a run whose one property states what a comment says, and that TLC
finds violated.

- **An answer goes to everybody who waits** (`wbi_port_shared`). The
  interconnect's registers answer every master whose address decodes to them
  (`wb_interconnect.sv:682`), granted or not. A master that waits there takes
  the acknowledge and the word of another one's access, and its own is never
  done. `:27` says that "3 masters and 3 slaves share bus"; the slave ports do
  qualify the answer with the grant (`wb_slave_port.sv:285`).
- **A read that is given up blocks writes** (`host_bridge_abandon`).
  `PendingRd` (`async_wb.sv:136`) falls only when a response finds its strobe
  still up. The SPI host withdraws a strobe, after eight of its clocks or with
  the chip select; the response is then dropped or answered to somebody else,
  and `PendingRd` can stay. No write is acknowledged any more, although `:144`
  says "For Write is feed through, if there is space in fifo the ack".
- **The word is gone before it is caught** (`uart_host_shared`). The host
  bridge shows the UART its word only while the UART has the grant
  (`wb_host.sv:385`); the register bus catches the word a few line clocks
  after the acknowledge. An SPI access in between makes the UART read zero.
  `async_reg_bus.sv:26` assumes "Ever after out_reg_ack de-asserted reg_rdata
  holds the old data".
- **The timer asks again** (`uart_host_restart`). When it ends, the initiator
  acknowledges and goes to idle at once (`async_reg_bus.sv:201`), where it
  finds the request still up. The access that was given up is asked for a
  second time, and its answer may reach the next command. `:22` says "generate
  and terminate the transfer if 512 cycle transaction is not completed".
- **The wait ends before the motor** (`motor`). `run` falls at the strobe that
  finds `cycles` at zero (`sm_ctrl.sv:444`), a step after the one that makes
  it zero. The program looks at the count alone: its mask `0x00FFFFFF`
  (`step_motor_controller.c:59`) leaves out `run`, bit 31. `:55` says "Wait
  end of step moving"; when the wait is over one more step comes.

The comments of `arduino_i2c_scaner.ino.cpp` (lines 21 and 27) speak of a scan
up to 127, its loop ends at 31. The comment at `wb_arb.sv:105` speaks of round
robin. The search order is fixed for each grant, so that masters 2 and 3 can
be passed by for ever; what holds of masters 0 and 1 is proved, and nothing is
claimed of the others.

## 7. What is not modelled

`PROJECT.json` lists every part with the reason. In short:

- left for later (section 8): the SPI slave host, reset sequence and straps,
  clock gating, the infrared FIFOs, the bit machines of UART, I2C and SPI, the
  counters of timers and pulse width, the glitch filter of GPIO, the detection
  of the rate of the UART host. Where a program meets one of them its model
  has what the program can see: queues, events, whole transfers;
- a fixed table: the pin multiplexer;
- not discrete: dividers, PLL, skew cells, analog macros;
- not this project's code: the USB cores (vendored; their register buses cross
  the clocks through modelled bridges), the RISC-V, QSPI, AES and floating
  point cores (submodules, absent);
- no logic: chip wrapper, pads, memory macros, repeaters, test benches,
  physical design; and the programs and sketches that are one straight line of
  prints and register writes.

Known hazards of these parts, and smaller ones of modelled parts, beside those
listed in `PROJECT.json`:

- `uart_msg_handler.v:246`: the count of characters survives a successful
  read, and a space typed first then ends the next command early; `:297`: a
  burst read keeps the byte enables of the last write.
- `sspis_if.sv:194`: the chip select ends a frame at any state, with the
  request it has on the bus.
- `src_clk_gate.sv:41`: the clock is taken away seven idle clocks later, on
  the idle flag of one clock before.
- `uart_rxfsm.sv:163`: a character that finds the FIFO full is not received,
  and one of its later bits may be taken for a start once there is room.
- `uart_auto_det.sv:134`: a rate is taken from two low times of one character.
- `gpio_reg.sv:223`: the byte enable of byte 2 is used for byte 3.
- `int_reg_map.h:44`: `reg_pwm_cfg_pwm2` has the address of another register
  than its name and its comment say; the host's header has the right one.
- `crt.S:59`: every core that boots takes the same stack top.

## 8. Plan

In this order:

1. **Reset.** `WbhResetFsm` with `StrapCtrl`: one reboot per request, though
   the request is cleared in another clock domain; clocks run before resets
   are released.
2. **The other host.** `Sspis` (bit machine, wait phase) composed with
   `WbHost`, which replaces the impatient host by the real one: which
   withdrawals really occur, and which frames repeat a write.
3. **Small blocks with sharp edges.** `SrcClkGate` (no edge lost),
   `SyncFifoOcc` against `BoundedFifo` with the inputs of `nec_ir`.
4. **Peripherals.** The timers' counters behind `Interrupts`; the UART core
   with its FIFOs and parity in place of the queues of `Loopback`; the I2C
   controllers under `WireSketches`.
5. **Proofs.** Those of the modules above. Of the safety properties that are
   checked today only `PrintsItsMeaning` has no theorem.

Runs that ask the same question of more of the system replace those of its
parts.

## 9. Running it

    tlc -workers 2 -config WbiPort.cfg WbiPort     # module and configuration from section 3
    tlapm AsyncFifoProofs.tla

`host_bridge` explores 300 thousand states in about two minutes, `firmware`
157 thousand in about as much; `slave_port` takes half a minute, the others
less. From nothing `FirmwareProofs` takes about a quarter of an hour,
`WbSlavePortProofs` several minutes, the other proof modules a minute or two.
