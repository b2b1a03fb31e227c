-------------------------------- MODULE Ws281x -------------------------------
(****************************************************************************)
(* The driver of LED chains, verilog/rtl/ws281x/src, clock by clock, and    *)
(* the sketch that writes to it, verilog/dv/arduino_ws281x/                 *)
(* arduino_ws281x.ino.cpp.  Of a word there is its number, of the line the  *)
(* words that were loaded for it.                                           *)
(****************************************************************************)
EXTENDS Image, Naturals, Sequences

CONSTANTS
  Leds,        \* bound: words per port, 16 in the sketch
  LedBits,     \* bound: bits of a word, 24
  LedPeriods   \* the pairs of reset and clock periods that begin() may set

ASSUME LedAssumption ==
  /\ Leds \in Nat /\ LedBits \in Nat \ {0}
  /\ \A p \in LedPeriods : p[1] \in Nat /\ p[2] \in Nat \ {0}

Ports == {0, 1}

VARIABLES
  periods, port_enb,
  access,            \* the sketch's access or its next one, past the last when it is done
  ledCs,             \* reg_cs: the access is on the bus
  ledAck,            \* reg_ack
  wr_ptr, rd_ptr, full, empty, mem,   \* sync_fifo with D = 2, per port
  state, clk_cnt, bit_cnt, data_rd,   \* ws281x_driver, per port
  loaded               \* history: the words the driver loaded, per port

ledFifo == <<wr_ptr, rd_ptr, full, empty, mem>>
ledDriver == <<state, clk_cnt, bit_cnt, data_rd, loaded>>
ledVars == <<image, periods, port_enb, access, ledCs, ledAck, ledFifo, ledDriver>>

cfg_reset_period == periods[1]
cfg_clk_period == periods[2]
ByPort(x) == [p \in Ports |-> x]

LedInit ==
  /\ periods \in Choice("leds", LedPeriods)
  /\ port_enb = {} /\ access = 1 /\ ledCs = FALSE /\ ledAck = FALSE
  /\ wr_ptr = ByPort(0) /\ rd_ptr = ByPort(0)
  /\ full = ByPort(FALSE) /\ empty = ByPort(TRUE) /\ mem = ByPort(<<0, 0>>)
  /\ state = ByPort("reset") /\ clk_cnt = ByPort(0) /\ bit_cnt = ByPort(LedBits - 1)
  /\ data_rd = ByPort(FALSE) /\ loaded = ByPort(<<>>)

------------------------------------------------------------------------------
(* The sketch: for each port an enable, number 0, and then the words.       *)
PerPort == Leds + 1

(* A sketch that enables a port when all is written.                        *)
NumberEnableLast(k) == k % PerPort

Number0(k) == (k - 1) % PerPort
LedAccess(k) == [port |-> (k - 1) \div PerPort, word |-> Number0(k)]
LastAccess == 2 * PerPort

Writing(p) == ledCs /\ LedAccess(access).port = p /\ LedAccess(access).word > 0
Enabling(p) == ledCs /\ LedAccess(access).port = p /\ LedAccess(access).word = 0

(* A write to a full FIFO is not acknowledged.                              *)
sw_wr_en == \E p \in Ports : Enabling(p) \/ (Writing(p) /\ ~full[p])
fifo_wr(p) == Writing(p) /\ ~full[p] /\ ledAck

(* An access stays on the bus up to the clock of its acknowledge.  The      *)
(* sketch is at its next one in the clock after, or any number of clocks    *)
(* later.                                                                   *)
SketchWrites ==
  /\ access' = IF ledAck THEN access + 1 ELSE access
  /\ ledCs' \in BOOLEAN
  /\ ledCs /\ ~ledAck => ledCs'
  /\ ledCs' => access' <= LastAccess

Register ==
  /\ ledAck' = (sw_wr_en /\ ~ledAck)
  /\ port_enb' = port_enb \cup {p \in Ports : Enabling(p)}

------------------------------------------------------------------------------
Difference(p) == (wr_ptr[p] + rd_ptr[p]) % 2

(* With one bit of pointer the difference D - 2 is 0: the FIFO is full with *)
(* one word.                                                                *)
FullNext(p) ==
  IF Difference(p) = 0 /\ ~data_rd[p] /\ fifo_wr(p) THEN TRUE
  ELSE IF Difference(p) = 1 /\ data_rd[p] /\ ~fifo_wr(p) THEN FALSE ELSE full[p]

EmptyNext(p) ==
  IF Difference(p) = 1 /\ data_rd[p] /\ ~fifo_wr(p) THEN TRUE
  ELSE IF Difference(p) = 0 /\ ~data_rd[p] /\ fifo_wr(p) THEN FALSE ELSE empty[p]

sync_fifo ==
  /\ wr_ptr' = [p \in Ports |-> IF fifo_wr(p) /\ ~full[p] THEN 1 - wr_ptr[p] ELSE wr_ptr[p]]
  /\ rd_ptr' = [p \in Ports |-> IF data_rd[p] /\ ~empty[p] THEN 1 - rd_ptr[p] ELSE rd_ptr[p]]
  /\ full' = [p \in Ports |-> FullNext(p)]
  /\ empty' = [p \in Ports |-> EmptyNext(p)]
  /\ mem' = [p \in Ports |-> IF fifo_wr(p) /\ ~full[p]
                               THEN [mem[p] EXCEPT ![wr_ptr[p] + 1] = LedAccess(access).word]
                               ELSE mem[p]]

rd_data(p) == mem[p][rd_ptr[p] + 1]

------------------------------------------------------------------------------
(* The driver of a port: its registers after the edge, and whether it loads *)
(* a word.                                                                  *)
Driver(st, clk, bits, rd, load) ==
  [state |-> st, clk_cnt |-> clk, bit_cnt |-> bits, data_rd |-> rd, load |-> load]

Loads == Driver("transmit", 0, LedBits - 1, TRUE, TRUE)

StateReset(p) ==
  IF p \notin port_enb THEN Driver("reset", 0, bit_cnt[p], data_rd[p], FALSE)
  ELSE IF clk_cnt[p] # cfg_reset_period
    THEN Driver("reset", clk_cnt[p] + 1, bit_cnt[p], data_rd[p], FALSE)
  ELSE IF empty[p] THEN Driver("reset", clk_cnt[p], bit_cnt[p], data_rd[p], FALSE)
  ELSE Loads

(* A driver that takes the read back only at the end of the word.           *)
StateTransmitReads(p) ==
  IF clk_cnt[p] # cfg_clk_period
    THEN Driver("transmit", clk_cnt[p] + 1, bit_cnt[p], data_rd[p], FALSE)
  ELSE IF bit_cnt[p] # 0 THEN Driver("transmit", 0, bit_cnt[p] - 1, FALSE, FALSE)
  ELSE IF ~empty[p] THEN Loads
  ELSE Driver("reset", 0, bit_cnt[p], FALSE, FALSE)

StateTransmit(p) ==
  IF clk_cnt[p] # cfg_clk_period
    THEN Driver("transmit", clk_cnt[p] + 1, bit_cnt[p], FALSE, FALSE)
  ELSE IF bit_cnt[p] # 0 THEN Driver("transmit", 0, bit_cnt[p] - 1, data_rd[p], FALSE)
  ELSE IF ~empty[p] THEN Loads
  ELSE Driver("reset", 0, bit_cnt[p], data_rd[p], FALSE)

After(p) == IF state[p] = "reset" THEN StateReset(p) ELSE StateTransmit(p)

ws281x_driver ==
  /\ state' = [p \in Ports |-> After(p).state]
  /\ clk_cnt' = [p \in Ports |-> After(p).clk_cnt]
  /\ bit_cnt' = [p \in Ports |-> After(p).bit_cnt]
  /\ data_rd' = [p \in Ports |-> After(p).data_rd]
  /\ loaded' = [p \in Ports |-> IF After(p).load THEN Append(loaded[p], rd_data(p)) ELSE loaded[p]]

LedEdge == SketchWrites /\ Register /\ sync_fifo /\ ws281x_driver /\ UNCHANGED periods

LedNext == Runs("leds") /\ LedEdge /\ UNCHANGED image

(* An edge at which the sketch has an access on the bus, or is done.        *)
LedProgram == LedNext /\ (ledCs' \/ access' > LastAccess)

LedSpec == LedInit /\ [][LedNext]_ledVars

------------------------------------------------------------------------------
(* The words of a port whose write is acknowledged and done.                *)
Written(p) ==
  LET before == p * PerPort + 1
      n == IF access <= before THEN 0 ELSE IF access > before + Leds THEN Leds
           ELSE access - 1 - before
  IN  [k \in 1..n |-> k]

InFifo(p) == IF empty[p] \/ data_rd[p] THEN <<>> ELSE <<rd_data(p)>>

(* Every acknowledged word is loaded once, in order, or is still in the     *)
(* FIFO, whenever the sketch writes: none is overwritten while the FIFO is  *)
(* full, none is missed when the driver finds it empty between two words    *)
(* and begins anew, and the read that comes a clock after the load takes    *)
(* the word that was loaded (ws281x_driver.sv, lines 52-95).                *)
WordsInOrder == \A p \in Ports : loaded[p] \o InFifo(p) = Written(p)

(* The sketch comes to its end and the chains get all their words, though   *)
(* its writes hold the bus while a FIFO is full (ws281x_reg.sv, line 145):  *)
(* it enables each port before it writes to it.                             *)
AllWordsSent ==
  Runs("leds") => <>(access > LastAccess /\ \A p \in Ports : loaded[p] = [k \in 1..Leds |-> k])

==============================================================================
