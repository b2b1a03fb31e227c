----------------------------- MODULE RegisterMap -----------------------------
(****************************************************************************)
(* How a name of the register headers, verilog/dv/common/firmware/          *)
(* int_reg_map.h and ext_reg_map.h, reaches its register: the windows of    *)
(* the host bridge, the decoder of the interconnect, the blocks behind it,  *)
(* and the two response multiplexers, clock by clock.  Of a register there  *)
(* is its block and its place in it.                                        *)
(****************************************************************************)
EXTENDS Image, Integers, Sequences

CONSTANT
  Asks         \* the sequences of accesses of a master

VARIABLES
  asks,                \* the accesses left, the first is on the bus when reg_cs
  reg_cs,
  bank_sel,            \* cfg_bank_sel of the host bridge
  reg_blk_sel,         \* of pinmux_top
  blockAck, blockData, \* reg_ack and reg_rdata of each block
  answers,             \* history: the accesses and the registers that answered
  waited,              \* history: clocks that the access has waited
  copied               \* the bytes a cipher program has written, in order

busVars == <<image, asks, reg_cs, bank_sel, reg_blk_sel, blockAck, blockData, answers, waited,
             copied>>

------------------------------------------------------------------------------
(* The headers.                                                             *)
At(address, names) == {<<names[k], address + 4 * (k - 1)>> : k \in DOMAIN names}

Glbl == <<"glbl_chip_id", "glbl_cfg0", "glbl_cfg1", "glbl_intr_msk", "glbl_intr",
          "glbl_multi_func", "glbl_clk_ctrl">>
Pll == <<"glbl_pll_ctrl1", "glbl_pll_ctrl2">>
Straps == <<"glbl_pad_strap", "glbl_strap_sticky", "glbl_system_strap", "glbl_mail_box",
            "glbl_soft_reg_0", "glbl_soft_reg_1", "glbl_soft_reg_2", "glbl_soft_reg_3",
            "glbl_soft_reg_4", "glbl_soft_reg_5", "glbl_soft_reg_6", "glbl_soft_reg_7">>
Gpio == <<"gpio_dsel", "gpio_type", "gpio_idata", "gpio_odata", "gpio_intr_stat",
          "gpio_intr_set", "gpio_intr_mask", "gpio_pos_intr", "gpio_neg_intr">>
Pwm01 == <<"pwm_glbl_cfg", "pwm_cfg_pwm0", "pwm_cfg_pwm1">>
Pwm345 == <<"pwm_cfg_pwm3", "pwm_cfg_pwm4", "pwm_cfg_pwm5">>
Timer == <<"timer_glbl_cfg", "timer_cfg_timer0", "timer_cfg_timer1", "timer_cfg_timer2">>
Sema == <<"sema_lock0", "sema_lock1", "sema_lock2", "sema_lock3", "sema_lock4", "sema_lock5",
          "sema_lock6", "sema_lock7", "sema_lock8", "sema_lock9", "sema_lock10", "sema_lock11",
          "sema_lock12", "sema_lock13", "sema_lock14", "sema_lock_cfg">>
Uart(u) == <<u \o "_ctrl", u \o "_intr_stat", u \o "_baud_ctrl1", u \o "_baud_ctrl2",
             u \o "_status", u \o "_txdata", u \o "_rxdata", u \o "_txfifo_stat",
             u \o "_rxfifo_stat">>
Wbi == <<"wbi_stat", "wbi_dcg">>
Smotor == <<"smotor_config", "smotor_multiplier", "smotor_divider", "smotor_period",
            "smotor_control">>
Qspi == <<"qspi_glbl_ctrl", "qspi_dmem_g0_rd_ctrl", "qspi_dmem_g0_wr_ctrl",
          "qspi_dmem_g1_rd_ctrl", "qspi_dmem_g1_wr_ctrl", "qspi_cs_amap", "qspi_cs_amask",
          "qspi_imem_ctrl1", "qspi_imem_ctrl2", "qspi_imem_addr", "qspi_imem_wdata",
          "qspi_imem_rdata", "qspi_status">>
WbHost == <<"mprj_wbhost_reg0", "mprj_wbhost_reg1", "mprj_wbhost_reg2", "mprj_wbhost_reg3",
            "mprj_wbhost_reg4", "mprj_wbhost_reg5">>

(* int_reg_map.h, lines 9 to 95, and the sketch's own int_reg_map.h, which  *)
(* ends there.                                                              *)
SketchMap ==
  At(\h10020000, Glbl) \cup At(\h1002001C, Pll) \cup At(\h10020030, Straps)
  \cup At(\h10020080, Gpio) \cup {<<"gpio_intr_clr", \h10020090>>}
  \cup At(\h10020100, Pwm01) \cup {<<"pwm_cfg_pwm2", \h1002011C>>} \cup At(\h10020110, Pwm345)
  \cup At(\h10020180, Timer)
  \cup At(\h10020200, Sema) \cup {<<"sema_lock_stat", \h1002023C>>}
  \cup At(\h10010000, Uart("uart0")) \cup At(\h10010100, Uart("uart1"))

(* The rest of int_reg_map.h on the bus: lines 141 to 155.                  *)
Internal == SketchMap \cup At(\h10030000, Wbi) \cup At(\h10020580, Smotor)

External ==
  At(\h30020000, Glbl) \cup At(\h30020030, Straps)
  \cup At(\h30020080, Gpio) \cup {<<"gpio_intr_clr", \h30020090>>}
  \cup At(\h30020100, Pwm01) \cup {<<"pwm_cfg_pwm2", \h3002010C>>} \cup At(\h30020110, Pwm345)
  \cup At(\h30020180, Timer)
  \cup At(\h30020200, Sema) \cup {<<"sema_lock_stat", \h3002023C>>}
  \cup At(\h30010000, Uart("uart0")) \cup At(\h30010100, Uart("uart1"))
  \cup At(\h30000000, Qspi)
  \cup At(\h30080000, WbHost) \cup {<<"mprj_wbhost_ctrl", \h30080000>>}


(* int_reg_map.h, lines 97 to 139: the cipher's registers inside the core;  *)
(* a dword and the pointer to the last byte of a block of four.             *)
Cipher == {<<"aes_enc_key_dw0", \h0C490084>>, <<"aes_enc_text_in_dw0", \h0C490094>>,
           <<"aes_enc_text_out_dw0", \h0C4900A4>>, <<"aes_dec_key_dw0", \h0C4900C4>>,
           <<"aes_dec_text_in_dw0", \h0C4900D4>>, <<"aes_dec_text_out_dw0", \h0C4900E4>>}
Pointer == {<<"aes_enc_key_dw0", \h0C490093>>, <<"aes_enc_text_in_dw0", \h0C4900A3>>,
            <<"aes_enc_text_out_dw0", \h0C4900B3>>, <<"aes_dec_key_dw0", \h0C4900D3>>,
            <<"aes_dec_text_in_dw0", \h0C4900E3>>, <<"aes_dec_text_out_dw0", \h0C4900F3>>}

AddressOf(map, name) == CHOOSE a \in {e[2] : e \in map} : <<name, a>> \in map

(* What a program asks for: a register by a name of its own header.         *)
CoreAccess(name) == [by |-> "core", name |-> name, at |-> AddressOf(Internal, name)]
HostAccess(name) == [by |-> "host", name |-> name, at |-> AddressOf(External, name)]
BankRegister == HostAccess("mprj_wbhost_reg1")
SelectBank(b) ==
  [bank |-> b, by |-> BankRegister.by, name |-> BankRegister.name, at |-> BankRegister.at]
CipherAccess(name) == [by |-> "cipher", name |-> name, at |-> AddressOf(Pointer, name)]

(* The names of the pulse-width block are older than the block, which has   *)
(* four registers per channel; they are left out.                           *)
PwmNames == {Pwm01[k] : k \in DOMAIN Pwm01} \cup {Pwm345[k] : k \in DOMAIN Pwm345}
            \cup {"pwm_cfg_pwm2"}
Names(map) == {e[1] : e \in map} \ PwmNames

(* A core asks by a name of its header, a host too, or it writes the bank   *)
(* register, which has sixteen bits; a cipher program copies one block.     *)
Banks == 0..\hFFFF
IsBusAccess(x) ==
  \/ x.by = "core" /\ x.name \in Names(Internal) /\ x = CoreAccess(x.name)
  \/ x.by = "host" /\ x.name \in Names(External) /\ x = HostAccess(x.name)
  \/ "bank" \in DOMAIN x /\ x.bank \in Banks /\ x = SelectBank(x.bank)

BusProgram(s) == s \in Seq({s[k] : k \in DOMAIN s}) /\ \A k \in DOMAIN s : IsBusAccess(s[k])

ASSUME AskAssumption ==
  /\ Asks # {}
  /\ \A s \in Asks : BusProgram(s) \/ \E e \in Cipher : s = <<CipherAccess(e[1])>>

------------------------------------------------------------------------------
Bits(a, high, low) == (a \div 2^low) % 2^(high - low + 1)

(* What wb_host puts on the bus for the address of a host.                  *)
wb_adr_int(a) == Bits(bank_sel, 15, 3) * 2^19 + Bits(a, 18, 0)
IsHostRegister(access) == access.by = "host" /\ Bits(access.at, 19, 19) = 1
BusAddress(access) == IF access.by = "host" THEN wb_adr_int(access.at) ELSE access.at

Target(a) ==
  IF Bits(a, 31, 28) = 0 THEN "SPI_MEM"
  ELSE CASE Bits(a, 31, 16) = \h1000 -> "SPI_REG"
         [] Bits(a, 31, 16) = \h1001 -> "UART"
         [] Bits(a, 31, 16) = \h1002 -> "PINMUX"
         [] Bits(a, 31, 16) = \h1003 -> "WBI"
         [] OTHER -> "SPI_MEM"

(* The chip selects and the register numbers behind the targets.            *)
PinmuxBlock(sel) ==
  CASE sel = 0 -> "GLBL" [] sel = 1 -> "GPIO" [] sel = 2 -> "PWM" [] sel = 3 -> "TIMER"
    [] sel = 4 -> "SEMA" [] sel = 11 -> "SM" [] OTHER -> "none"
UartBlock(sel) == CASE sel = 0 -> "UART0" [] sel = 4 -> "UART1" [] OTHER -> "none"
Blocks == {"GLBL", "GPIO", "PWM", "TIMER", "SEMA", "SM", "UART0", "UART1", "WBI", "SPI_REG",
           "SPI_MEM", "WBHOST"}
HighBit == [GLBL |-> 6, GPIO |-> 5, PWM |-> 6, TIMER |-> 3, SEMA |-> 5, SM |-> 4, UART0 |-> 5,
            UART1 |-> 5, WBI |-> 4, SPI_REG |-> 7, WBHOST |-> 4]

Selected(access) ==
  LET a == BusAddress(access)
  IN  IF IsHostRegister(access) THEN "WBHOST"
      ELSE CASE Target(a) = "PINMUX" -> PinmuxBlock(Bits(a, 10, 7))
             [] Target(a) = "UART" -> UartBlock(Bits(a, 8, 6))
             [] OTHER -> Target(a)

Numbered(access) ==
  LET b == Selected(access)
      a == IF IsHostRegister(access) THEN access.at ELSE BusAddress(access)
  IN  IF b \in DOMAIN HighBit THEN <<b, Bits(a, HighBit[b], 2)>> ELSE <<b, 0>>
------------------------------------------------------------------------------
(* A block acknowledges with the data in the clock after its chip select,   *)
(* and never two clocks on end.                                             *)
RegInit ==
  /\ asks \in Choice("registers", Asks)
  /\ reg_cs = TRUE /\ bank_sel = \h1000 /\ reg_blk_sel = 0
  /\ blockAck = [b \in Blocks |-> FALSE] /\ blockData = [b \in Blocks |-> <<b, 0>>]
  /\ answers = <<>> /\ waited = 0 /\ copied = <<>>

Asked == Head(asks)
OnBus == asks # <<>> /\ reg_cs /\ Asked.by # "cipher"
Chips == IF OnBus THEN {Selected(Asked)} \cap Blocks ELSE {}

(* A block that does not wait for the end of its own acknowledge.           *)
AckTogether == [b \in Blocks |-> b \in Chips]

NextAck == LET cs == Chips IN [b \in Blocks |-> b \in cs /\ ~blockAck[b]]

BlockEdge ==
  /\ blockAck' = NextAck
  /\ blockData' = IF \E b \in Chips : ~blockAck[b]
                    THEN [blockData EXCEPT ![Selected(Asked)] = Numbered(Asked)]
                    ELSE blockData
  /\ reg_blk_sel' = IF OnBus /\ ~IsHostRegister(Asked) /\ Target(BusAddress(Asked)) = "PINMUX"
                      THEN Bits(BusAddress(Asked), 10, 7) ELSE reg_blk_sel
  /\ bank_sel' = IF "WBHOST" \in Chips /\ "bank" \in DOMAIN Asked THEN Asked.bank ELSE bank_sel

(* A multiplexer without the branch of the peripherals.                     *)
PinmuxAnswersFive(access) == PinmuxBlock(reg_blk_sel % 8)

(* reg_rdata and reg_ack of pinmux_top come from the block of the clock     *)
(* before, and peri_top's from the block of this clock.                     *)
PinmuxAnswers(access) ==
  IF reg_blk_sel >= 8 THEN Selected(access) ELSE PinmuxBlock(reg_blk_sel)

Responder(access) ==
  IF ~IsHostRegister(access) /\ Target(BusAddress(access)) = "PINMUX" THEN PinmuxAnswers(access)
  ELSE Selected(access)

bus_ack == OnBus /\ Responder(Asked) \in Blocks /\ blockAck[Responder(Asked)]

(* The next access follows at once or a clock later.                        *)
Acknowledged ==
  /\ bus_ack
  /\ answers' = Append(answers, [access |-> Asked, bank |-> bank_sel,
                                 got |-> blockData[Responder(Asked)]])
  /\ asks' = Tail(asks)
  /\ reg_cs' \in BOOLEAN /\ waited' = 0

Waiting ==
  /\ ~bus_ack /\ reg_cs' = TRUE /\ waited' = waited + 1
  /\ UNCHANGED <<asks, answers>>

RegEdge ==
  /\ asks # <<>> /\ Asked.by # "cipher"
  /\ BlockEdge
  /\ Acknowledged \/ Waiting
  /\ UNCHANGED copied

(* The loop of user_aes_core.c: byte j of a key or a text goes to the       *)
(* pointer less j.                                                          *)
LastByte == 15

(* A loop that goes up from the pointer.                                    *)
ByteAbove(pointer, j) == pointer + j

ByteAt(pointer, j) == pointer - j

CopyByte ==
  /\ asks # <<>> /\ Asked.by = "cipher"
  /\ copied' = Append(copied, ByteAt(Asked.at, Len(copied)))
  /\ asks' = IF Len(copied) = LastByte THEN Tail(asks) ELSE asks
  /\ UNCHANGED <<reg_cs, bank_sel, reg_blk_sel, blockAck, blockData, answers, waited>>

RegNext == Runs("registers") /\ (RegEdge \/ CopyByte) /\ UNCHANGED image

RegSpec == RegInit /\ [][RegNext]_busVars

------------------------------------------------------------------------------
(* The register that each name is for: the register files' own numbers.     *)
In(block, first, names) == {<<names[k], <<block, first + k - 1>>>> : k \in DOMAIN names}

Meant ==
  In("GLBL", 0, Glbl) \cup In("GLBL", 7, Pll) \cup In("GLBL", 12, Straps)
  \cup In("GPIO", 0, Gpio) \cup {<<"gpio_intr_clr", <<"GPIO", 4>>>>}
  \cup In("TIMER", 0, Timer)
  \cup In("SEMA", 0, Sema) \cup {<<"sema_lock_stat", <<"SEMA", 15>>>>}
  \cup In("UART0", 0, Uart("uart0")) \cup In("UART1", 0, Uart("uart1"))
  \cup In("WBI", 0, Wbi) \cup In("SM", 0, Smotor) \cup In("SPI_REG", 0, Qspi)
  \cup In("WBHOST", 0, WbHost) \cup {<<"mprj_wbhost_ctrl", <<"WBHOST", 0>>>>}

(* Whatever was accessed before and however soon, the acknowledge a master  *)
(* sees and the data with it come from the register its access names, for   *)
(* the cores and, while the bank register holds its reset value, for a      *)
(* host: the selection that pinmux_top remembers from the access before     *)
(* (pinmux_top.sv, line 698) never answers for the new one.                 *)
AnswerIsNamed ==
  \A k \in DOMAIN answers :
    answers[k].bank = \h1000 => <<answers[k].access.name, answers[k].got>> \in Meant

(* Every access is acknowledged within four clocks, with another bank in    *)
(* place too: no name leads to a hole of the map that holds the bus for     *)
(* ever, and no stale selection hides the acknowledge.                      *)
AccessesEnd == waited <= 4

(* Byte j of a key or a text lies 15 - j above the first dword of its own   *)
(* block, so the sixteen copies fill the four dwords and nothing else.      *)
BytesInBlock ==
  \A j \in DOMAIN copied :
    \E e \in Cipher : copied[j] = e[2] + 16 - j /\ (asks # <<>> => e[1] = Asked.name)

==============================================================================
