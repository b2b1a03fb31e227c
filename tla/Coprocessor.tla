----------------------------- MODULE Coprocessor -----------------------------
(****************************************************************************)
(* A core that has its coprocessors tested: the program                     *)
(* verilog/dv/user_fpu_core/user_fpu_core.c and, over the same protocol,    *)
(* verilog/dv/user_aes_core/user_aes_core.c, and the registers they drive,  *)
(* verilog/rtl/fpu_wrapper/src/fpu_reg.sv, clock by clock.  The engines and *)
(* the registers of the cipher are not in the repository.                   *)
(*                                                                          *)
(* An operation is a command with its operands, a check of fpu_check or a   *)
(* block of test_encrypt and test_decrypt; only its number is kept.  The    *)
(* two writes of the operands stand for the sixteen of each of the cipher.  *)
(* An engine may have a broken unit, whose results are wrong in some bytes. *)
(****************************************************************************)
EXTENDS Image, Naturals

VARIABLES
  copTest,         \* "fpu" or "aes"
  broken,          \* the units that compute wrong results
  wrongBytes,      \* how many bytes of such a result are wrong
  copPc, copOp,    \* the access the program makes, and of which operation
  ErrCnt, exit,    \* uint8_t and int
  reg_gpio_odata,
  dmem_req_ack,    \* the access is acknowledged and takes place
  cfg_fpu_din1, cfg_fpu_din2, cfg_fpu_req, cfg_fpu_req_l,
  engine,          \* the operands it works on, or Nothing
  fpu_result       \* the operands of the last result

copVars == <<image, copTest, broken, wrongBytes, copPc, copOp, ErrCnt, exit, reg_gpio_odata,
             dmem_req_ack, cfg_fpu_din1, cfg_fpu_din2, cfg_fpu_req, cfg_fpu_req_l, engine,
             fpu_result>>

Nothing == <<0, 0>>

(* The units of an engine in the order in which they are tested, the        *)
(* operations each is tested with, and the bytes of a result.               *)
Units(t) == IF t = "fpu" THEN <<"add", "mul", "div", "i2f", "f2i">> ELSE <<"enc", "dec">>
PerUnit(t) == IF t = "fpu" THEN 6 ELSE 8
Bytes(t) == IF t = "fpu" THEN 1 ELSE 16
NumUnits(t) == IF t = "fpu" THEN 5 ELSE 2
LastOp == NumUnits(copTest) * PerUnit(copTest)
Unit(op) == Units(copTest)[(op - 1) \div PerUnit(copTest) + 1]

CopInit ==
  /\ copTest \in Choice("coprocessor", {"fpu", "aes"})
  /\ broken \in Choice("coprocessor", SUBSET {Units(copTest)[k] : k \in 1..NumUnits(copTest)})
  /\ wrongBytes \in Choice("coprocessor", {1, Bytes(copTest)})
  /\ copPc = "din1" /\ copOp = 1
  /\ ErrCnt = 0 /\ exit = 0 /\ reg_gpio_odata = 1
  /\ dmem_req_ack = FALSE
  /\ cfg_fpu_din1 = 0 /\ cfg_fpu_din2 = 0 /\ cfg_fpu_req = FALSE /\ cfg_fpu_req_l = FALSE
  /\ engine = Nothing /\ fpu_result = Nothing

------------------------------------------------------------------------------
(* The program, at the end of an access.                                    *)

(* The bytes of the result that are not the expected ones.                  *)
Mismatch ==
  IF fpu_result # <<copOp, copOp>> THEN Bytes(copTest)
  ELSE IF Unit(copOp) \in broken THEN wrongBytes ELSE 0

EndOfUnit == copOp % PerUnit(copTest) = 0

Failed(count) == IF count # 0 THEN 1 ELSE 0

(* The verdict of a unit put in the place of the ones before it.            *)
CompareLast ==
  /\ ErrCnt' = IF EndOfUnit THEN 0 ELSE (ErrCnt + Mismatch) % 256
  /\ exit' = IF EndOfUnit THEN Failed((ErrCnt + Mismatch) % 256) ELSE exit

(* The check of the floating point unit adds every mismatch to exit; the    *)
(* two functions of the cipher count them, in eight bits, and return 1 if   *)
(* the count is not zero.                                                   *)
Compare ==
  IF copTest = "fpu"
    THEN exit' = exit + Failed(Mismatch) /\ UNCHANGED ErrCnt
    ELSE LET count == (ErrCnt + Mismatch) % 256
         IN  /\ ErrCnt' = IF EndOfUnit THEN 0 ELSE count
             /\ exit' = IF EndOfUnit THEN exit + Failed(count) ELSE exit

Verdict(failures) == IF failures = 0 THEN 24 ELSE 168

(* A program that looks at the request bit once.                            *)
PollOnce == "read"

Poll == IF cfg_fpu_req THEN "poll" ELSE "read"

NextAccess ==
  CASE copPc = "din1" -> "din2"
    [] copPc = "din2" -> "start"
    [] copPc = "start" -> "poll"
    [] copPc = "poll" -> Poll
    [] copPc = "read" -> "compare"
    [] copPc = "compare" -> IF copOp = LastOp THEN "verdict" ELSE "din1"
    [] copPc = "verdict" -> "stop"

Program ==
  /\ copPc' = NextAccess
  /\ copOp' = IF copPc = "compare" /\ copOp < LastOp THEN copOp + 1 ELSE copOp
  /\ IF copPc = "compare" THEN Compare ELSE UNCHANGED <<ErrCnt, exit>>
  /\ reg_gpio_odata' = IF copPc = "verdict" THEN Verdict(exit) ELSE reg_gpio_odata

------------------------------------------------------------------------------
(* The registers and the engine, at an edge at which the engine finishes    *)
(* or does not.                                                             *)

(* A request taken as the start for as long as it is up.                    *)
StartsLevel == cfg_fpu_req

cfg_fpu_val == cfg_fpu_req /\ ~cfg_fpu_req_l

(* A write of the request wins over the end of an operation.                *)
req_register(done, write) == write \/ (cfg_fpu_req /\ ~done)

Registers(done) ==
  LET write(pc) == dmem_req_ack /\ copPc = pc
  IN  /\ cfg_fpu_din1' = IF write("din1") THEN copOp ELSE cfg_fpu_din1
      /\ cfg_fpu_din2' = IF write("din2") THEN copOp ELSE cfg_fpu_din2
      /\ cfg_fpu_req' = req_register(done, write("start"))
      /\ cfg_fpu_req_l' = cfg_fpu_req

Engine(done) ==
  /\ engine' = IF cfg_fpu_val THEN <<cfg_fpu_din1, cfg_fpu_din2>>
               ELSE IF done THEN Nothing ELSE engine
  /\ fpu_result' = IF done THEN engine ELSE fpu_result

(* An access is two clocks: the acknowledge is a register, and with it the  *)
(* select of the registers.                                                 *)
CopEdge(done) ==
  /\ copPc # "stop"
  /\ done => engine # Nothing /\ ~cfg_fpu_val
  /\ dmem_req_ack' = ~dmem_req_ack
  /\ Registers(done) /\ Engine(done)
  /\ IF dmem_req_ack THEN Program ELSE UNCHANGED <<copPc, copOp, ErrCnt, exit, reg_gpio_odata>>
  /\ UNCHANGED <<copTest, broken, wrongBytes>>

CopStep(A) == Runs("coprocessor") /\ A /\ UNCHANGED image

CopNext == \E done \in BOOLEAN : CopStep(CopEdge(done))

CopSpec == CopInit /\ [][CopNext]_copVars

------------------------------------------------------------------------------
(* What is compared is the result of the operands of this operation, not of *)
(* the one before (fpu_check, lines 210-218).                               *)
ResultIsOwn == copPc \in {"read", "compare"} => fpu_result = <<copOp, copOp>>

(* The verdict on the pins is the good one, 0x18, exactly if no unit is     *)
(* broken: no counter of mismatches comes round to zero and no later        *)
(* success hides a failure (user_aes_core.c, lines 81-93 and 124).          *)
VerdictRight == copPc = "stop" => (reg_gpio_odata = 24 <=> broken = {})

(* The program does not wait for an engine for ever.                        *)
CoprocessorTestEnds == Runs("coprocessor") => <>(copPc = "stop")

==============================================================================
