------------------------------- MODULE TcmTest -------------------------------
(****************************************************************************)
(* The test of the tightly coupled memory, verilog/dv/arduino_tcm_test/     *)
(* arduino_tcm_test.ino.cpp, over a memory that may have one fault.  What   *)
(* it prints is left out but for its waiting for the UART.  And the tests   *)
(* that run from a copy of their code, verilog/dv/user_sram_exec and        *)
(* user_cache_bypass, with the test testBench's waits for them.                 *)
(****************************************************************************)
EXTENDS Image, Naturals, Sequences

CONSTANTS
  VerdictLine,  \* bound: characters of the last line
  Halves        \* half words from test_function to main, its return the last

ASSUME MemoryTestAssumption == Halves \in Nat /\ Halves > 1

(* The words that are written and compared, in the order of the program,    *)
(* and those of which it writes the bytes one by one.                       *)
WordOrder == <<0, 1, 510, 511, 512, 513, 1022, 1023, 1024, 1025, 1534, 1535, 1536, 1537,
               2046, 2047>>
ByteOrder == <<0, 512, 1024, 1536>>

(* The two halves of a word are alike, its bytes written one by one differ. *)
WordData(w) == <<<<w, 1>>, <<w, 2>>, <<w, 1>>, <<w, 2>>>>
ByteData(w) == [b \in 1..4 |-> <<w, "byte", b>>]

(* An address line that is always 0, byte enables that are ignored, a cell  *)
(* array whose halves are exchanged when a word is written.                 *)
Stuck(line) == <<"line", line>>
Faults == {<<"none">>, <<"enables">>, <<"halves">>} \cup {Stuck(line) : line \in 0..10}

VARIABLES
  fault, cells,          \* the memory: the cells that were written
  at_step,               \* how far the program is
  TestStatus,
  lastLine,              \* characters of the verdict still to be sent
  tcm_mail_box

tcmVars == <<image, fault, cells, at_step, TestStatus, lastLine, tcm_mail_box>>

TcmInit ==
  /\ fault \in Choice("tcm", Faults)
  /\ cells = <<>> /\ at_step = 1 /\ TestStatus = TRUE
  /\ lastLine = 0 /\ tcm_mail_box = 0

------------------------------------------------------------------------------
Cell(w) ==
  IF fault[1] = "line" /\ (w \div 2^fault[2]) % 2 = 1 THEN w - 2^fault[2] ELSE w

Unwritten == <<<<>>, <<>>, <<>>, <<>>>>
Content(c) == IF c \in DOMAIN cells THEN cells[c] ELSE Unwritten

(* A cell is written, which may be for the first time.                      *)
Store(c, bytes) ==
  cells' = [k \in DOMAIN cells \cup {c} |-> IF k = c THEN bytes ELSE cells[k]]

reg_write(w) ==
  LET d == WordData(w)
  IN  Store(Cell(w), IF fault = <<"halves">> THEN <<d[3], d[4], d[1], d[2]>> ELSE d)

reg_8bit_write(w, b) ==
  LET lane == IF fault = <<"halves">> THEN ((b + 1) % 4) + 1 ELSE b
      byte == ByteData(w)[b]
  IN  Store(Cell(w), IF fault = <<"enables">> THEN <<byte, byte, byte, byte>>
                   ELSE [Content(Cell(w)) EXCEPT ![lane] = byte])

(* A comparison that forgets the ones before it.                            *)
CompareForgets(w, exp_data) == TestStatus' = (Content(Cell(w)) = exp_data)

reg_cmp(w, exp_data) ==
  TestStatus' = (TestStatus /\ Content(Cell(w)) = exp_data)

(* The four parts of run_tcm_mem_check have 16, 16, 16 and 4 steps.         *)
run_tcm_mem_check ==
  /\ at_step \in 1..52
  /\ at_step' = at_step + 1
  /\ \/ at_step \in 1..16 /\ reg_write(WordOrder[at_step]) /\ UNCHANGED TestStatus
     \/ /\ at_step \in 17..32
        /\ LET w == WordOrder[at_step - 16] IN reg_cmp(w, WordData(w))
        /\ UNCHANGED cells
     \/ /\ at_step \in 33..48
        /\ LET k == at_step - 33 IN reg_8bit_write(ByteOrder[(k \div 4) + 1], (k % 4) + 1)
        /\ UNCHANGED TestStatus
     \/ /\ at_step \in 49..52
        /\ LET w == ByteOrder[at_step - 48] IN reg_cmp(w, ByteData(w))
        /\ UNCHANGED cells
  /\ UNCHANGED <<fault, lastLine, tcm_mail_box>>

PrintVerdict ==
  /\ at_step = 53 /\ at_step' = 54 /\ lastLine' = VerdictLine
  /\ UNCHANGED <<fault, cells, TestStatus, tcm_mail_box>>

TcmUartSends ==
  /\ lastLine > 0 /\ lastLine' = lastLine - 1
  /\ UNCHANGED <<fault, cells, at_step, TestStatus, tcm_mail_box>>

EndOfTest ==
  /\ at_step = 54 /\ lastLine = 0
  /\ at_step' = 55 /\ tcm_mail_box' = 255
  /\ UNCHANGED <<fault, cells, TestStatus, lastLine>>

TcmNext ==
  /\ Runs("tcm") /\ UNCHANGED image
  /\ run_tcm_mem_check \/ PrintVerdict \/ TcmUartSends \/ EndOfTest

TcmSpec == TcmInit /\ [][TcmNext]_tcmVars

------------------------------------------------------------------------------
(* When the test says it has ended, it has passed exactly if the memory has *)
(* none of the faults it can see: a fault once seen is not forgotten, the   *)
(* two exchanged halves are seen by the bytes alone, and of the address     *)
(* lines 0, 9 and 10 are tested, of the 2K words sixteen (lines 128-203).   *)
MemoryVerdict ==
  tcm_mail_box = 255 => (TestStatus <=> fault = <<"none">> \/ \E line \in 1..8 : fault = Stuck(line))

------------------------------------------------------------------------------
(* The tests that run from a copy.  The k-th half word of test_function is  *)
(* the number k; of those two store the marks 2 and 3, and the last returns.*)
VARIABLES
  copyPc, src_ptr, dst_ptr,  \* the pointers, counted from test_function and func
  func,          \* the array on the stack; 0 where it was not written
  soft_regs,     \* the marks that were stored, as they were stored
  copy_mail_box,
  testBench      \* the test bench: waits for "boot", for "exit", or checks

copyVars == <<image, copyPc, src_ptr, dst_ptr, func, soft_regs, copy_mail_box, testBench>>

(* The distance of the functions is in bytes, the array's size in half      *)
(* words.                                                                   *)
FuncSize == 2 * Halves

CopyInit ==
  /\ copyPc = "start" /\ src_ptr = 0 /\ dst_ptr = 0
  /\ func = [k \in 0..FuncSize - 1 |-> 0]
  /\ soft_regs = <<>> /\ copy_mail_box = 0 /\ testBench = "boot"

Mark(m) == soft_regs' = Append(soft_regs, m)

StartOfMain ==
  /\ copyPc = "start" /\ copyPc' = "sig0" /\ copy_mail_box' = 1
  /\ UNCHANGED <<src_ptr, dst_ptr, func, soft_regs>>

(* A copy that ends a half word early: the return is missing.               *)
MoreEndsEarly == src_ptr + 1 < Halves

More == src_ptr < Halves

CopyHalf ==
  /\ copyPc = "copy" /\ More
  /\ func' = [func EXCEPT ![dst_ptr] = src_ptr + 1]
  /\ src_ptr' = src_ptr + 1 /\ dst_ptr' = dst_ptr + 1
  /\ UNCHANGED <<copyPc, soft_regs, copy_mail_box>>

(* The routine in the array: what it does is what was copied there; dst_ptr *)
(* serves as the place of the next half word.                               *)
RunHalf ==
  /\ copyPc = "run"
  /\ LET half == func[dst_ptr] IN
       /\ copyPc' = IF half = 0 THEN "lost" ELSE IF half = Halves THEN "sig4" ELSE "run"
       /\ IF half \in 1..2 THEN Mark(half + 1) ELSE UNCHANGED soft_regs
  /\ dst_ptr' = dst_ptr + 1
  /\ UNCHANGED <<src_ptr, func, copy_mail_box>>

Marks ==
  /\ \/ copyPc = "sig0" /\ Mark(0) /\ copyPc' = "copy" /\ UNCHANGED dst_ptr
     \/ copyPc = "copy" /\ ~More /\ Mark(1) /\ copyPc' = "run" /\ dst_ptr' = 0
     \/ copyPc = "sig4" /\ Mark(4) /\ copyPc' = "sig5" /\ UNCHANGED dst_ptr
     \/ copyPc = "sig5" /\ Mark(5) /\ copyPc' = "end" /\ UNCHANGED dst_ptr
  /\ UNCHANGED <<src_ptr, func, copy_mail_box>>

(* The end is said before the last mark.                                    *)
EndSaidEarly ==
  /\ copyPc \in {"sig5", "end"} /\ copy_mail_box # 255 /\ copy_mail_box' = 255
  /\ copyPc' = IF copyPc = "end" THEN "done" ELSE "sig5"
  /\ UNCHANGED <<src_ptr, dst_ptr, func, soft_regs>>

EndOfCopyTest ==
  /\ copyPc = "end" /\ copyPc' = "done" /\ copy_mail_box' = 255
  /\ UNCHANGED <<src_ptr, dst_ptr, func, soft_regs>>

CopyMain == StartOfMain \/ CopyHalf \/ RunHalf \/ Marks \/ EndOfCopyTest

(* The bench looks at the mail box now and then, for 1 and after it for     *)
(* 255; the marks it looks at when it has seen that.                        *)
BenchWaits ==
  /\ \/ testBench = "boot" /\ copy_mail_box = 1 /\ testBench' = "exit"
     \/ testBench = "exit" /\ copy_mail_box = 255
        /\ testBench' = IF soft_regs = <<0, 1, 2, 3, 4, 5>> THEN "passed" ELSE "failed"
  /\ UNCHANGED <<copyPc, src_ptr, dst_ptr, func, soft_regs, copy_mail_box>>

CopyStep(A) == Runs("copied") /\ A /\ UNCHANGED image

CopyNext == CopyStep((CopyMain /\ UNCHANGED testBench) \/ BenchWaits)

CopySpec == CopyInit /\ [][CopyNext]_copyVars

(* What is run from the array was written there before, to the last half    *)
(* word, and no store passes its end; a bench that has seen the end finds   *)
(* all marks in place (user_sram_exec.c, lines 38-68).                      *)
CopyRuns ==
  /\ copyPc # "lost" /\ (copyPc = "copy" => dst_ptr < FuncSize)
  /\ testBench # "failed"

(* A bench that has seen the boot sees the end.  One that looks too seldom  *)
(* may miss the boot, which the mail box shows only until the end           *)
(* (user_tasks.sv, line 439); nothing is claimed of it.                     *)
CopyTestEnds == testBench = "exit" ~> testBench = "passed"

==============================================================================
