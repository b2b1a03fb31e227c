----------------------------- MODULE WireSketches ----------------------------
(****************************************************************************)
(* The sketches of the two-wire bus, verilog/dv/arduino_i2c_wr_rd and       *)
(* arduino_i2c_scaner, with memories as verilog/dv/common/model/            *)
(* i2c_slave_model.v behind the bus.  A transmission may be cut short and a *)
(* memory may send less than it is asked for.                               *)
(****************************************************************************)
EXTENDS Image, Integers, SequencesExt

CONSTANTS
  MaxCuts,     \* bound: transmissions that are cut short
  Scanned    \* the sets of addresses that answer a scan

ASSUME WireAssumption ==
  MaxCuts \in Nat /\ \A present \in Scanned : present \subseteq 0..127

VARIABLES
  port,               \* the memory in use, 1 or 2
  wireStep,           \* "write", "pointer", "request", "print" or "end"
  wireMem, mem_adr,       \* of each memory
  received,           \* the bytes of requestFrom that were not read yet
  wirePrinted,        \* the bytes printed for this port
  cut, cuts,          \* history: this port had a transmission cut, how many in all
  present,            \* the addresses that answer the scan
  address, nDevices,  \* of the scan
  lines               \* history: the lines of this scan

memoryVars == <<port, wireStep, wireMem, mem_adr, received, wirePrinted, cut, cuts>>
scanVars == <<present, address, nDevices, lines>>
wireVars == <<image, memoryVars, scanVars>>

(* What the sketch writes to the memories 0x04 and 0x10, from a location on. *)
Location == <<2, 32>>
WireBytes == <<[i \in 1..8 |-> 17 * i], [i \in 1..8 |-> i]>>
Size8 == 8
Counts == {0, 3, Size8}    \* bound: the bytes that come of a read
Cells == 0..(32 + 2 * Size8)

WireInit ==
  /\ port = 1 /\ wireStep = "write"
  /\ wireMem = [p \in 1..2 |-> [a \in Cells |-> 0]] /\ mem_adr = [p \in 1..2 |-> 0]
  /\ received = <<>> /\ wirePrinted = <<>> /\ cut = FALSE /\ cuts = 0
  /\ present \in Choice("i2c_scan", Scanned)
  /\ address = 1 /\ nDevices = 0 /\ lines = <<>>

------------------------------------------------------------------------------
(* A memory takes the first byte as the location and stores the others.     *)
Stored(bytes) ==
  LET first == bytes[1]
  IN  [a \in Cells |-> IF a \in first..(first + Len(bytes) - 2) THEN bytes[a - first + 2]
                       ELSE wireMem[port][a]]

Transmit(bytes) ==
  \E n \in (IF cuts < MaxCuts THEN 0..Len(bytes) ELSE {Len(bytes)}) :
    /\ IF n = 0 THEN UNCHANGED <<wireMem, mem_adr>>
       ELSE /\ wireMem' = [wireMem EXCEPT ![port] = Stored(SubSeq(bytes, 1, n))]
            /\ mem_adr' = [mem_adr EXCEPT ![port] = bytes[1] + n - 1]
    /\ cut' = (cut \/ n < Len(bytes))
    /\ cuts' = IF n < Len(bytes) THEN cuts + 1 ELSE cuts

WireStep(step, next) == wireStep = step /\ wireStep' = next

WriteMemory ==
  /\ WireStep("write", "pointer")
  /\ Transmit(<<Location[port]>> \o WireBytes[port])
  /\ UNCHANGED <<port, received, wirePrinted>>

(* The location is not sent again before the read.                          *)
PointerNotReset ==
  /\ WireStep("pointer", "request")
  /\ UNCHANGED <<port, wireMem, mem_adr, received, wirePrinted, cut, cuts>>

ResetPointer ==
  /\ WireStep("pointer", "request")
  /\ Transmit(<<Location[port]>>)
  /\ UNCHANGED <<port, received, wirePrinted>>

(* The memory sends from its location on, the master may get fewer bytes.   *)
requestFrom ==
  /\ WireStep("request", "print")
  /\ \E n \in Counts :
       /\ received' = [i \in 1..n |-> wireMem[port][mem_adr[port] + i - 1]]
       /\ mem_adr' = [mem_adr EXCEPT ![port] = @ + n]
  /\ UNCHANGED <<port, wireMem, wirePrinted, cut, cuts>>

PrintByte ==
  /\ wireStep = "print" /\ received # <<>>
  /\ wirePrinted' = Append(wirePrinted, Head(received))
  /\ received' = Tail(received)
  /\ UNCHANGED <<port, wireStep, wireMem, mem_adr, cut, cuts>>

AllPrintedBytes ==
  /\ WireStep("print", "end") /\ received = <<>>
  /\ UNCHANGED <<port, wireMem, mem_adr, received, wirePrinted, cut, cuts>>

(* The last endTransmission has nothing to send.                            *)
OtherPort ==
  /\ WireStep("end", "write")
  /\ port' = 3 - port /\ wirePrinted' = <<>> /\ cut' = FALSE
  /\ UNCHANGED <<wireMem, mem_adr, received, cuts>>

WriteAndRead ==
  /\ Runs("i2c_wr_rd")
  /\ WriteMemory \/ ResetPointer \/ requestFrom \/ PrintByte \/ AllPrintedBytes \/ OtherPort
  /\ UNCHANGED scanVars

------------------------------------------------------------------------------
(* The scan.                                                                *)
LastAddress == 31
Troubled == {1, LastAddress}   \* bound: where the bus may be in trouble

(* print(address, HEX), with a zero before one digit.                       *)
HexDigits(a) == IF a < 16 THEN <<a>> ELSE <<a \div 16, a % 16>>

(* Sixteen has two digits of its own.                                       *)
PaddedAll(a) == IF a <= 16 THEN <<0>> \o HexDigits(a) ELSE HexDigits(a)

Padded(a) == IF a < 16 THEN <<0>> \o HexDigits(a) ELSE HexDigits(a)

(* 0 for an answer, 2 for none; on a bus in trouble 4, whoever is there.    *)
endTransmission(a) == {IF a \in present THEN 0 ELSE 2} \cup (IF a \in Troubled THEN {4} ELSE {})

Probe ==
  /\ address <= LastAddress
  /\ \E error \in endTransmission(address) :
       /\ lines' = Append(lines, [says |-> CASE error = 0 -> "found" [] error = 4 -> "unknown"
                                              [] OTHER -> "none",
                                  digits |-> Padded(address)])
       /\ nDevices' = IF error = 0 THEN nDevices + 1 ELSE nDevices
  /\ address' = address + 1

EndOfScan ==
  /\ address > LastAddress
  /\ lines' = Append(lines, [says |-> IF nDevices = 0 THEN "nobody" ELSE "done",
                             digits |-> <<>>])
  /\ address' = 0 /\ UNCHANGED nDevices

NextScan == address = 0 /\ address' = 1 /\ nDevices' = 0 /\ lines' = <<>>

Scan ==
  /\ Runs("i2c_scan")
  /\ (address > 0 /\ (Probe \/ EndOfScan)) \/ NextScan
  /\ UNCHANGED <<present, memoryVars>>

WireNext == (WriteAndRead \/ Scan) /\ UNCHANGED image

WireSpec == WireInit /\ [][WireNext]_wireVars

------------------------------------------------------------------------------
(* What is printed for a memory is what was written to it, in order and     *)
(* from the first byte on, unless a transmission of this pass was cut; a    *)
(* cut one of the pass before does not matter, nor where the memory's       *)
(* location was left then.                                                  *)
ReadBack == ~cut => IsPrefix(wirePrinted, WireBytes[port])

(* A scan has a line for each address in order, the devices found are those *)
(* that are there and answered, and the last line says whether there were   *)
(* any.                                                                     *)
LineDigits(l) == IF Len(l.digits) = 2 THEN 16 * l.digits[1] + l.digits[2] ELSE -1
Found == {k \in DOMAIN lines : lines[k].says = "found"}

ScanRight ==
  /\ \A k \in DOMAIN lines : k <= LastAddress => LineDigits(lines[k]) = k
  /\ Found \subseteq present
  /\ \A k \in DOMAIN lines : lines[k].says = "none" => k \notin present
  /\ Len(lines) > LastAddress =>
       (lines[Len(lines)].says = "done") = (Found # {})

==============================================================================
