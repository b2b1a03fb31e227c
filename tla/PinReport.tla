------------------------------ MODULE PinReport ------------------------------
(****************************************************************************)
(* The sketch verilog/dv/arduino_gpio_input: it waits for each pin in turn  *)
(* to be high and says so, then for each in turn to be low.  The levels go  *)
(* on changing while it waits and while it prints.                          *)
(****************************************************************************)
EXTENDS Image, Naturals, Sequences

CONSTANTS
  numRows,       \* pins of the sketch, twenty
  LevelChanges   \* bound: changes of levels

ASSUME RowsAssumption == numRows \in Nat \ {0} /\ LevelChanges \in Nat

VARIABLES
  row,        \* the pin of this turn of the for loop, 0..numRows-1
  awaited,    \* the loop it is in: the level it waits for
  reporting,  \* parts of the line of this pin still to be printed
  rowLevel, levelChanges,
  edges       \* history: changes of each pin since it was found, at first since low

reportVars == <<image, row, awaited, reporting, rowLevel, levelChanges, edges>>

rowPins == 0..(numRows - 1)

ReportInit ==
  /\ row = 0 /\ awaited = 1 /\ reporting = 0
  /\ rowLevel \in Choice("inputs", [rowPins -> {0, 1}]) /\ levelChanges = 0
  /\ edges = rowLevel

AtAwaited == rowLevel[row] = awaited

(* Each loop with the test of the other.                                    *)
WhileSwapped ==
  /\ reporting = 0 /\ rowLevel[row] = 1 - awaited
  /\ reporting' = 3 /\ edges' = [edges EXCEPT ![row] = 0]
  /\ UNCHANGED <<row, awaited, rowLevel, levelChanges>>

WhileDigitalRead ==
  /\ reporting = 0 /\ AtAwaited
  /\ reporting' = 3 /\ edges' = [edges EXCEPT ![row] = 0]
  /\ UNCHANGED <<row, awaited, rowLevel, levelChanges>>

(* Both loops with the same test.                                           *)
SerialPrintOneLoop ==
  /\ reporting > 0 /\ reporting' = reporting - 1
  /\ row' = IF reporting > 1 THEN row ELSE (row + 1) % numRows
  /\ UNCHANGED <<awaited, rowLevel, levelChanges, edges>>

(* Three parts of a line; after the last one the next pin, and after the    *)
(* last pin the other loop.                                                 *)
SerialPrint ==
  /\ reporting > 0 /\ reporting' = reporting - 1
  /\ row' = IF reporting > 1 THEN row ELSE (row + 1) % numRows
  /\ awaited' = IF reporting = 1 /\ row' = 0 THEN 1 - awaited ELSE awaited
  /\ UNCHANGED <<rowLevel, levelChanges, edges>>

LevelChange ==
  /\ levelChanges < LevelChanges /\ levelChanges' = levelChanges + 1
  /\ \E p \in rowPins : /\ rowLevel' = [rowLevel EXCEPT ![p] = 1 - @]
                        /\ edges' = [edges EXCEPT ![p] = @ + 1]
  /\ UNCHANGED <<row, awaited, reporting>>

ReportStep(A) == Runs("inputs") /\ A /\ UNCHANGED image
Looping == ReportStep(WhileDigitalRead \/ SerialPrint)

ReportNext == Looping \/ ReportStep(LevelChange)

ReportSpec == ReportInit /\ [][ReportNext]_reportVars

------------------------------------------------------------------------------
LastFound(p) ==
  IF p < row \/ (p = row /\ reporting > 0) THEN awaited ELSE 1 - awaited

(* The reports are true and complete for what is found: a pin that is       *)
(* reported high was last reported low, and has changed since then, an odd  *)
(* number of times; so at all times its changes since the last report tell  *)
(* its level, also when it changed while another pin was awaited or the     *)
(* line printed.                                                            *)
EdgesTellLevel ==
  \A p \in rowPins : rowLevel[p] = (LastFound(p) + edges[p]) % 2

(* When the levels stay as they are the sketch goes on until it waits for a *)
(* pin that is not at the level asked for, and does not run on printing.    *)
ReportsComeToRest ==
  Runs("inputs") => <>[](reporting = 0 /\ ~AtAwaited)

==============================================================================
