----------------------------- MODULE WbArbHistory -----------------------------
(****************************************************************************)
(* The arbiter of WbArb with a history variable that counts how often the   *)
(* grant passed a waiting master by, to ask how fair the arbitration of     *)
(* wb_arb.sv is.                                                            *)
(****************************************************************************)
EXTENDS WbArb

CONSTANT CountBound  \* bound: the history counter saturates here

ASSUME CountBoundAssumption == CountBound \in Nat \ {0, 1}

VARIABLE overtaken  \* grants given to others since a master began to wait

vars == <<gnt, req, overtaken>>

HInit == Init /\ overtaken = [m \in Masters |-> 0]

(* A master that neither holds the grant nor is being given it waits; the   *)
(* grant moving to another master overtakes it.                             *)
Overtakes(g, r) ==
  [m \in Masters |->
     IF m \notin r \/ m \in {gnt, g} THEN 0
     ELSE IF g # gnt /\ overtaken[m] < CountBound THEN overtaken[m] + 1
     ELSE overtaken[m]]

HClockEdge == ClockEdge /\ overtaken' = Overtakes(gnt', req)

HSpec == HInit /\ [][HClockEdge]_vars

------------------------------------------------------------------------------
(* The history counts up to its bound.                                      *)
HTypeOK == TypeOK /\ overtaken \in [Masters -> 0..CountBound]

(* Masters 0 (the host, the core's data port) and 1 are overtaken at most   *)
(* once while they wait: from grant1 only grant3 comes before 0, and grant3 *)
(* looks at 0 first; only grant0 comes before 1, and it looks at 1 first.   *)
BoundedOvertaking == overtaken[0] <= 1 /\ overtaken[1] <= 1

==============================================================================
