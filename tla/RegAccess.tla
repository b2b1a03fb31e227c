------------------------------ MODULE RegAccess ------------------------------
(****************************************************************************)
(* What a register bus that crosses two clocks promises: an access that is  *)
(* asked for is served once, and answered once after that.                  *)
(****************************************************************************)

VARIABLE phase

Init == phase = "idle"

Ask    == phase = "idle"   /\ phase' = "asked"
Serve  == phase = "asked"  /\ phase' = "served"
Answer == phase = "served" /\ phase' = "idle"

Next == Ask \/ Serve \/ Answer

Spec == Init /\ [][Next]_phase

==============================================================================
