-------------------------------- MODULE WbArb --------------------------------
(****************************************************************************)
(* The four-way Wishbone arbiter, verilog/rtl/wb_interconnect/src/          *)
(* wb_arb.sv.  One instance sits in front of every slave port, one in front *)
(* of the interconnect's own registers and one in wb_host.                  *)
(*                                                                          *)
(* The arbiter's only register is its two-bit state, which is the grant.    *)
(* The requesters are the environment: a requester that is not granted      *)
(* keeps its request up, one that is granted drops it when its transfer is  *)
(* over.  The impatient ones (the SPI bridge of wb_host, whose request      *)
(* falls with its chip select) may withdraw at any time.                    *)
(****************************************************************************)
EXTENDS Naturals

CONSTANTS
  Active,    \* the masters wired to this instance
  Impatient  \* those that may withdraw a request that is not granted

Masters == 0..3

ASSUME WbArbAssumption ==
  /\ Active \subseteq Masters
  /\ Impatient \subseteq Active

VARIABLES
  gnt,  \* the state register, which is the grant output
  req   \* the masters whose request line is up

arbVars == <<gnt, req>>

------------------------------------------------------------------------------
(* Slips a rewrite of the table could make: grant3 searched downwards, the  *)
(* two upper masters searched first, and a rotation that forgets to wrap.   *)
SearchOrderThreeDescends(g) ==
  CASE g = 0 -> <<1, 2, 3>>
    [] g = 1 -> <<3, 0, 2>>
    [] g = 2 -> <<0, 1, 3>>
    [] OTHER -> <<2, 1, 0>>

SearchOrderHighFirst(g) ==
  CASE g = 0 -> <<3, 2, 1>>
    [] g = 1 -> <<3, 2, 0>>
    [] g = 2 -> <<3, 1, 0>>
    [] OTHER -> <<2, 1, 0>>

NextGrantUnwrapped(g, r) == IF g \in r \/ r = {} THEN g ELSE g + 1

(* The order in which a parked state looks at the other requests.  In       *)
(* grant1 the test of req[3] is a fresh "if" after the one of req[2], so    *)
(* that req[3], and then req[0], override it.                               *)
SearchOrder(g) ==
  CASE g = 0 -> <<1, 2, 3>>
    [] g = 1 -> <<3, 0, 2>>
    [] g = 2 -> <<0, 1, 3>>
    [] OTHER -> <<0, 1, 2>>

(* The grant parks while its master requests or nobody does; otherwise it   *)
(* moves to the first requester in the search order.                        *)
NextGrant(g, r) ==
  LET order == SearchOrder(g)
  IN  IF g \in r THEN g
      ELSE IF order[1] \in r THEN order[1]
      ELSE IF order[2] \in r THEN order[2]
      ELSE IF order[3] \in r THEN order[3]
      ELSE g

Init ==
  /\ gnt = 0
  /\ req = {}

(* One rising clock edge: the state register moves, and the request lines   *)
(* change as their masters please, except that a patient master that is not *)
(* granted keeps its request.                                               *)
ClockEdge ==
  /\ gnt' = NextGrant(gnt, req)
  /\ req' \in SUBSET Active
  /\ req \ ({gnt} \cup Impatient) \subseteq req'

Spec == Init /\ [][ClockEdge]_arbVars

------------------------------------------------------------------------------
(* The registers hold values of their ranges: the two-bit state names one   *)
(* of the four masters, and only wired masters request.                     *)
TypeOK ==
  /\ gnt \in Masters
  /\ req \subseteq Active

==============================================================================
