----------------------------- MODULE AsyncRegBus -----------------------------
(****************************************************************************)
(* The register bus between two clocks, verilog/rtl/lib/async_reg_bus.sv: a *)
(* four-phase handshake of two flags, each of which crosses two flops.      *)
(* Address, data and byte enables cross without any; the word that is read  *)
(* is caught when the target's flag arrives.                                *)
(*                                                                          *)
(* The inputs are parameters: cs of the initiator, ack and rdata of the     *)
(* target.  The nine-bit timer is the choice `expires' of whether its 512   *)
(* clocks are over.                                                         *)
(****************************************************************************)
EXTENDS Naturals

VARIABLES
  in_state, in_flag,                        \* the initiator
  in_reg_ack, in_reg_rdata, in_reg_timeout, \*   and its answer
  out_flag_s, out_flag_ss,                  \*   and the flops it looks through
  out_state, out_flag, out_reg_cs,          \* the target
  in_flag_s, in_flag_ss                     \*   and its flops

iniVars == <<in_state, in_flag, in_reg_ack, in_reg_rdata, in_reg_timeout,
             out_flag_s, out_flag_ss>>
tarVars == <<out_state, out_flag, out_reg_cs, in_flag_s, in_flag_ss>>
regBusVars == <<iniVars, tarVars>>

RegBusInit(zero) ==
  /\ in_state = "INI_IDLE" /\ in_flag = FALSE
  /\ in_reg_ack = FALSE /\ in_reg_rdata = zero /\ in_reg_timeout = FALSE
  /\ out_flag_s = FALSE /\ out_flag_ss = FALSE
  /\ out_state = "TAR_IDLE" /\ out_flag = FALSE /\ out_reg_cs = FALSE
  /\ in_flag_s = FALSE /\ in_flag_ss = FALSE

------------------------------------------------------------------------------
(* The initiator's clock.                                                   *)

IniIdle(cs) ==
  /\ in_state = "INI_IDLE"
  /\ in_reg_ack' = FALSE /\ in_reg_timeout' = FALSE
  /\ IF cs THEN in_flag' = TRUE /\ in_state' = "INI_WAIT_ACK"
           ELSE UNCHANGED <<in_flag, in_state>>
  /\ UNCHANGED in_reg_rdata

(* The flag of an access that is over stays up.                             *)
IniDoneFlagStays(rdata) ==
  /\ in_state = "INI_WAIT_ACK" /\ out_flag_ss
  /\ in_reg_rdata' = rdata
  /\ in_reg_ack' = TRUE
  /\ in_state' = "INI_WAIT_TAR_DONE"
  /\ UNCHANGED <<in_flag, in_reg_timeout>>

IniDone(rdata) ==
  /\ in_state = "INI_WAIT_ACK" /\ out_flag_ss
  /\ in_flag' = FALSE
  /\ in_reg_rdata' = rdata
  /\ in_reg_ack' = TRUE
  /\ in_state' = "INI_WAIT_TAR_DONE"
  /\ UNCHANGED in_reg_timeout

(* Given up without telling the one who asked.                              *)
IniTimesOutSilently(zero) ==
  /\ in_state = "INI_WAIT_ACK" /\ ~out_flag_ss
  /\ in_flag' = FALSE
  /\ in_reg_rdata' = zero /\ in_reg_timeout' = TRUE
  /\ in_state' = "INI_IDLE"
  /\ UNCHANGED in_reg_ack

(* Nobody answered: the access is given up with a word of zero.             *)
IniTimesOut(zero) ==
  /\ in_state = "INI_WAIT_ACK" /\ ~out_flag_ss
  /\ in_flag' = FALSE
  /\ in_reg_ack' = TRUE /\ in_reg_rdata' = zero /\ in_reg_timeout' = TRUE
  /\ in_state' = "INI_IDLE"

IniWaits ==
  /\ in_state = "INI_WAIT_ACK" /\ ~out_flag_ss
  /\ UNCHANGED <<in_state, in_flag, in_reg_ack, in_reg_rdata, in_reg_timeout>>

(* Ready for the next access without waiting for the target's flag to fall. *)
IniTarDoneAtOnce ==
  /\ in_state = "INI_WAIT_TAR_DONE"
  /\ in_reg_ack' = FALSE
  /\ in_state' = "INI_IDLE"
  /\ UNCHANGED <<in_flag, in_reg_rdata, in_reg_timeout>>

IniTarDone ==
  /\ in_state = "INI_WAIT_TAR_DONE"
  /\ in_reg_ack' = FALSE
  /\ in_state' = IF out_flag_ss THEN in_state ELSE "INI_IDLE"
  /\ UNCHANGED <<in_flag, in_reg_rdata, in_reg_timeout>>

Initiator(cs, rdata, zero, expires) ==
  \/ IniIdle(cs)
  \/ IniDone(rdata)
  \/ expires /\ IniTimesOut(zero)
  \/ ~expires /\ IniWaits
  \/ IniTarDone

------------------------------------------------------------------------------
(* The target's clock.                                                      *)

TarIdle ==
  /\ out_state = "TAR_IDLE"
  /\ out_flag' = FALSE
  /\ IF in_flag_ss THEN out_reg_cs' = TRUE /\ out_state' = "TAR_WAIT_ACK"
                   ELSE UNCHANGED <<out_reg_cs, out_state>>

(* A strobe that stays up until the initiator is done.                      *)
TarWaitAckStrobeStays(ack) ==
  /\ out_state = "TAR_WAIT_ACK"
  /\ IF ack
       THEN out_flag' = TRUE /\ out_state' = "TAR_WAIT_INI_DONE"
       ELSE UNCHANGED <<out_flag, out_state>>
  /\ UNCHANGED out_reg_cs

TarWaitAck(ack) ==
  /\ out_state = "TAR_WAIT_ACK"
  /\ IF ack
       THEN out_reg_cs' = FALSE /\ out_flag' = TRUE /\ out_state' = "TAR_WAIT_INI_DONE"
       ELSE UNCHANGED <<out_reg_cs, out_flag, out_state>>

TarWaitIniDone ==
  /\ out_state = "TAR_WAIT_INI_DONE"
  /\ IF in_flag_ss THEN UNCHANGED <<out_flag, out_state>>
                   ELSE out_flag' = FALSE /\ out_state' = "TAR_IDLE"
  /\ UNCHANGED out_reg_cs

Target(ack) == TarIdle \/ TarWaitAck(ack) \/ TarWaitIniDone

------------------------------------------------------------------------------
(* Edges of the two clocks.  A flop that samples a flag while it changes    *)
(* catches the old or the new one.                                          *)
SyncOutFlag(caught) == out_flag_s' = caught /\ out_flag_ss' = out_flag_s
SyncInFlag(caught)  == in_flag_s' = caught /\ in_flag_ss' = in_flag_s

InEdge(cs, rdata, zero, expires) ==
  Initiator(cs, rdata, zero, expires) /\ SyncOutFlag(out_flag) /\ UNCHANGED tarVars

OutEdge(ack) == Target(ack) /\ SyncInFlag(in_flag) /\ UNCHANGED iniVars

InOutEdge(cs, rdata, zero, expires, ack) ==
  /\ Initiator(cs, rdata, zero, expires)
  /\ Target(ack)
  /\ \E caught \in {out_flag, out_flag'} : SyncOutFlag(caught)
  /\ \E caught \in {in_flag, in_flag'} : SyncInFlag(caught)

(* How far the initiator's access has come.                                 *)
phase ==
  IF in_state # "INI_WAIT_ACK" THEN "idle"
  ELSE IF out_flag THEN "served" ELSE "asked"

Access == INSTANCE RegAccess

(* An access is served once and answered once, after it was served and      *)
(* before the next one is asked for, although neither side sees the other   *)
(* but through two flops.                                                   *)
RegAccessSpec == Access!Spec

==============================================================================
