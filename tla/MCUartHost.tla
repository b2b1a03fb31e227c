----------------------------- MODULE MCUartHost -----------------------------
(****************************************************************************)
(* Command lines for TLC: whole words and parts of one, bursts of either    *)
(* direction, an address within a word.                                     *)
(****************************************************************************)
EXTENDS UartHost

wm(adr, data) == [op |-> "wm", adr |-> adr, data |-> data]
rm(adr) == [op |-> "rm", adr |-> adr, data |-> <<>>]
br(adr, size) == [op |-> "br", adr |-> adr, data |-> <<>>, size |-> size]

MCCommands ==
  { wm(4, <<<<"1", "2", "3", "4", "5", "6", "7", "8">>, <<"9", "A">>>>),
    wm(6, <<<<"B", "C", "D", "E">>>>),
    wm(9, <<<<"2", "3", "4", "5", "6", "7">>>>),
    rm(4), rm(10), br(4, 2), br(0, 3) }

(* Reads only, to save states where only they matter.                       *)
MCReads == {wm(4, <<<<"9", "A">>>>), rm(4)}

=============================================================================
