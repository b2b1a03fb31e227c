---------------------------- MODULE CommandChannel ----------------------------
(****************************************************************************)
(* What a debugger may take for granted of the JTAG server: the commands it *)
(* sends are carried out in order, none twice, none invented; some at the   *)
(* end may be left undone.                                                  *)
(****************************************************************************)
EXTENDS Naturals, Sequences

CONSTANT Commands

VARIABLES sent, done

Init == sent = <<>> /\ done = <<>>

Send(c) == sent' = Append(sent, c) /\ UNCHANGED done

Do ==
  /\ Len(done) < Len(sent)
  /\ done' = Append(done, sent[Len(done) + 1])
  /\ UNCHANGED sent

Next == Do \/ \E c \in Commands : Send(c)

Spec == Init /\ [][Next]_<<sent, done>>

==============================================================================
