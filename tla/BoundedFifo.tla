----------------------------- MODULE BoundedFifo -----------------------------
(****************************************************************************)
(* What every FIFO of verilog/rtl/lib promises: a queue of at most Depth    *)
(* items that come out in the order they went in, none lost, none repeated. *)
(* The two ends may move in the same instant.                               *)
(****************************************************************************)
EXTENDS Naturals, Sequences

CONSTANTS Data, Depth

VARIABLE queue

Init == queue = <<>>

Put(d) ==
  /\ Len(queue) < Depth
  /\ queue' = Append(queue, d)

Get ==
  /\ queue # <<>>
  /\ queue' = Tail(queue)

PutAndGet(d) ==
  /\ Len(queue) < Depth
  /\ queue # <<>>
  /\ queue' = Append(Tail(queue), d)

Next == Get \/ \E d \in Data : Put(d) \/ PutAndGet(d)

Spec == Init /\ [][Next]_queue

==============================================================================
