------------------------------ MODULE JtagServer ------------------------------
(****************************************************************************)
(* The sockets of the JTAG server, verilog/dv/common/vpi/jtag/              *)
(* jtag_common.c: descriptors, and packets put together from what a         *)
(* non-blocking read returns.                                               *)
(*                                                                          *)
(* The bytes of a connection are known by their place in all that was ever  *)
(* sent: command k is the bytes (k - 1) * Size + 1 .. k * Size.  `ret' is   *)
(* what a function returns.                                                 *)
(****************************************************************************)
EXTENDS Integers, Sequences

CONSTANTS
  Size,  \* bytes of a packet
  Fds    \* bound: the descriptors the process may have

ASSUME ServerAssumption == Size \in Nat /\ Size > 1 /\ Fds \subseteq Nat

VARIABLES
  listenfd, connfd,
  pkt_buf,           \* the bytes received so far; pkt_buf_bytes is its length
  open,              \* the descriptors of the process that are open
  wr, rd,            \* the connection: bytes sent to the server, bytes read
  peer               \* the client's end: "none", "up" or "closed"

serverVars == <<listenfd, connfd, pkt_buf, open>>

NoFd == -1
Returns == {"success", "error", "try_later", "disconnected"}

ServerInit ==
  /\ listenfd = NoFd /\ connfd = NoFd
  /\ pkt_buf = <<>>
  /\ open = {}

(* socket, then setsockopt, bind and listen, each of which may fail.        *)
jtag_server_create(ret) ==
  /\ \/ ret = "error" /\ UNCHANGED <<listenfd, open>>
     \/ /\ ret \in {"success", "error"}
        /\ \E fd \in Fds \ open : listenfd' = fd /\ open' = open \cup {fd}
  /\ UNCHANGED <<connfd, pkt_buf>>

(* accept blocks until a client is there, then fcntl and setsockopt.        *)
jtag_server_wait_for_client(ret) ==
  /\ \/ ret = "error" /\ UNCHANGED <<connfd, open>>
     \/ /\ ret \in {"success", "error"} /\ peer # "none"
        /\ \E fd \in Fds \ open : connfd' = fd /\ open' = open \cup {fd}
  /\ UNCHANGED <<listenfd, pkt_buf>>

(* The listening socket forgotten.                                          *)
FinishClientOnly ==
  open' = open \ {connfd} /\ connfd' = NoFd /\ UNCHANGED <<listenfd, pkt_buf>>

jtag_server_finish ==
  /\ open' = open \ {connfd, listenfd}
  /\ connfd' = NoFd /\ listenfd' = NoFd
  /\ UNCHANGED pkt_buf

(* The bytes of one read.                                                   *)
Arrived(n) == [i \in 1..n |-> rd + i]

(* read returns some of what is there, no more than the packet needs.       *)
Readable == {n \in 1..(Size - Len(pkt_buf)) : rd + n <= wr}

(* The reset of the buffer left out.                                        *)
ReceiveNoReset(ret, n) ==
  LET received == pkt_buf \o Arrived(n)
  IN  /\ rd' = rd + n
      /\ ret = IF Len(received) < Size THEN "try_later" ELSE "success"
      /\ pkt_buf' = received
      /\ UNCHANGED <<listenfd, connfd, open>>

(* A whole packet empties the buffer; a part of one stays in it.            *)
Receive(ret, n) ==
  LET received == pkt_buf \o Arrived(n)
  IN  /\ rd' = rd + n
      /\ ret = IF Len(received) < Size THEN "try_later" ELSE "success"
      /\ pkt_buf' = IF Len(received) < Size THEN received ELSE <<>>
      /\ UNCHANGED <<listenfd, connfd, open>>

(* The packet that a successful read completes.                             *)
Packet == pkt_buf \o Arrived(Size - Len(pkt_buf))

(* check_for_command when a client is connected.  A read that finds nothing *)
(* changes nothing and is left out; after the peer has gone it may fail.    *)
check_for_command(ret) ==
  \/ \E n \in Readable : Receive(ret, n)
  \/ /\ rd = wr /\ peer = "closed" /\ ret = "disconnected"
     /\ jtag_server_finish
     /\ UNCHANGED rd
  \/ peer = "closed" /\ ret = "error" /\ UNCHANGED <<serverVars, rd>>

(* What becomes of an answer of which write took n bytes.                   *)
send_result_to_server(n) == IF n < Size THEN "error" ELSE "success"

==============================================================================
