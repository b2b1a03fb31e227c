-------------------------------- MODULE JtagVpi --------------------------------
(****************************************************************************)
(* Remote JTAG into the simulation: the system tasks of                     *)
(* verilog/dv/common/vpi/jtag/jtag_vpi.c over JtagServer, and the loop of   *)
(* verilog/dv/common/bfm/bfm_jtag.v that calls them.                        *)
(*                                                                          *)
(* The simulation is one thread.  It polls for a command, carries it out    *)
(* and sends an answer if it was a scan.  Clients come one after another;   *)
(* one sends commands and waits for the answer of each scan, and may leave  *)
(* at any time, in the middle of a packet or of a wait.                     *)
(*                                                                          *)
(* A command is its operation and number of bits.  Of the bits themselves   *)
(* nothing is kept, and of an answer only which command it is for: the code *)
(* sets none of its other fields.                                           *)
(****************************************************************************)
EXTENDS JtagServer, Image

CONSTANTS
  Ops,         \* bound: operations the clients send
  MaxBits,     \* bound: bits of one command
  WordBits,    \* bits of a word of the buffers, eight
  ArrayWords,  \* words of the simulation's buffers, 128; a packet has 512
  MaxSent,     \* bound: commands sent in all
  MaxClients   \* bound: clients

ASSUME JtagAssumption ==
  /\ {MaxBits, WordBits, ArrayWords, MaxSent, MaxClients} \subseteq Nat
  /\ WordBits > 0

VARIABLES
  sim,           \* "polls", "accepts", "runs", "finishes" or "over"
  cmd,           \* the command on the arguments of $check_for_command
  tck,           \* history: bits clocked for the last command
  sent, done,    \* history: the commands sent, those the simulation took
  toClient,      \* bytes of answers, each the number of its command
  waiting,       \* the client waits for an answer
  clients        \* bound: clients so far

simVars == <<sim, cmd, tck, done>>
clientVars == <<sent, wr, peer, waiting, clients>>
jtagVars == <<serverVars, rd, simVars, clientVars, toClient>>

Scans == {"scan", "scan_flip_tms"}
Commands == {c \in [op : Ops, bits : 0..MaxBits] : c.op \in {"tms"} \cup Scans \/ c.bits = 0}
NoCommand == [op |-> "none", bits |-> 0]

Words(bits) == (bits + WordBits - 1) \div WordBits

JtagInit ==
  /\ ServerInit
  /\ sim = "polls" /\ cmd = NoCommand /\ tck = 0
  /\ sent = <<>> /\ done = <<>>
  /\ wr = 0 /\ rd = 0 /\ peer = "none"
  /\ toClient = <<>> /\ waiting = FALSE /\ clients = 0

------------------------------------------------------------------------------
(* The simulation.                                                          *)

(* A lost client does not end the simulation.                               *)
EndsOnErrorOnly(ret) == ret = "error"

(* What makes vpi_check_for_command terminate the simulation.               *)
Ends(ret) == ret \in {"error", "disconnected"}

StartServer ==
  /\ sim = "polls" /\ connfd = NoFd
  /\ \E ret \in Returns :
       /\ jtag_server_create(ret)
       /\ sim' = IF Ends(ret) THEN "finishes" ELSE "accepts"
  /\ UNCHANGED <<cmd, tck, done, rd, clientVars, toClient>>

Accept ==
  /\ sim = "accepts"
  /\ \E ret \in Returns :
       /\ jtag_server_wait_for_client(ret)
       /\ sim' = IF Ends(ret) THEN "finishes" ELSE "polls"
  /\ UNCHANGED <<cmd, tck, done, rd, clientVars, toClient>>

(* The command whose packet holds a byte.                                   *)
SentBy(byte) ==
  sent[CHOOSE k \in DOMAIN sent : (k - 1) * Size < byte /\ byte <= k * Size]

(* The operation is at the head of a packet, the lengths at its end.        *)
Decoded(packet) == [op |-> SentBy(packet[1]).op, bits |-> SentBy(packet[Size]).bits]

(* The words beyond the end of the array are not loaded.                    *)
vpi_check_for_command ==
  /\ sim = "polls" /\ connfd # NoFd
  /\ \E ret \in Returns :
       /\ check_for_command(ret)
       /\ sim' = IF Ends(ret) THEN "finishes"
                 ELSE IF ret = "success" THEN "runs" ELSE "polls"
       /\ IF ret = "success"
            THEN cmd' = Decoded(Packet) /\ done' = Append(done, cmd')
            ELSE UNCHANGED <<cmd, done>>
  /\ UNCHANGED <<tck, clientVars, toClient>>

(* The bits of the last word, by the remainder alone.                       *)
LastWordRemainder(bits) == bits % WordBits

LastWord(bits) == IF bits % WordBits = 0 THEN WordBits ELSE bits % WordBits

do_scan_chain(bits) ==
  IF bits = 0 THEN 0 ELSE (Words(bits) - 1) * WordBits + LastWord(bits)

do_tms_seq(bits) ==
  IF bits = 0 THEN 0 ELSE (Words(bits) - 1) * WordBits + (bits % WordBits)

(* Five clocks to reset the test access port, one to leave the reset.       *)
reset_tap == 5 + 1

(* Every command answered.                                                 *)
AnsweredAll(op) == op \notin {"stop", "unknown"}

(* The commands that have an answer.                                        *)
Answered(op) == op \in Scans

(* write sends the packet, or a part of it and the simulation ends.  An     *)
(* answer longer than the array is not sent.                                *)
vpi_send_result_to_server ==
  IF Words(cmd.bits) > ArrayWords
    THEN sim' = "polls" /\ UNCHANGED toClient
    ELSE \E n \in 0..Size :
           /\ toClient' = toClient \o [i \in 1..n |-> Len(done)]
           /\ sim' = IF send_result_to_server(n) = "success" THEN "polls" ELSE "finishes"

(* One round of the loop of main, after a command came.                     *)
Run ==
  /\ sim = "runs"
  /\ tck' = CASE cmd.op = "reset" -> reset_tap
              [] cmd.op = "tms" -> do_tms_seq(cmd.bits)
              [] cmd.op \in Scans -> do_scan_chain(cmd.bits)
              [] OTHER -> 0
  /\ IF Answered(cmd.op) THEN vpi_send_result_to_server
     ELSE /\ sim' = IF cmd.op \in {"reset", "tms"} THEN "polls" ELSE "finishes"
          /\ UNCHANGED toClient
  /\ UNCHANGED <<serverVars, rd, cmd, done, clientVars>>

sim_finish_callback ==
  /\ sim = "finishes"
  /\ jtag_server_finish
  /\ sim' = "over"
  /\ UNCHANGED <<rd, cmd, tck, done, clientVars, toClient>>

------------------------------------------------------------------------------
(* The clients.                                                             *)

Connect ==
  /\ sim = "accepts" /\ peer = "none" /\ clients < MaxClients
  /\ peer' = "up" /\ waiting' = FALSE /\ clients' = clients + 1
  /\ wr' = Len(sent) * Size /\ rd' = wr'
  /\ toClient' = <<>>
  /\ UNCHANGED <<serverVars, simVars, sent>>

Sends(c, n) ==
  /\ peer = "up" /\ ~waiting /\ Len(sent) < MaxSent
  /\ sent' = Append(sent, c)
  /\ wr' = Len(sent) * Size + n
  /\ waiting' = (c.op \in Scans)
  /\ peer' = IF n < Size THEN "closed" ELSE "up"
  /\ UNCHANGED <<serverVars, rd, simVars, clients, toClient>>

ReceiveAnswer ==
  /\ peer = "up" /\ Len(toClient) >= Size
  /\ toClient' = SubSeq(toClient, Size + 1, Len(toClient))
  /\ waiting' = FALSE
  /\ UNCHANGED <<serverVars, rd, simVars, sent, wr, peer, clients>>

Leave ==
  /\ peer = "up" /\ peer' = "closed"
  /\ UNCHANGED <<serverVars, rd, simVars, sent, wr, waiting, clients, toClient>>

(* The connection is gone at both ends and another client may come.         *)
Gone ==
  /\ peer = "closed" /\ connfd = NoFd /\ sim # "accepts"
  /\ peer' = "none"
  /\ UNCHANGED <<serverVars, rd, simVars, sent, wr, waiting, clients, toClient>>

Simulation ==
  StartServer \/ Accept \/ vpi_check_for_command \/ Run \/ sim_finish_callback

JtagNext ==
  \/ Simulation
  \/ Connect \/ ReceiveAnswer \/ Leave \/ Gone
  \/ \E c \in Commands, n \in 1..Size : Sends(c, n)

JtagSpec == JtagInit /\ [][JtagNext]_jtagVars

(* The server as one of the programs that may run.                          *)
JtagStep(A) == Runs("jtag") /\ A /\ UNCHANGED image

------------------------------------------------------------------------------
(* Descriptors, byte counts and states are of their types.                  *)
JtagTypeOK ==
  /\ listenfd \in Fds \cup {NoFd} /\ connfd \in Fds \cup {NoFd} /\ open \subseteq Fds
  /\ pkt_buf \in Seq(Nat) /\ Len(pkt_buf) < Size
  /\ wr \in Nat /\ rd \in Nat /\ peer \in {"none", "up", "closed"}
  /\ sim \in {"polls", "accepts", "runs", "finishes", "over"}
  /\ sent \in Seq(Commands) /\ done \in Seq(Commands) /\ cmd \in Commands \cup {NoCommand}
  /\ waiting \in BOOLEAN

(* However the packets are torn by the reads, and wherever a client breaks  *)
(* off, the simulation carries out whole commands in the order they were    *)
(* sent, none of them put together from two (jtag_common.c, lines 217-233). *)
ChannelSpec == INSTANCE CommandChannel

CommandsInOrder == ChannelSpec!Spec

(* An answer is for the command its client waits for, and there is one: a   *)
(* part of one is never followed by another (jtag_common.c, line 252).      *)
AnswersOwnScan ==
  peer = "up" =>
    /\ Len(toClient) <= Size
    /\ \A i \in DOMAIN toClient : waiting /\ toClient[i] = Len(sent)

(* The descriptors that are open are those the server knows, whichever call *)
(* fails, and none is left when the simulation is over.                     *)
NoDescriptorLost ==
  /\ open = {listenfd, connfd} \ {NoFd}
  /\ sim = "over" => open = {}

(* A scan shifts each of its bits once, whether or not they fill the last   *)
(* word (bfm_jtag.v, lines 237-240).                                        *)
ScansWhole == sim = "polls" /\ cmd.op \in Scans => tck = cmd.bits

(* A client that waits for a scan the array has room for is answered, or    *)
(* the simulation ends; when a client leaves it ends as well.  A longer     *)
(* scan is not answered (jtag_vpi.c, line 170), but like any other it is    *)
(* carried out and the simulation polls again, unless its client leaves.    *)
ScansAnswered ==
  Runs("jtag") =>
    /\ (waiting /\ Words(sent[Len(sent)].bits) <= ArrayWords /\ peer = "up")
         ~> (~waiting \/ sim = "over")
    /\ (waiting /\ peer = "up")
         ~> (~waiting \/ peer # "up" \/ sim = "over" \/ (sim = "polls" /\ Len(done) = Len(sent)))
    /\ (peer = "closed" /\ connfd # NoFd) ~> (sim = "over")

==============================================================================
