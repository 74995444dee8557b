----------------------------- MODULE SocketCmd -----------------------------
(***************************************************************************)
(* The commands send and recv of socket_cmd.c and the four functions they  *)
(* dispatch to: a UDP or TCP server or client that sends or receives a     *)
(* number of packets, with blocking or non-blocking sockets.  The network  *)
(* and the driver are external: a call succeeds, in part where the socket  *)
(* is a stream, fails, or finds nothing to do (SL_ERROR_BSD_EAGAIN).  A    *)
(* non-blocking call repeated after a pause with nothing changed is a      *)
(* stuttering step.                                                        *)
(*                                                                         *)
(* The driver has a fixed number of sockets; what a command leaves open    *)
(* stays open for the rest of the session.                                 *)
(***************************************************************************)
EXTENDS Integers, FiniteSets

CONSTANTS
  NumPackets,      (* numberOfPackets                                        *)
  BufLen,          (* BUF_LEN, in units of a partial transfer                *)
  MsgLen,          (* length of custom_msg, in the same units                *)
  RcvLen,          (* bytes_to_rcv                                           *)
  MaxSegment,      (* bound: what one sl_Recv returns at most                *)
  RECEIVE_TIMEOUT, (* seconds a receiver waits: trials of a non-blocking one *)
  MaxSockets       (* SL_MAX_SOCKETS                                         *)

ASSUME SocketAssumption ==
  /\ {NumPackets, BufLen, MsgLen, RcvLen, MaxSegment, RECEIVE_TIMEOUT,
      MaxSockets} \subseteq Nat \ {0}

VARIABLES
  cmd,             (* the command: its flags tx, udp, server and nb          *)
  at,              (* where it is                                            *)
  open,            (* its open sockets                                       *)
  i,               (* packets, or for a stream units, sent or received       *)
  nbCounter,       (* nb_counter: non-blocking receives that found nothing   *)
  result,          (* what the command returns: 0 is ok, -1 is failed        *)
  leaked           (* sockets earlier commands have left open                *)

vars == <<cmd, at, open, i, nbCounter, result, leaked>>
frame == <<cmd, leaked>>

Commands == [tx : BOOLEAN, udp : BOOLEAN, server : BOOLEAN, nb : BOOLEAN]
Points   == {"prompt", "setup", "accept", "connect", "hello", "loop", "send",
             "closeNew", "close", "returned"}

Is(udp, server) == cmd.udp = udp /\ cmd.server = server

\* What a command has to move before its loop ends.  A product of 2^32 bytes and
\* more, which the code would cut, is left out; a TCP client that sends has one
\* message, whatever the number of packets.
Total ==
  IF cmd.udp THEN NumPackets
  ELSE IF ~cmd.tx THEN RcvLen
  ELSE IF cmd.server THEN NumPackets * BufLen ELSE MsgLen

Least(m, n) == IF m < n THEN m ELSE n

Keep == UNCHANGED <<i, nbCounter>>
Goes(to) == at' = to /\ UNCHANGED result

\* return(-1), with these sockets left open.
Fails(left) ==
  at' = "returned" /\ result' = "failed" /\ open' = left /\ Keep

Init ==
  /\ cmd = [tx |-> FALSE, udp |-> FALSE, server |-> FALSE, nb |-> FALSE]
  /\ at = "prompt" /\ open = {} /\ i = 0 /\ nbCounter = 0
  /\ result = "none" /\ leaked = 0

\* Both commands choose the function by the flags udp and server.
Dispatch(tx) ==
  /\ at = "prompt"
  /\ cmd' \in {c \in Commands : c.tx = tx}
  /\ i' = 0 /\ nbCounter' = 0
  /\ UNCHANGED <<open, leaked>>

cmdSend == Dispatch(TRUE) /\ at' = "setup" /\ result' = "none"

\* sl_WlanRxStatStart may fail.
cmdRecv ==
  /\ Dispatch(FALSE)
  /\ \/ at' = "setup" /\ result' = "none"
     \/ at' = "returned" /\ result' = "failed"

Return ==
  /\ at = "returned" /\ at' = "prompt"
  /\ leaked' = leaked + Cardinality(open)
  /\ open' = {}
  /\ UNCHANGED <<cmd, i, nbCounter, result>>

\* sl_Socket, and the calls that prepare the socket: the socket is closed when
\* one of them fails.
Sets(to) ==
  /\ at = "setup"
  /\ \/ Fails({})
     \/ leaked < MaxSockets /\ open' = {"sock"} /\ Goes(to) /\ Keep
  /\ UNCHANGED frame

(* UDPServer *)

UDPServerSetup == Is(TRUE, TRUE) /\ Sets("loop")

\* The first packet waits for a client to learn its address.  A non-blocking
\* server tries for ever, a blocking one gives up.
UDPServerHear ==
  /\ Is(TRUE, TRUE) /\ at = "loop" /\ cmd.tx /\ i = 0
  /\ \/ Goes("send") /\ Keep /\ UNCHANGED open
     \/ Fails({})
  /\ UNCHANGED frame

UDPServerSend ==
  /\ Is(TRUE, TRUE) /\ cmd.tx
  /\ at = "send" \/ (at = "loop" /\ 0 < i /\ i < NumPackets)
  /\ \/ Goes("loop") /\ i' = i + 1 /\ UNCHANGED <<open, nbCounter>>
     \/ Fails({})
  /\ UNCHANGED frame

\* Mutant: a receiver that finds nothing tries again without counting.
ReceiveUncounted ==
  \/ i' = i + 1 /\ Goes("loop") /\ UNCHANGED <<open, nbCounter>>
  \/ cmd.nb /\ Goes("loop") /\ Keep /\ UNCHANGED open
  \/ ~cmd.nb /\ Goes("close") /\ Keep /\ UNCHANGED open
  \/ Fails({})

\* Mutant: the trials are counted and nobody looks at the count.
ReceiveForever ==
  \/ i' = i + 1 /\ Goes("loop") /\ UNCHANGED <<open, nbCounter>>
  \/ nbCounter' = nbCounter + 1 /\ Goes("loop") /\ UNCHANGED <<open, i>>
  \/ Fails({})

\* sl_RecvFrom: a packet; nothing, which ends the loop at once when the socket
\* blocks and otherwise at the RECEIVE_TIMEOUT-th time; or an error.
Receive ==
  \/ i' = i + 1 /\ Goes("loop") /\ UNCHANGED <<open, nbCounter>>
  \/ /\ nbCounter' = IF cmd.nb THEN nbCounter + 1 ELSE nbCounter
     /\ Goes(IF cmd.nb /\ nbCounter' < RECEIVE_TIMEOUT THEN "loop" ELSE "close")
     /\ UNCHANGED <<open, i>>
  \/ Fails({})

UDPServerReceive ==
  /\ Is(TRUE, TRUE) /\ ~cmd.tx /\ at = "loop" /\ i < NumPackets
  /\ Receive
  /\ UNCHANGED frame

(* UDPClient *)

UDPClientSetup == Is(TRUE, FALSE) /\ Sets("loop")

UDPClientSend ==
  /\ Is(TRUE, FALSE) /\ cmd.tx /\ at = "loop" /\ i < NumPackets
  /\ \/ Goes("loop") /\ i' = i + 1 /\ UNCHANGED <<open, nbCounter>>
     \/ Fails({})
  /\ UNCHANGED frame

\* Until something has come, every trial to receive is announced by a packet.
UDPClientHello ==
  /\ Is(TRUE, FALSE) /\ ~cmd.tx /\ at = "loop" /\ i = 0
  /\ \/ Goes("hello") /\ Keep /\ UNCHANGED open
     \/ Fails({})
  /\ UNCHANGED frame

UDPClientReceive ==
  /\ Is(TRUE, FALSE) /\ ~cmd.tx
  /\ at = "hello" \/ (at = "loop" /\ 0 < i /\ i < NumPackets)
  /\ Receive
  /\ UNCHANGED frame

(* TCPServer *)

\* When the socket cannot be made non-blocking it is left open.
TCPServerSetup ==
  /\ Is(FALSE, TRUE)
  /\ \/ Sets("accept")
     \/ /\ at = "setup" /\ cmd.nb /\ leaked < MaxSockets
        /\ Fails({"sock"}) /\ UNCHANGED frame

TCPServerAccept ==
  /\ Is(FALSE, TRUE) /\ at = "accept"
  /\ \/ /\ leaked + 1 < MaxSockets
        /\ Goes("loop") /\ open' = open \union {"newsock"} /\ Keep
     \/ Fails({})
  /\ UNCHANGED frame

\* Mutant: the last buffer is sent whole.
TCPServerSendWhole ==
  /\ Is(FALSE, TRUE) /\ cmd.tx /\ at = "loop" /\ i < Total
  /\ \/ \E k \in 1..BufLen : i' = i + k /\ Goes("loop")
                             /\ UNCHANGED <<open, nbCounter>>
     \/ Fails({})
  /\ UNCHANGED frame

\* sl_Send may take a part of what is left, or of a buffer.
TCPServerSend ==
  /\ Is(FALSE, TRUE) /\ cmd.tx /\ at = "loop" /\ i < Total
  /\ \/ \E k \in 1..Least(BufLen, Total - i) : i' = i + k /\ Goes("loop")
                             /\ UNCHANGED <<open, nbCounter>>
     \/ Fails({})
  /\ UNCHANGED frame

\* What sl_Recv of a stream does: something, the end, or an error.
ReceiveStream(end, left) ==
  \/ \E k \in 1..MaxSegment : i' = i + k /\ Goes("loop")
                              /\ UNCHANGED <<open, nbCounter>>
  \/ Goes(end) /\ Keep /\ UNCHANGED open
  \/ Fails(left)

\* After an error only the listening socket is closed.
TCPServerReceive ==
  /\ Is(FALSE, TRUE) /\ ~cmd.tx /\ at = "loop" /\ i < Total
  /\ ReceiveStream("closeNew", {"newsock"})
  /\ UNCHANGED frame

(* TCPClient *)

TCPClientSetup == Is(FALSE, FALSE) /\ Sets("connect")

TCPClientConnect ==
  /\ Is(FALSE, FALSE) /\ at = "connect"
  /\ \/ Goes("loop") /\ Keep /\ UNCHANGED open
     \/ Fails({})
  /\ UNCHANGED frame

\* Each call is given the whole message, whatever is left of it.
TCPClientSend ==
  /\ Is(FALSE, FALSE) /\ cmd.tx /\ at = "loop" /\ i < Total
  /\ \/ \E k \in 1..MsgLen : i' = i + k /\ Goes("loop")
                             /\ UNCHANGED <<open, nbCounter>>
     \/ Fails({})
  /\ UNCHANGED frame

TCPClientReceive ==
  /\ Is(FALSE, FALSE) /\ ~cmd.tx /\ at = "loop" /\ i < Total
  /\ ReceiveStream("close", {})
  /\ UNCHANGED frame

(* The end of all four. *)

LoopEnds ==
  /\ at = "loop" /\ i >= Total
  /\ Goes(IF Is(FALSE, TRUE) THEN "closeNew" ELSE "close")
  /\ Keep /\ UNCHANGED <<open, frame>>

\* Mutant: the accepted socket is not closed.
CloseNewKept ==
  /\ at = "closeNew"
  /\ Goes("close") /\ Keep /\ UNCHANGED open
  /\ UNCHANGED frame

\* A close that fails ends the command with what is still open.
TCPServerCloseNew ==
  /\ at = "closeNew"
  /\ \/ Goes("close") /\ open' = open \ {"newsock"} /\ Keep
     \/ Fails(open)
  /\ UNCHANGED frame

Close ==
  /\ at = "close"
  /\ \/ /\ open' = open \ {"sock"} /\ Keep
        /\ at' = "returned" /\ result' = "ok"
     \/ Fails(open)
  /\ UNCHANGED frame

Runs ==
  \/ UDPServerSetup \/ UDPServerHear \/ UDPServerSend \/ UDPServerReceive
  \/ UDPClientSetup \/ UDPClientSend \/ UDPClientHello \/ UDPClientReceive
  \/ TCPServerSetup \/ TCPServerAccept \/ TCPServerSend \/ TCPServerReceive
  \/ TCPClientSetup \/ TCPClientConnect \/ TCPClientSend \/ TCPClientReceive
  \/ LoopEnds \/ TCPServerCloseNew \/ Close \/ Return

Next == cmdSend \/ cmdRecv \/ Runs

Spec == Init /\ [][Next]_vars

\* Once a receive over UDP has its socket, its steps go on: a blocking call
\* returns within RECEIVE_TIMEOUT seconds (SL_SO_RCVTIMEO) and a non-blocking
\* one at once.
UdpSteps == UDPServerReceive \/ UDPClientHello \/ UDPClientReceive \/ LoopEnds \/ Close

FairSpec == Spec /\ WF_vars(UdpSteps)

-----------------------------------------------------------------------------

TypeOK ==
  /\ cmd \in Commands /\ at \in Points
  /\ open \subseteq {"sock", "newsock"}
  /\ i \in Nat /\ nbCounter \in 0..RECEIVE_TIMEOUT
  /\ result \in {"none", "ok", "failed"}
  /\ leaked \in Nat /\ leaked + Cardinality(open) <= MaxSockets

\* A command that reports success has given every socket back to the driver,
\* which has MaxSockets for the whole session: whatever a command leaves open
\* is missing to all later ones (the sl_Close calls at the end of the four
\* functions).
OkClosesAll == result = "ok" => open = {}

\* A UDP sender or a TCP server that reports success has sent as many packets,
\* or bytes, as it was asked for, not one more and not one less, however the
\* driver cut the buffers: the length of the last one is adapted (line 1195).
\* Nothing is claimed of the TCP client: it takes no notice of the number of
\* packets, and after a partial sl_Send (line 1548) it sends the start of its
\* message again, so that what it counts is not what the other end has got.
SendsExactly ==
  (at = "returned" /\ result = "ok" /\ cmd.tx /\ (cmd.udp \/ cmd.server)) => i = Total

\* A UDP receiver whose packets get lost ends all the same: a blocking socket
\* times out, a non-blocking one counts its vain trials up to RECEIVE_TIMEOUT.
\* The hello of a non-blocking client that finds the driver busy (lines 923-927)
\* is tried for ever and not counted: that the driver takes it in the end is
\* assumed by FairSpec, as is that sl_RecvFrom returns.
ReceiveEnds ==
  (at = "loop" /\ cmd.udp /\ ~cmd.tx) ~> (at = "returned")
=============================================================================
