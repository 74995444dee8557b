-------------------------- MODULE SocketCmdProofs --------------------------
(***************************************************************************)
(* Proofs about SocketCmd for every number of packets, buffer and message  *)
(* length, timeout and number of sockets.  The invariant says which        *)
(* function a control point belongs to and which sockets are open there.   *)
(***************************************************************************)
EXTENDS SocketCmd, FiniteSetTheorems, TLAPS

\* The two sockets of a TCP server are two.
LEMMA Sockets ==
  /\ Cardinality({}) = 0 /\ Cardinality({"sock"}) = 1 /\ Cardinality({"newsock"}) = 1
  /\ Cardinality({"sock", "newsock"}) = 2
<1>1. Cardinality({}) = 0 /\ IsFiniteSet({"sock"})
      /\ Cardinality({"sock"}) = 1 /\ Cardinality({"newsock"}) = 1
  BY FS_EmptySet, FS_Singleton
<1>2. Cardinality({"sock"} \union {"newsock"}) = Cardinality({"sock"}) + 1
  BY <1>1, FS_AddElement
<1>3. {"sock"} \union {"newsock"} = {"sock", "newsock"}
  OBVIOUS
<1> QED BY <1>1, <1>2, <1>3

\* Every parameter is a positive number.
LEMMA Parameters ==
  /\ NumPackets \in Nat /\ NumPackets > 0 /\ BufLen \in Nat /\ BufLen > 0
  /\ MsgLen \in Nat /\ MsgLen > 0 /\ RcvLen \in Nat /\ RcvLen > 0
  /\ MaxSegment \in Nat /\ MaxSegment > 0 /\ MaxSockets \in Nat /\ MaxSockets > 0
  /\ RECEIVE_TIMEOUT \in Nat /\ RECEIVE_TIMEOUT > 0
BY SocketAssumption

\* What a command has to move is a number, and at least one packet over UDP.
TotalOK == Total \in Nat /\ (cmd.udp => Total = NumPackets)

LEMMA TotalIsNat == TotalOK
<1>1. NumPackets * BufLen \in Nat
  BY Parameters
<1> QED BY <1>1, Parameters DEF Total, TotalOK

\* The same after a step: the lemma says it of whatever cmd then is.
LEMMA TotalIsNatNext == TotalOK'
<1>1. NumPackets * BufLen \in Nat
  BY Parameters
<1> QED BY <1>1, Parameters DEF Total, TotalOK

\* The sockets of a command at each point, and what its loop has kept to.
Owned ==
  /\ at \in {"prompt", "setup"} => open = {}
  /\ at \in {"accept", "connect", "hello", "send", "close"} => open = {"sock"}
  /\ at = "loop" => open = IF Is(FALSE, TRUE) THEN {"sock", "newsock"} ELSE {"sock"}
  /\ at = "closeNew" => open = {"sock", "newsock"}

Placed ==
  /\ at \in {"accept", "closeNew"} => Is(FALSE, TRUE)
  /\ at = "connect" => Is(FALSE, FALSE)
  /\ at = "hello" => Is(TRUE, FALSE) /\ ~cmd.tx
  /\ at = "send" => Is(TRUE, TRUE) /\ cmd.tx /\ i = 0
  /\ at \in {"setup", "accept", "connect"} => i = 0

Counted ==
  /\ at \notin {"close", "closeNew", "returned", "prompt"} => nbCounter < RECEIVE_TIMEOUT
  /\ at \notin {"returned", "prompt"} => result = "none"
  /\ cmd.tx /\ (cmd.udp \/ cmd.server) => i <= Total
  /\ cmd.tx /\ at \in {"closeNew", "close"} => i >= Total

\* The loops may end early only when they receive, so OkClosesAll and SendsExactly
\* need the points before the end of a command.
SocketInv ==
  TypeOK /\ Owned /\ Placed /\ Counted /\ OkClosesAll /\ SendsExactly

\* The invariant holds at the first prompt.
LEMMA InitSocket == Init => SocketInv
<1> SUFFICES ASSUME Init PROVE SocketInv OBVIOUS
<1>1. TypeOK
  <2>1. cmd \in Commands
    BY DEF Init, Commands
  <2>2. leaked \in Nat /\ leaked + Cardinality(open) <= MaxSockets
    BY Sockets, Parameters DEF Init
  <2> QED BY <2>1, <2>2, Parameters DEF Init, TypeOK, Points
<1>2. Owned /\ Placed /\ OkClosesAll /\ SendsExactly
  BY DEF Init, Owned, Placed, OkClosesAll, SendsExactly
<1>3. Counted
  BY TotalIsNat DEF Init, Counted, TotalOK
<1> QED BY <1>1, <1>2, <1>3 DEF SocketInv

\* A new command starts with no socket.
LEMMA DispatchStep == SocketInv /\ (cmdSend \/ cmdRecv) => SocketInv'
<1> SUFFICES ASSUME SocketInv, cmdSend \/ cmdRecv PROVE SocketInv' OBVIOUS
<1>1. /\ cmd' \in Commands /\ i' = 0 /\ nbCounter' = 0
      /\ open = {} /\ open' = {} /\ leaked' = leaked
      /\ \/ at' = "setup" /\ result' = "none"
         \/ at' = "returned" /\ result' = "failed"
  BY DEF cmdSend, cmdRecv, Dispatch, SocketInv, Owned
<1>2. TypeOK'
  BY <1>1, Parameters DEF SocketInv, TypeOK, Points, Commands
<1>3. Owned' /\ Placed' /\ OkClosesAll' /\ SendsExactly'
  <2>1. Owned' /\ OkClosesAll' /\ SendsExactly'
    BY <1>1 DEF Owned, OkClosesAll, SendsExactly
  <2>2. at' \in {"setup", "returned"} /\ i' = 0
    BY <1>1
  <2>3. Placed'
    BY <2>2 DEF Placed
  <2> QED BY <2>1, <2>3
<1>4. Counted'
  BY <1>1, TotalIsNatNext, Parameters DEF Counted, TotalOK
<1> QED BY <1>2, <1>3, <1>4 DEF SocketInv

\* What a command has to move does not change under way.
LEMMA SameTotal ==
  ASSUME UNCHANGED frame
  PROVE  cmd' = cmd /\ leaked' = leaked /\ Total' = Total
BY DEF frame, Total

\* A command that fails leaves what it says, and nothing more is claimed of it.
LEMMA FailStep ==
  ASSUME SocketInv, UNCHANGED frame, NEW left, Fails(left),
         left \in {{}, {"sock"}, {"newsock"}, open},
         leaked < MaxSockets \/ left \in {{}, open}
  PROVE  SocketInv'
<1>1. leaked \in Nat /\ leaked + Cardinality(open) <= MaxSockets
      /\ leaked + Cardinality({}) <= MaxSockets
  <2>1. open \in {{}, {"sock"}, {"newsock"}, {"sock", "newsock"}}
    BY DEF SocketInv, TypeOK
  <2>2. leaked \in Nat /\ leaked + Cardinality(open) <= MaxSockets
    BY DEF SocketInv, TypeOK
  <2>3. Cardinality(open) \in Nat
    BY <2>1, Sockets
  <2> QED BY <2>2, <2>3, Sockets, Parameters
<1>2. leaked + Cardinality(left) <= MaxSockets
  BY <1>1, Sockets, Parameters
<1>3. /\ at' = "returned" /\ result' = "failed" /\ open' = left /\ i' = i
      /\ nbCounter' = nbCounter
  BY DEF Fails, Keep
<1>4. TypeOK'
  BY <1>2, <1>3, SameTotal DEF SocketInv, TypeOK, Points
<1>5. Owned' /\ Placed' /\ OkClosesAll' /\ SendsExactly'
  BY <1>3, SameTotal DEF SocketInv, Owned, Placed, OkClosesAll, SendsExactly
<1>6. Counted'
  BY <1>3, SameTotal DEF SocketInv, Counted
<1> QED BY <1>4, <1>5, <1>6 DEF SocketInv

\* A step that neither begins nor ends a command: what is left to show of it.
LEMMA MoveStep ==
  ASSUME SocketInv, UNCHANGED <<frame, result>>,
         at \notin {"prompt", "returned"}, at' \in Points \ {"prompt", "returned"},
         i' \in Nat, nbCounter' \in 0..RECEIVE_TIMEOUT,
         open' \subseteq {"sock", "newsock"}, leaked + Cardinality(open') <= MaxSockets,
         Owned', Placed', Counted'
  PROVE  SocketInv'
<1>1. result = "none" /\ result' = "none"
  BY DEF SocketInv, Counted
<1>2. TypeOK'
  BY SameTotal DEF SocketInv, TypeOK
<1>3. OkClosesAll' /\ SendsExactly'
  BY <1>1 DEF OkClosesAll, SendsExactly
<1> QED BY <1>2, <1>3 DEF SocketInv

\* The same with the sockets as they are.
LEMMA CalmStep ==
  ASSUME SocketInv, UNCHANGED <<frame, result, open>>,
         at \notin {"prompt", "returned"}, at' \in Points \ {"prompt", "returned"},
         i' \in Nat, nbCounter' \in 0..RECEIVE_TIMEOUT,
         Owned', Placed', Counted'
  PROVE  SocketInv'
<1>1. open' \subseteq {"sock", "newsock"} /\ leaked + Cardinality(open') <= MaxSockets
  BY DEF SocketInv, TypeOK
<1> QED BY <1>1, MoveStep

\* A socket is there, or nothing has been opened.
LEMMA SetsStep ==
  ASSUME SocketInv, NEW to, Sets(to),
         \/ to = "loop" /\ cmd.udp
         \/ to = "accept" /\ Is(FALSE, TRUE)
         \/ to = "connect" /\ Is(FALSE, FALSE)
  PROVE  SocketInv'
<1>1. CASE Fails({})
  BY <1>1, FailStep DEF Sets
<1>2. CASE ~Fails({})
  <2>1. /\ at = "setup" /\ at' = to /\ open' = {"sock"} /\ UNCHANGED <<frame, result>>
        /\ i = 0 /\ i' = 0 /\ nbCounter' = nbCounter /\ leaked < MaxSockets
    BY <1>2 DEF Sets, Goes, Keep, SocketInv, Placed
  <2>2. leaked + Cardinality(open') <= MaxSockets
    BY <2>1, Sockets, Parameters DEF SocketInv, TypeOK
  <2>3. Owned'
    BY <2>1, SameTotal DEF Owned, Is
  <2>4. Placed'
    BY <2>1, SameTotal DEF Placed, Is
  <2>5. Counted'
    BY <2>1, SameTotal, TotalIsNat, Parameters DEF SocketInv, Counted, TotalOK
  <2>7. at' \in Points \ {"prompt", "returned"}
    BY <2>1 DEF Points
  <2> QED BY <2>1, <2>2, <2>3, <2>4, <2>5, <2>7, MoveStep DEF SocketInv, TypeOK
<1> QED BY <1>1, <1>2

\* More has been moved, and not too much when there is a limit.
LEMMA AdvanceStep ==
  ASSUME SocketInv, UNCHANGED <<frame, open, nbCounter>>, Goes("loop"),
         at \in {"loop", "send", "hello"},
         NEW n \in Nat, i' = n,
         cmd.tx /\ (cmd.udp \/ cmd.server) => n <= Total
  PROVE  SocketInv'
<1>1. Owned' /\ Placed'
  BY SameTotal DEF SocketInv, Owned, Placed, Is, Goes
<1>2. Counted'
  BY SameTotal DEF SocketInv, Counted, Goes
<1>4. at' \in Points \ {"prompt", "returned"}
  BY DEF Goes, Points
<1> QED BY <1>1, <1>2, <1>4, CalmStep DEF SocketInv, TypeOK, Goes

\* The loop of a receiver ends: on to the sockets, with what has come.
LEMMA EndStep ==
  ASSUME SocketInv, UNCHANGED <<frame, open, i>>, at \in {"loop", "hello"},
         NEW end, Goes(end), end = IF Is(FALSE, TRUE) THEN "closeNew" ELSE "close",
         nbCounter' \in 0..RECEIVE_TIMEOUT,
         cmd.tx => i >= Total
  PROVE  SocketInv'
<1>1. Owned'
  BY SameTotal DEF SocketInv, Owned, Placed, Is, Goes
<1>2. Placed'
  BY SameTotal DEF Placed, Is, Goes
<1>3. Counted'
  BY SameTotal DEF SocketInv, Counted, Goes
<1>5. at' \in Points \ {"prompt", "returned"}
  BY DEF Goes, Points
<1> QED BY <1>1, <1>2, <1>3, <1>5, CalmStep DEF SocketInv, TypeOK, Goes

\* One sl_RecvFrom of a UDP receiver.
LEMMA ReceiveStep ==
  ASSUME SocketInv, UNCHANGED frame, Receive, at \in {"loop", "hello"}, cmd.udp, ~cmd.tx
  PROVE  SocketInv'
<1>0. nbCounter \in Nat /\ nbCounter < RECEIVE_TIMEOUT /\ i \in Nat
  BY DEF SocketInv, TypeOK, Counted
<1>1. CASE i' = i + 1 /\ Goes("loop") /\ UNCHANGED <<open, nbCounter>>
  <2>1. i + 1 \in Nat
    BY <1>0
  <2> QED BY <1>1, <2>1, AdvanceStep
<1>2. CASE /\ nbCounter' = IF cmd.nb THEN nbCounter + 1 ELSE nbCounter
           /\ Goes(IF cmd.nb /\ nbCounter' < RECEIVE_TIMEOUT THEN "loop" ELSE "close")
           /\ UNCHANGED <<open, i>>
  <2>0. nbCounter' \in 0..RECEIVE_TIMEOUT
    BY <1>0, <1>2, Parameters
  <2>1. CASE cmd.nb /\ nbCounter' < RECEIVE_TIMEOUT
    <3>1. Goes("loop")
      BY <1>2, <2>1
    <3>2. Owned' /\ Placed'
      BY <1>2, <3>1, SameTotal DEF SocketInv, Owned, Placed, Is, Goes
    <3>3. Counted'
      BY <1>2, <2>1, <3>1, SameTotal DEF SocketInv, Counted, Goes
    <3>5. at' \in Points \ {"prompt", "returned"}
      BY <3>1 DEF Goes, Points
    <3> QED BY <1>2, <2>0, <3>1, <3>2, <3>3, <3>5, CalmStep
            DEF SocketInv, TypeOK, Goes
  <2>2. CASE ~(cmd.nb /\ nbCounter' < RECEIVE_TIMEOUT)
    <3>1. Goes("close") /\ ~Is(FALSE, TRUE)
      BY <1>2, <2>2 DEF Is
    <3> QED BY <1>2, <2>0, <3>1, EndStep
  <2> QED BY <2>1, <2>2
<1>3. CASE Fails({})
  BY <1>3, FailStep
<1> QED BY <1>1, <1>2, <1>3 DEF Receive

\* One sl_Recv of a stream, with what the function leaves open after an error.
LEMMA StreamStep ==
  ASSUME SocketInv, UNCHANGED frame, NEW end, NEW left, ReceiveStream(end, left),
         at = "loop", ~cmd.udp, ~cmd.tx,
         end = IF Is(FALSE, TRUE) THEN "closeNew" ELSE "close",
         left = IF Is(FALSE, TRUE) THEN {"newsock"} ELSE {}
  PROVE  SocketInv'
<1>0. i \in Nat /\ nbCounter \in 0..RECEIVE_TIMEOUT
  BY DEF SocketInv, TypeOK
<1>1. ASSUME NEW k \in 1..MaxSegment, i' = i + k, Goes("loop"),
             UNCHANGED <<open, nbCounter>>
      PROVE  SocketInv'
  <2>1. i + k \in Nat
    BY <1>0, Parameters
  <2> QED BY <1>1, <2>1, AdvanceStep DEF Is
<1>2. CASE Goes(end) /\ Keep /\ UNCHANGED open
  BY <1>0, <1>2, EndStep DEF Keep
<1>3. CASE Fails(left)
  <2>1. CASE Is(FALSE, TRUE)
    <3>1. open = {"sock", "newsock"} /\ leaked \in Nat /\ leaked + 2 <= MaxSockets
      BY <2>1, Sockets DEF SocketInv, Owned, TypeOK
    <3>2. leaked < MaxSockets
      BY <3>1, Parameters
    <3> QED BY <1>3, <2>1, <3>2, FailStep
  <2>2. CASE ~Is(FALSE, TRUE)
    BY <1>3, <2>2, FailStep
  <2> QED BY <2>1, <2>2
<1> QED BY <1>1, <1>2, <1>3 DEF ReceiveStream

\* The steps over UDP.
LEMMA UdpStep ==
  ASSUME SocketInv,
         \/ UDPServerSetup \/ UDPServerHear \/ UDPServerSend \/ UDPServerReceive
         \/ UDPClientSetup \/ UDPClientSend \/ UDPClientHello \/ UDPClientReceive
  PROVE  SocketInv'
<1>0. /\ i \in Nat /\ nbCounter \in 0..RECEIVE_TIMEOUT
      /\ cmd.udp => Total = NumPackets
  BY TotalIsNat DEF SocketInv, TypeOK, TotalOK
<1>1. CASE UDPServerSetup \/ UDPClientSetup
  BY <1>1, SetsStep DEF UDPServerSetup, UDPClientSetup, Is
<1>2. CASE UDPServerHear
  <2>1. CASE Fails({})
    BY <1>2, <2>1, FailStep DEF UDPServerHear
  <2>2. CASE ~Fails({})
    <3>1. /\ Is(TRUE, TRUE) /\ at = "loop" /\ cmd.tx /\ i = 0 /\ Goes("send")
          /\ UNCHANGED <<frame, open, i, nbCounter>>
      BY <1>2, <2>2 DEF UDPServerHear, Keep
    <3>2. Owned' /\ Placed'
      BY <3>1, SameTotal DEF SocketInv, Owned, Placed, Is, Goes
    <3>3. Counted'
      BY <3>1, SameTotal DEF SocketInv, Counted, Goes
    <3>4. at' \in Points \ {"prompt", "returned"}
      BY <3>1 DEF Goes, Points
    <3> QED BY <1>0, <3>1, <3>2, <3>3, <3>4, CalmStep DEF Goes
  <2> QED BY <2>1, <2>2
<1>3. CASE UDPServerSend
  <2>1. CASE Fails({})
    BY <1>3, <2>1, FailStep DEF UDPServerSend
  <2>2. CASE ~Fails({})
    <3>1. /\ Is(TRUE, TRUE) /\ cmd.tx /\ Goes("loop") /\ i' = i + 1 /\ at \in {"send", "loop"}
          /\ UNCHANGED <<frame, open, nbCounter>> /\ (at = "send" \/ 0 < i)
          /\ (at = "send" \/ i < NumPackets)
      BY <1>3, <2>2 DEF UDPServerSend
    <3>2. i + 1 \in Nat /\ i + 1 <= Total
      BY <1>0, <3>1, Parameters DEF SocketInv, Placed, Is
    <3> QED BY <3>1, <3>2, AdvanceStep
  <2> QED BY <2>1, <2>2
<1>4. CASE UDPServerReceive \/ UDPClientReceive
  BY <1>4, ReceiveStep DEF UDPServerReceive, UDPClientReceive, Is
<1>5. CASE UDPClientSend
  <2>1. CASE Fails({})
    BY <1>5, <2>1, FailStep DEF UDPClientSend
  <2>2. CASE ~Fails({})
    <3>1. /\ Is(TRUE, FALSE) /\ Goes("loop") /\ i' = i + 1 /\ at = "loop" /\ i < NumPackets
          /\ UNCHANGED <<frame, open, nbCounter>>
      BY <1>5, <2>2 DEF UDPClientSend
    <3>2. i + 1 \in Nat /\ i + 1 <= Total
      BY <1>0, <3>1, Parameters DEF Is
    <3> QED BY <3>1, <3>2, AdvanceStep DEF Is
  <2> QED BY <2>1, <2>2
<1>6. CASE UDPClientHello
  <2>1. CASE Fails({})
    BY <1>6, <2>1, FailStep DEF UDPClientHello
  <2>2. CASE ~Fails({})
    <3>1. /\ Is(TRUE, FALSE) /\ at = "loop" /\ ~cmd.tx /\ Goes("hello")
          /\ UNCHANGED <<frame, open, i, nbCounter>>
      BY <1>6, <2>2 DEF UDPClientHello, Keep
    <3>2. Owned' /\ Placed'
      BY <3>1, SameTotal DEF SocketInv, Owned, Placed, Is, Goes
    <3>3. Counted'
      BY <3>1, SameTotal DEF SocketInv, Counted, Goes
    <3>4. at' \in Points \ {"prompt", "returned"}
      BY <3>1, SameTotal DEF Goes, Points, Is
    <3> QED BY <1>0, <3>1, <3>2, <3>3, <3>4, CalmStep DEF Goes
  <2> QED BY <2>1, <2>2
<1> QED BY <1>1, <1>2, <1>3, <1>4, <1>5, <1>6

\* The steps over TCP.
LEMMA TcpStep ==
  ASSUME SocketInv,
         \/ TCPServerSetup \/ TCPServerAccept \/ TCPServerSend \/ TCPServerReceive
         \/ TCPClientSetup \/ TCPClientConnect \/ TCPClientSend \/ TCPClientReceive
  PROVE  SocketInv'
<1>0. /\ i \in Nat /\ nbCounter \in 0..RECEIVE_TIMEOUT
      /\ Total \in Nat /\ leaked \in Nat
  BY TotalIsNat DEF SocketInv, TypeOK, TotalOK
<1>1. CASE TCPServerSetup
  <2>1. CASE Sets("accept")
    BY <1>1, <2>1, SetsStep DEF TCPServerSetup
  <2>2. CASE ~Sets("accept")
    BY <1>1, <2>2, FailStep DEF TCPServerSetup
  <2> QED BY <2>1, <2>2
<1>2. CASE TCPServerAccept
  <2>1. CASE Fails({})
    BY <1>2, <2>1, FailStep DEF TCPServerAccept
  <2>2. CASE ~Fails({})
    <3>1. /\ Is(FALSE, TRUE) /\ at = "accept" /\ Goes("loop") /\ leaked + 1 < MaxSockets
          /\ open' = open \union {"newsock"} /\ UNCHANGED <<frame, i, nbCounter>>
          /\ i = 0
      BY <1>2, <2>2 DEF TCPServerAccept, Keep, SocketInv, Placed
    <3>2. open' = {"sock", "newsock"}
      BY <3>1 DEF SocketInv, Owned
    <3>3. Owned' /\ Placed'
      BY <3>1, <3>2, SameTotal DEF Owned, Placed, Is, Goes
    <3>4. Counted'
      BY <3>1, SameTotal DEF SocketInv, Counted, Goes
    <3>5. at' \in Points \ {"prompt", "returned"}
      BY <3>1, SameTotal DEF Goes, Points, Is
    <3>6. leaked + Cardinality(open') <= MaxSockets
      BY <1>0, <3>1, <3>2, Sockets, Parameters
    <3> QED BY <1>0, <3>1, <3>2, <3>3, <3>4, <3>5, <3>6, MoveStep DEF Goes
  <2> QED BY <2>1, <2>2
<1>3. CASE TCPServerSend
  <2>1. CASE Fails({})
    BY <1>3, <2>1, FailStep DEF TCPServerSend
  <2>2. ASSUME NEW k \in 1..Least(BufLen, Total - i), i' = i + k, Goes("loop"),
               UNCHANGED <<open, nbCounter>>
        PROVE  SocketInv'
    <3>1. i + k \in Nat /\ i + k <= Total
      BY <1>0, <2>2, Parameters DEF Least
    <3> QED BY <1>3, <2>2, <3>1, AdvanceStep DEF TCPServerSend, Is
  <2> QED BY <1>3, <2>1, <2>2 DEF TCPServerSend
<1>4. CASE TCPServerReceive \/ TCPClientReceive
  BY <1>4, StreamStep DEF TCPServerReceive, TCPClientReceive, Is
<1>5. CASE TCPClientSetup
  BY <1>5, SetsStep DEF TCPClientSetup
<1>6. CASE TCPClientConnect
  <2>1. CASE Fails({})
    BY <1>6, <2>1, FailStep DEF TCPClientConnect
  <2>2. CASE ~Fails({})
    <3>1. /\ Is(FALSE, FALSE) /\ at = "connect" /\ Goes("loop")
          /\ UNCHANGED <<frame, open, i, nbCounter>>
      BY <1>6, <2>2 DEF TCPClientConnect, Keep
    <3>2. Owned' /\ Placed'
      BY <3>1, SameTotal DEF SocketInv, Owned, Placed, Is, Goes
    <3>3. Counted'
      BY <3>1, SameTotal DEF SocketInv, Counted, Goes
    <3>4. at' \in Points \ {"prompt", "returned"}
      BY <3>1, SameTotal DEF Goes, Points, Is
    <3> QED BY <1>0, <3>1, <3>2, <3>3, <3>4, CalmStep DEF Goes
  <2> QED BY <2>1, <2>2
<1>7. CASE TCPClientSend
  <2>1. CASE Fails({})
    BY <1>7, <2>1, FailStep DEF TCPClientSend
  <2>2. ASSUME NEW k \in 1..MsgLen, i' = i + k, Goes("loop"),
               UNCHANGED <<open, nbCounter>>
        PROVE  SocketInv'
    <3>1. i + k \in Nat
      BY <1>0, <2>2, Parameters
    <3> QED BY <1>7, <2>2, <3>1, AdvanceStep DEF TCPClientSend, Is
  <2> QED BY <1>7, <2>1, <2>2 DEF TCPClientSend
<1> QED BY <1>1, <1>2, <1>3, <1>4, <1>5, <1>6, <1>7

\* The sockets are closed, and the command has succeeded only with both.
LEMMA ClosingStep ==
  ASSUME SocketInv, LoopEnds \/ TCPServerCloseNew \/ Close \/ Return
  PROVE  SocketInv'
<1>0. /\ i \in Nat /\ nbCounter \in 0..RECEIVE_TIMEOUT
      /\ Total \in Nat /\ leaked \in Nat
  BY TotalIsNat DEF SocketInv, TypeOK, TotalOK
<1>1. CASE LoopEnds
  BY <1>0, <1>1, EndStep DEF LoopEnds, Keep
<1>2. CASE TCPServerCloseNew
  <2>1. CASE Fails(open)
    BY <1>2, <2>1, FailStep DEF TCPServerCloseNew
  <2>2. CASE ~Fails(open)
    <3>1. /\ at = "closeNew" /\ Goes("close") /\ open' = {"sock"} /\ Is(FALSE, TRUE)
          /\ UNCHANGED <<frame, i, nbCounter>> /\ leaked + 2 <= MaxSockets
      BY <1>2, <2>2, Sockets
         DEF TCPServerCloseNew, Keep, SocketInv, Owned, Placed, TypeOK
    <3>2. Owned' /\ Placed'
      BY <3>1, SameTotal DEF Owned, Placed, Goes
    <3>3. Counted'
      BY <3>1, SameTotal DEF SocketInv, Counted, Goes
    <3>4. at' \in Points \ {"prompt", "returned"}
      BY <3>1, SameTotal DEF Goes, Points, Is
    <3>5. leaked + Cardinality(open') <= MaxSockets
      BY <1>0, <3>1, Sockets, Parameters
    <3> QED BY <1>0, <3>1, <3>2, <3>3, <3>4, <3>5, MoveStep DEF Goes
  <2> QED BY <2>1, <2>2
<1>3. CASE Close
  <2>1. CASE Fails(open)
    BY <1>3, <2>1, FailStep DEF Close
  <2>2. CASE ~Fails(open)
    <3>1. /\ at = "close" /\ open' = {} /\ at' = "returned" /\ result' = "ok"
          /\ UNCHANGED <<frame, i, nbCounter>>
      BY <1>3, <2>2 DEF Close, Keep, SocketInv, Owned
    <3>2. Owned' /\ Placed' /\ OkClosesAll'
      BY <3>1 DEF Owned, Placed, OkClosesAll
    <3>3. Counted'
      BY <3>1, SameTotal DEF SocketInv, Counted
    <3>4. SendsExactly'
      <4>1. cmd.tx => i >= Total /\ (cmd.udp \/ cmd.server => i <= Total)
        BY <3>1 DEF SocketInv, Counted
      <4> QED BY <1>0, <3>1, <4>1, SameTotal DEF SendsExactly
    <3>6. TypeOK'
      <4>1. leaked + Cardinality(open') <= MaxSockets
        <5>1. leaked + 1 <= MaxSockets
          BY <3>1, Sockets DEF SocketInv, Owned, TypeOK
        <5> QED BY <1>0, <3>1, <5>1, Sockets, Parameters
      <4> QED BY <3>1, <4>1, SameTotal DEF SocketInv, TypeOK, Points
    <3> QED BY <3>2, <3>3, <3>4, <3>6 DEF SocketInv
  <2> QED BY <2>1, <2>2
<1>4. CASE Return
  <2>1. /\ at' = "prompt" /\ open' = {} /\ UNCHANGED <<cmd, i, nbCounter, result>>
        /\ leaked' = leaked + Cardinality(open)
    BY <1>4 DEF Return
  <2>2. TypeOK'
    <3>1. Cardinality(open) \in Nat /\ leaked + Cardinality(open) <= MaxSockets
      <4>1. open \in {{}, {"sock"}, {"newsock"}, {"sock", "newsock"}}
        BY DEF SocketInv, TypeOK
      <4>2. Cardinality(open) \in Nat
        BY <4>1, Sockets
      <4> QED BY <4>2 DEF SocketInv, TypeOK
    <3>2. leaked' \in Nat /\ leaked' + Cardinality(open') <= MaxSockets
      BY <1>0, <2>1, <3>1, Sockets, Parameters
    <3> QED BY <2>1, <3>2 DEF SocketInv, TypeOK, Points
  <2>3. Owned' /\ Placed' /\ OkClosesAll' /\ SendsExactly'
    BY <2>1 DEF Owned, Placed, OkClosesAll, SendsExactly
  <2>4. Counted'
    BY <2>1 DEF SocketInv, Counted, Total
  <2> QED BY <2>2, <2>3, <2>4 DEF SocketInv
<1> QED BY <1>1, <1>2, <1>3, <1>4

\* Every step keeps the invariant.
LEMMA SocketStep == SocketInv /\ [Next]_vars => SocketInv'
<1> SUFFICES ASSUME SocketInv, [Next]_vars PROVE SocketInv' OBVIOUS
<1>1. CASE Runs
  BY <1>1, UdpStep, TcpStep, ClosingStep DEF Runs
<1>2. CASE cmdSend \/ cmdRecv
  BY <1>2, DispatchStep
<1>3. CASE UNCHANGED vars
  BY <1>3 DEF vars, SocketInv, TypeOK, Owned, Placed, Counted, OkClosesAll, SendsExactly,
     Is, Total
<1> QED BY <1>1, <1>2, <1>3 DEF Next

\* The invariant holds of every session.
THEOREM SocketInvariant == Spec => []SocketInv
BY InitSocket, SocketStep, PTL DEF Spec

\* Every variable of the session keeps its type, and the sockets in use and those
\* that were lost are never more than the driver has.
THEOREM SocketTypeCorrect == Spec => []TypeOK
BY SocketInvariant, PTL DEF SocketInv

\* A command that reports success has given every socket back.
THEOREM SocketsGivenBack == Spec => []OkClosesAll
BY SocketInvariant, PTL DEF SocketInv

\* A UDP sender or a TCP server that reports success has sent as many packets, or
\* bytes, as it was asked for, for every number of packets, every size of the
\* buffers and every cut the driver makes.
THEOREM SendsWhatWasAsked == Spec => []SendsExactly
BY SocketInvariant, PTL DEF SocketInv

=============================================================================
