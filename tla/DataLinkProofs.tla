--------------------------- MODULE DataLinkProofs ---------------------------
(***************************************************************************)
(* Proofs about DataLink for every length of the texts, number of tries,   *)
(* boards, ports and restarts, and every width of the clock's words.       *)
(***************************************************************************)
EXTENDS DataLink, TLAPS

\* The parameters are numbers.
LEMMA Parameters ==
  /\ MsgLen \in Nat /\ MsgLen > 0 /\ PortLen \in Nat /\ PortLen > 0
  /\ MaxTries \in Nat /\ BindRetries \in Nat /\ MaxPort \in Nat
  /\ BoardCount \in Nat /\ BoardCount > 0 /\ Restarts \in Nat
  /\ NsPerSec \in Nat /\ NsPerSec > 0 /\ Word \in Nat /\ Word > 0 /\ NsPerSec <= Word
  /\ MaxClock \in Nat
BY DataLinkAssumption

-----------------------------------------------------------------------------
(* Arithmetic modulo a word. *)

\* Quotient and remainder of a number that need not be positive.
LEMMA Division ==
  ASSUME NEW x \in Int, NEW W \in Nat, W > 0
  PROVE  x \div W \in Int /\ x % W \in Int /\ 0 <= x % W /\ x % W < W
         /\ x % W = x - W * (x \div W)
<1>1. x \div W \in Int
  OBVIOUS
<1>2. x % W \in 0..(W - 1)
  OBVIOUS
<1>3. x % W = x - W * (x \div W)
  OBVIOUS
<1> QED BY <1>1, <1>2, <1>3

\* The remainder is unique.
LEMMA RemainderUnique ==
  ASSUME NEW x \in Int, NEW W \in Nat, W > 0, NEW q \in Int, NEW r \in Int,
         0 <= r, r < W, x = W * q + r
  PROVE  x % W = r
OBVIOUS

\* Words that wrap do not change a remainder.
LEMMA RemainderShift ==
  ASSUME NEW W \in Nat, W > 0, NEW x \in Int, NEW k \in Int
  PROVE  (x + W * k) % W = x % W
<1> DEFINE q == x \div W  r == x % W
<1>1. q \in Int /\ r \in Int /\ 0 <= r /\ r < W /\ r = x - W * q
  BY Division
<1> HIDE DEF q, r
<1>2. W * (q + k) = W * q + W * k
  BY <1>1
<1>3. W * q \in Int /\ W * k \in Int
  BY <1>1
<1>4. x + W * k = W * (q + k) + r
  BY <1>1, <1>2, <1>3
<1>5. x + W * k \in Int /\ q + k \in Int
  BY <1>1, <1>3
<1>6. (x + W * k) % W = r
  BY <1>1, <1>4, <1>5, RemainderUnique
<1> QED BY <1>6 DEF r

\* Remainders may be taken before a sum is.
LEMMA WordSum ==
  ASSUME NEW W \in Nat, W > 0, NEW N \in Nat, NEW a \in Int, NEW b \in Int
  PROVE  ((a % W) * N + (b % W)) % W = (N * a + b) % W
<1> DEFINE d == a \div W   e == b \div W   ra == a % W   rb == b % W
<1>1. d \in Int /\ ra \in Int /\ ra = a - W * d
  BY Division
<1>2. e \in Int /\ rb \in Int /\ rb = b - W * e
  BY Division
<1> HIDE DEF d, e, ra, rb
<1>3. ra * N + rb = (N * a + b) + W * (-(d * N + e))
  <2>1. (a - W * d) * N = N * a - W * (d * N)
    BY <1>1
  <2>2. W * (-(d * N + e)) = -(W * (d * N)) - W * e
    BY <1>1, <1>2
  <2>3. ra * N = N * a - W * (d * N)
    BY <1>1, <2>1
  <2>4. N * a \in Int /\ W * (d * N) \in Int /\ W * e \in Int
    BY <1>1, <1>2
  <2> QED BY <1>2, <2>2, <2>3, <2>4
<1>4. N * a + b \in Int /\ -(d * N + e) \in Int
  BY <1>1, <1>2
<1>5. ((N * a + b) + W * (-(d * N + e))) % W = (N * a + b) % W
  BY <1>4, RemainderShift
<1>6. (ra * N + rb) % W = (N * a + b) % W
  BY <1>3, <1>5
<1> QED BY <1>6 DEF ra, rb

\* The answer to get_time: seconds and nanoseconds are subtracted each in a word of
\* its own, and together they are the elapsed time all the same.
LEMMA WrappedDifference ==
  ASSUME NEW c \in Nat, NEW s \in Nat
  PROVE  (((c \div NsPerSec - s \div NsPerSec) % Word) * NsPerSec
            + (((c % NsPerSec) - (s % NsPerSec)) % Word)) % Word = (c - s) % Word
<1> DEFINE N == NsPerSec
<1>0. N \in Nat /\ N > 0 /\ Word \in Nat /\ Word > 0
  BY Parameters
<1> HIDE DEF N
<1>1. c \div N \in Int /\ c % N \in Int /\ c % N = c - N * (c \div N)
  BY <1>0, Division
<1>2. s \div N \in Int /\ s % N \in Int /\ s % N = s - N * (s \div N)
  BY <1>0, Division
<1>3. c \div N - s \div N \in Int /\ (c % N) - (s % N) \in Int
  BY <1>1, <1>2
<1>4. N * (c \div N - s \div N) + ((c % N) - (s % N)) = c - s
  <2>1. /\ N * (c \div N - s \div N) = N * (c \div N) - N * (s \div N)
        /\ N * (c \div N) \in Int /\ N * (s \div N) \in Int
    BY <1>0, <1>1, <1>2
  <2> QED BY <1>1, <1>2, <2>1
<1>5. (((c \div N - s \div N) % Word) * N + (((c % N) - (s % N)) % Word)) % Word
        = (N * (c \div N - s \div N) + ((c % N) - (s % N))) % Word
  BY <1>0, <1>3, WordSum, Zenon
<1>6. (((c \div N - s \div N) % Word) * N + (((c % N) - (s % N)) % Word)) % Word = (c - s) % Word
  BY <1>4, <1>5, Zenon
<1> QED BY <1>6, Zenon DEF N

-----------------------------------------------------------------------------
(* The inductive invariant. *)

\* The type invariant in parts, each about variables that change together.
PlaceType ==
  pc \in ShakePoints \union TestPoints /\ test \in Tests
  /\ sock \in {"none", "open", "connected", "closed"}

CountType ==
  /\ tries \in 0..MaxTries /\ sent \in 0..(2 * MsgLen) /\ rcvd \in 0..PortLen
  /\ text = <<>> \/ text \in (1..PortLen) \X (1..PortLen)
  /\ port \in AnyPort

WireType ==
  wire \in [conn : {"none", "pending", "accepted", "served"}, up : {"none", "part", "whole"},
            down : 0..PortLen, port : 0..MaxPort, shut : BOOLEAN]

LaptopType ==
  /\ entry \in {"accept", "recv", "ghost", "idle", "left"}
  /\ ghost \in {"none", "silent", "ended", "part", "whole"}
  /\ table \in [mine : 0..MaxPort, others : 0..BoardCount] /\ BoardsOf(table) <= BoardCount
  /\ lastPort \in 0..MaxPort

ClockType ==
  /\ lastTime \in 0..MaxClock /\ clock \in 0..MaxClock
  /\ answer = <<>> \/ answer \in (0..(Word - 1)) \X (0..(Word - 1))
  /\ counting \in BOOLEAN /\ eagain \in BOOLEAN /\ boots \in 0..Restarts

HistoryType ==
  history \in [clean : BOOLEAN, closeFailed : BOOLEAN, start : 0..MaxClock, elapsed : 0..MaxClock]

\* The parts are the type invariant.
LEMMA TypeParts ==
  TypeOK <=> PlaceType /\ CountType /\ WireType /\ LaptopType /\ ClockType /\ HistoryType
BY DEF TypeOK, PlaceType, CountType, WireType, LaptopType, ClockType, HistoryType

\* As long as the laptop waits there is room for a board; a connection it has read
\* from is served, and one left by a restart is read before the next is accepted.
ServerInv ==
  /\ entry \in {"accept", "recv", "ghost"} => BoardsOf(table) < BoardCount
  /\ entry = "recv" => wire.conn = "accepted"
  /\ entry = "ghost" => ghost # "none"
  /\ wire.conn = "accepted" => entry \in {"recv", "left"}
  /\ ghost # "none" => wire.conn \in {"none", "pending"}

\* PortAgreed is not inductive: the digits under way already have to be those of the
\* port in the laptop's table.
PortInv ==
  /\ rcvd + wire.down <= PortLen
  /\ wire.down > 0 \/ rcvd > 0 => /\ wire.conn = "served"
                                  /\ wire.port = table.mine /\ wire.port # 0
  /\ text # <<>> => rcvd > 0
  /\ pc \in {"open", "connect"} => wire.conn = "none" /\ wire.down = 0 /\ rcvd = 0
  /\ history.clean => pc \notin ShakePoints \ {"close"} /\ rcvd > 0 /\ port = wire.port

\* Where the descriptor is connected, and which try it was.
SockInv ==
  /\ pc = "open" => tries = 0 /\ sock = "none"
  /\ pc = "connect" => sock = "closed" \/ (sock = "open" /\ tries = 0)
  /\ pc \in {"send", "recv", "parse", "close"} => tries = 0
  /\ pc \in {"testOpen", "done"} => sock \in {"none", "closed"} \/ history.closeFailed
  /\ pc = "testConnect" => test \in {"drift", "forever"} /\ sock = "open"
  /\ UsesOpen

\* The clock was read when counting began, and not since.
DriftInv ==
  /\ history.start <= clock /\ lastTime <= clock
  /\ counting => history.start = lastTime /\ pc \notin ShakePoints \union {"testOpen", "testConnect"}
  /\ ElapsedExact

LinkInv == TypeOK /\ ServerInv /\ PortInv /\ SockInv /\ DriftInv

-----------------------------------------------------------------------------
(* What a step leaves alone. *)

ConnectionSteps == ConnectEntry \/ SendText \/ RecvPort \/ Accept \/ Hear \/ HearEnd \/ HearGhost
                     \/ Stop \/ Restart

\* Only the connection steps change what is under way.
LEMMA QuietWire == [Next]_vars /\ ~ConnectionSteps => wire' = wire
BY DEF Next, vars, ConnectionSteps, Handshake, OpenEntry, RecvEnd, ParsePort, CloseEntry, BreakEntry,
       Laptop, AcceptGhost, OtherBoard, Test, OpenDrift, OpenForever, OpenL2, OpenL3, OpenTest, GiveUp,
       ConnectTest, StartCounting, GetTime, OtherText, StreamReadings, HearBroadcasts, Loop, ListenL2,
       CloseTest, Tick

\* Only the laptop changes its table and its place.
LEMMA QuietLaptop ==
  [Next]_vars /\ ~(Laptop \/ OtherBoard \/ Stop \/ Restart) => UNCHANGED serverVars
BY DEF Next, vars, serverVars, Handshake, OpenEntry, ConnectEntry, SendText, RecvPort, RecvEnd,
       ParsePort, CloseEntry, BreakEntry, Test, OpenDrift, OpenForever, OpenL2, OpenL3, OpenTest,
       GiveUp, ConnectTest, StartCounting, GetTime, OtherText, StreamReadings, HearBroadcasts, Loop,
       ListenL2, CloseTest, Tick

BoardSteps == Handshake \/ BreakEntry \/ Test \/ Restart

\* Only the board changes its place, its sockets and its counters.
LEMMA QuietBoard ==
  [Next]_vars /\ ~BoardSteps => UNCHANGED <<pc, test, sock, shakeVars, history>>
BY DEF Next, vars, shakeVars, BoardSteps, Laptop, Accept, Hear, HearEnd, AcceptGhost, HearGhost,
       OtherBoard, Stop, Tick

\* Only get_port_for_data_tx changes its counters and its buffer.
LEMMA QuietHandshake ==
  [Next]_vars /\ ~(Handshake \/ BreakEntry \/ Restart) => UNCHANGED shakeVars
BY DEF Next, vars, shakeVars, Laptop, Accept, Hear, HearEnd, AcceptGhost, HearGhost, OtherBoard,
       Stop, Test, OpenDrift, OpenForever, OpenL2, OpenL3, OpenTest, GiveUp, ConnectTest,
       StartCounting, GetTime, OtherText, StreamReadings, HearBroadcasts, Loop, ListenL2,
       CloseTest, Tick

\* Only the tests and the clock change what they measure.
LEMMA QuietClock ==
  [Next]_vars /\ ~(ConnectTest \/ StartCounting \/ GetTime \/ ListenL2 \/ Tick \/ Restart)
    => UNCHANGED <<driftVars, clock, boots>>
BY DEF Next, vars, driftVars, Handshake, OpenEntry, ConnectEntry, SendText, RecvPort, RecvEnd,
       ParsePort, CloseEntry, BreakEntry, Laptop, Accept, Hear, HearEnd, AcceptGhost, HearGhost,
       OtherBoard, Stop, Test, OpenDrift, OpenForever, OpenL2, OpenL3, OpenTest, GiveUp,
       OtherText, StreamReadings, HearBroadcasts, Loop, CloseTest

OpenTests == OpenDrift \/ OpenForever \/ OpenL2 \/ OpenL3

\* The steps a property looks back at.
LEMMA QuietHistory ==
  [Next]_vars /\ ~(ParsePort \/ CloseEntry \/ OpenTests \/ StartCounting \/ GetTime \/ CloseTest
                     \/ Restart)
    => history' = history
BY DEF Next, vars, OpenTests, Handshake, OpenEntry, ConnectEntry, SendText, RecvPort, RecvEnd,
       BreakEntry, Laptop, Accept, Hear, HearEnd, AcceptGhost, HearGhost, OtherBoard, Stop, Test,
       ConnectTest, OtherText, StreamReadings, HearBroadcasts, Loop, ListenL2, Tick

-----------------------------------------------------------------------------
(* Types. *)

\* The invariant's types hold when board and laptop are switched on.
LEMMA InitType == Init => TypeOK
<1> SUFFICES ASSUME Init PROVE TypeOK OBVIOUS
<1>1. PlaceType
  BY DEF Init, PlaceType, ShakePoints, TestPoints
<1>5. ClockType
  <2>1. /\ answer = <<>> /\ counting \in BOOLEAN /\ eagain \in BOOLEAN
    BY DEF Init
  <2>2. lastTime \in 0..MaxClock /\ clock \in 0..MaxClock /\ boots \in 0..Restarts
    BY Parameters DEF Init
  <2> QED BY <2>1, <2>2 DEF ClockType
<1>2. CountType
  BY Parameters DEF Init, CountType, AnyPort, NoPort
<1>3. WireType /\ HistoryType
  BY Parameters DEF Init, WireType, HistoryType, Quiet, Blank
<1>4. LaptopType
  BY Parameters DEF Init, LaptopType, BoardsOf
<1> QED BY <1>1, <1>2, <1>3, <1>4, <1>5, TypeParts

\* Board and socket are where the code can be.
LEMMA PlaceStep == LinkInv /\ [Next]_vars => PlaceType'
<1> SUFFICES ASSUME LinkInv, [Next]_vars PROVE PlaceType' OBVIOUS
<1>0. PlaceType
  BY TypeParts DEF LinkInv
<1> USE DEF PlaceType, ShakePoints, TestPoints, GoTo, FailFrom
<1>1. CASE OpenEntry \/ ConnectEntry \/ SendText \/ RecvPort \/ RecvEnd
  BY <1>0, <1>1 DEF OpenEntry, ConnectEntry, SendText, RecvPort, RecvEnd
<1>2. CASE ParsePort \/ CloseEntry \/ BreakEntry
  BY <1>0, <1>2 DEF ParsePort, CloseEntry, BreakEntry
<1>3. CASE OpenTests
  BY <1>0, <1>3 DEF OpenTests, OpenDrift, OpenForever, OpenL2, OpenL3, OpenTest, GiveUp
<1>4. CASE ConnectTest \/ StartCounting \/ GetTime \/ OtherText
  BY <1>0, <1>4 DEF ConnectTest, StartCounting, GetTime, OtherText, SendsAnswer, Tests
<1>5. CASE StreamReadings \/ HearBroadcasts \/ ListenL2 \/ CloseTest
  BY <1>0, <1>5 DEF StreamReadings, HearBroadcasts, Loop, ListenL2, CloseTest
<1>6. CASE Restart
  BY <1>0, <1>6 DEF Restart
<1>7. CASE ~BoardSteps
  BY <1>0, <1>7, QuietBoard
<1> QED BY <1>1, <1>2, <1>3, <1>4, <1>5, <1>6, <1>7 DEF BoardSteps, Handshake, Test, OpenTests

\* No more tries than allowed, no more digits than a port has.
LEMMA CountStep == LinkInv /\ [Next]_vars => CountType'
<1> SUFFICES ASSUME LinkInv, [Next]_vars PROVE CountType' OBVIOUS
<1>0. CountType /\ WireType
  BY TypeParts DEF LinkInv
<1> USE Parameters DEF CountType, AnyPort, NoPort, FailFrom
<1>1. CASE OpenEntry \/ RecvEnd \/ CloseEntry \/ BreakEntry
  BY <1>0, <1>1 DEF OpenEntry, RecvEnd, CloseEntry, BreakEntry, shakeVars
<1>2. CASE ConnectEntry
  <2>1. /\ UNCHANGED <<sent, rcvd, text>> /\ (port' = port \/ port' = NoPort)
        /\ tries' = tries \/ (tries < MaxTries /\ tries' = tries + 1)
    BY <1>2 DEF ConnectEntry
  <2> QED BY <1>0, <2>1
<1>3. CASE SendText
  BY <1>0, <1>3 DEF SendText
<1>4. CASE RecvPort
  <2>1. PICK n \in 1..wire.down : rcvd' = rcvd + n /\ text' = <<rcvd + 1, rcvd + n>>
    BY <1>4 DEF RecvPort
  <2>2. wire.down \in Nat /\ rcvd + wire.down <= PortLen
    BY <1>0 DEF LinkInv, PortInv, WireType
  <2>3. rcvd + n \in 1..PortLen /\ rcvd + 1 \in 1..PortLen
    BY <1>0, <2>1, <2>2
  <2> QED BY <1>0, <1>4, <2>1, <2>3 DEF RecvPort
<1>5. CASE ParsePort
  BY <1>0, <1>5 DEF ParsePort, WireType
<1>6. CASE Restart
  BY <1>0, <1>6 DEF Restart
<1>7. CASE ~(Handshake \/ BreakEntry \/ Restart)
  BY <1>0, <1>7, QuietHandshake DEF shakeVars
<1> QED BY <1>1, <1>2, <1>3, <1>4, <1>5, <1>6, <1>7 DEF Handshake

\* What is under way is never more than a port.
LEMMA WireStep == LinkInv /\ [Next]_vars => WireType'
<1> SUFFICES ASSUME LinkInv, [Next]_vars PROVE WireType' OBVIOUS
<1>0. WireType /\ LaptopType
  BY TypeParts DEF LinkInv
<1> USE Parameters DEF WireType
<1>1. CASE ConnectEntry
  <2>1. wire' = wire \/ wire' = [Quiet EXCEPT !.conn = "pending"]
    BY <1>1 DEF ConnectEntry
  <2> DEFINE W == [conn : {"none", "pending", "accepted", "served"}, up : {"none", "part", "whole"},
                   down : 0..PortLen, port : 0..MaxPort, shut : BOOLEAN]
  <2>2. Quiet \in W
    BY DEF Quiet
  <2>3. \A w \in W : [w EXCEPT !.conn = "pending"] \in W
    OBVIOUS
  <2> QED BY <1>0, <2>1, <2>2, <2>3
<1>2. CASE SendText
  BY <1>0, <1>2 DEF SendText
<1>3. CASE RecvPort
  BY <1>0, <1>3 DEF RecvPort
<1>4. CASE Accept \/ HearEnd \/ Stop
  BY <1>0, <1>4 DEF Accept, HearEnd, Stop, Quit
<1>5. CASE Hear
  <2>1. CASE AddBoard
    <3>1. lastPort' \in 0..MaxPort
      BY <1>0, <2>1 DEF AddBoard, LaptopType
    <3>2. \/ wire' = [wire EXCEPT !.conn = "served", !.down = PortLen, !.port = lastPort', !.shut = TRUE]
          \/ wire' = [wire EXCEPT !.conn = "served", !.shut = TRUE]
          \/ wire' = [wire EXCEPT !.shut = TRUE]
      BY <1>5 DEF Hear, Quit
    <3>3. ASSUME wire' = [wire EXCEPT !.conn = "served", !.down = PortLen, !.port = lastPort',
                                      !.shut = TRUE]
          PROVE  WireType'
      <4> DEFINE W == [conn : {"none", "pending", "accepted", "served"},
                       up : {"none", "part", "whole"},
                       down : 0..PortLen, port : 0..MaxPort, shut : BOOLEAN]
                 w == [wire EXCEPT !.conn = "served", !.port = lastPort', !.shut = TRUE]
      <4>1. w \in W
        BY <1>0, <3>1
      <4>2. wire' = [w EXCEPT !.down = PortLen]
        BY <3>3
      <4> HIDE DEF w
      <4>3. [w EXCEPT !.down = PortLen] \in W
        BY <4>1
      <4> QED BY <4>2, <4>3
    <3>4. ASSUME wire' = [wire EXCEPT !.conn = "served", !.shut = TRUE]
                 \/ wire' = [wire EXCEPT !.shut = TRUE]
          PROVE  WireType'
      BY <1>0, <3>4
    <3> QED BY <3>2, <3>3, <3>4
  <2>2. CASE ~AddBoard
    BY <1>0, <1>5, <2>2 DEF Hear, Quit
  <2> QED BY <2>1, <2>2
<1>6. CASE HearGhost
  BY <1>0, <1>6 DEF HearGhost, Quit
<1>7. CASE Restart
  BY <1>7 DEF Restart, Quiet
<1>8. CASE ~ConnectionSteps
  BY <1>0, <1>8, QuietWire
<1> QED BY <1>1, <1>2, <1>3, <1>4, <1>5, <1>6, <1>7, <1>8 DEF ConnectionSteps

\* Registering a board leaves the table within the board count, with the new port.
LEMMA AddBoardStep ==
  ASSUME LinkInv, AddBoard, entry \in {"accept", "recv", "ghost"}
  PROVE  /\ table' \in [mine : 0..MaxPort, others : 0..BoardCount]
         /\ table'.mine = lastPort' /\ lastPort' \in 1..MaxPort
         /\ BoardsOf(table') <= BoardCount
         /\ entry' \in {"idle", "accept"}
         /\ entry' = "accept" => BoardsOf(table') < BoardCount
<1>1. /\ table.mine \in 0..MaxPort /\ table.others \in 0..BoardCount /\ lastPort \in 0..MaxPort
      /\ table = [mine |-> table.mine, others |-> table.others]
      /\ BoardsOf(table) < BoardCount
  BY TypeParts DEF LinkInv, LaptopType, ServerInv
<1>2. PICK p \in (lastPort + 1)..(lastPort + BindRetries) :
        p <= MaxPort /\ lastPort' = p /\ table' = [table EXCEPT !.mine = p]
  BY DEF AddBoard
<1>3. table' = [mine |-> lastPort', others |-> table.others] /\ lastPort' \in 1..MaxPort
  BY <1>1, <1>2, Parameters
<1>4. BoardsOf(table') = table.others + 1
  BY <1>3, Parameters DEF BoardsOf
<1>5. table.others + 1 \in Nat /\ table.others + 1 <= BoardCount
  BY <1>1, Parameters DEF BoardsOf
<1>6. entry' = IF BoardsOf(table') = BoardCount THEN "idle" ELSE "accept"
  BY DEF AddBoard, Looping
<1> QED BY <1>1, <1>3, <1>4, <1>5, <1>6, Parameters

\* Another board takes a place that was free.
LEMMA OtherBoardStep ==
  ASSUME LinkInv, OtherBoard
  PROVE  /\ table' \in [mine : 0..MaxPort, others : 0..BoardCount]
         /\ table'.mine = table.mine /\ lastPort' \in 0..MaxPort
         /\ BoardsOf(table') <= BoardCount
         /\ entry' \in {"idle", "accept"}
         /\ entry' = "accept" => BoardsOf(table') < BoardCount
<1>1. /\ table.mine \in 0..MaxPort /\ table.others \in 0..BoardCount /\ lastPort \in 0..MaxPort
      /\ table = [mine |-> table.mine, others |-> table.others]
      /\ BoardsOf(table) < BoardCount
  BY TypeParts DEF LinkInv, LaptopType, ServerInv, OtherBoard
<1>2. /\ lastPort < MaxPort /\ lastPort' = lastPort + 1
      /\ table' = [mine |-> table.mine, others |-> table.others + 1]
  BY <1>1 DEF OtherBoard
<1>3. BoardsOf(table') = BoardsOf(table) + 1 /\ BoardsOf(table) \in Nat
  BY <1>1, <1>2, Parameters DEF BoardsOf
<1>4. table.others + 1 \in 0..BoardCount /\ BoardsOf(table) + 1 <= BoardCount
  BY <1>1, <1>3, Parameters DEF BoardsOf
<1>5. entry' = IF BoardsOf(table') = BoardCount THEN "idle" ELSE "accept"
  BY DEF OtherBoard, Looping
<1> QED BY <1>1, <1>2, <1>3, <1>4, <1>5, Parameters

\* The laptop never has more boards than it waits for.
LEMMA LaptopStep == LinkInv /\ [Next]_vars => LaptopType'
<1> SUFFICES ASSUME LinkInv, [Next]_vars PROVE LaptopType' OBVIOUS
<1>0. LaptopType /\ WireType
  BY TypeParts DEF LinkInv
<1> USE DEF LaptopType
<1>1. CASE Accept \/ HearEnd \/ AcceptGhost \/ Stop
  BY <1>0, <1>1 DEF Accept, HearEnd, AcceptGhost, Stop, Quit
<1>2. CASE Hear
  <2>1. CASE AddBoard
    BY <1>0, <1>2, <2>1, AddBoardStep DEF Hear
  <2>2. CASE ~AddBoard
    BY <1>0, <1>2, <2>2 DEF Hear, Quit
  <2> QED BY <2>1, <2>2
<1>3. CASE HearGhost
  <2>1. CASE AddBoard
    BY <1>0, <1>3, <2>1, AddBoardStep DEF HearGhost
  <2>2. CASE ~AddBoard
    BY <1>0, <1>3, <2>2 DEF HearGhost, Quit
  <2> QED BY <2>1, <2>2
<1>4. CASE OtherBoard
  BY <1>0, <1>4, OtherBoardStep DEF OtherBoard
<1>5. CASE Restart
  BY <1>0, <1>5 DEF Restart, Remains, WireType
<1>6. CASE ~(Laptop \/ OtherBoard \/ Stop \/ Restart)
  BY <1>0, <1>6, QuietLaptop DEF serverVars
<1> QED BY <1>1, <1>2, <1>3, <1>4, <1>5, <1>6 DEF Laptop

\* A word is a word, and the clock stops at its bound.
LEMMA ClockStep == LinkInv /\ [Next]_vars => ClockType'
<1> SUFFICES ASSUME LinkInv, [Next]_vars PROVE ClockType' OBVIOUS
<1>0. ClockType
  BY TypeParts DEF LinkInv
<1> USE Parameters DEF ClockType
<1>1. CASE ConnectTest
  BY <1>0, <1>1 DEF ConnectTest
<1>2. CASE StartCounting \/ ListenL2
  BY <1>0, <1>2 DEF StartCounting, ListenL2
<1>3. CASE GetTime
  <2>1. /\ clock \div NsPerSec - lastTime \div NsPerSec \in Int
        /\ (clock % NsPerSec) - (lastTime % NsPerSec) \in Int
    BY <1>0
  <2>2. \A x \in Int : x % Word \in 0..(Word - 1)
    BY Division
  <2>3. answer' \in (0..(Word - 1)) \X (0..(Word - 1))
    BY <1>3, <2>1, <2>2 DEF GetTime
  <2>4. UNCHANGED <<lastTime, clock, counting, eagain, boots>>
    BY <1>3 DEF GetTime
  <2> QED BY <1>0, <2>3, <2>4
<1>4. CASE Tick
  BY <1>0, <1>4 DEF Tick, driftVars
<1>5. CASE Restart
  <2>1. answer' = <<>> /\ counting' \in BOOLEAN /\ eagain' \in BOOLEAN
    BY <1>5 DEF Restart
  <2>2. lastTime' = 0 /\ clock' = 0 /\ boots < Restarts /\ boots' = boots + 1
    BY <1>5 DEF Restart
  <2>3. lastTime' \in 0..MaxClock /\ clock' \in 0..MaxClock /\ boots' \in 0..Restarts
    BY <1>0, <2>2
  <2> QED BY <2>1, <2>3
<1>6. CASE ~(ConnectTest \/ StartCounting \/ GetTime \/ ListenL2 \/ Tick \/ Restart)
  BY <1>0, <1>6, QuietClock DEF driftVars
<1> QED BY <1>1, <1>2, <1>3, <1>4, <1>5, <1>6

\* The notes the properties look back at.
LEMMA HistoryStep == LinkInv /\ [Next]_vars => HistoryType'
<1> SUFFICES ASSUME LinkInv, [Next]_vars PROVE HistoryType' OBVIOUS
<1>0. HistoryType /\ ClockType /\ DriftInv
  BY TypeParts DEF LinkInv
<1> USE Parameters DEF HistoryType
<1>1. CASE ParsePort \/ CloseEntry
  BY <1>0, <1>1 DEF ParsePort, CloseEntry
<1>2. CASE OpenTests
  BY <1>0, <1>2 DEF OpenTests, OpenDrift, OpenForever, OpenL2, OpenL3, OpenTest, GiveUp
<1>3. CASE StartCounting
  BY <1>0, <1>3 DEF StartCounting, ClockType
<1>4. CASE GetTime
  <2>1. clock - history.start \in 0..MaxClock
    BY <1>0 DEF ClockType, DriftInv
  <2> QED BY <1>0, <1>4, <2>1 DEF GetTime
<1>5. CASE CloseTest
  BY <1>0, <1>5 DEF CloseTest
<1>6. CASE Restart
  BY <1>6 DEF Restart, Blank
<1>7. CASE ~(ParsePort \/ CloseEntry \/ OpenTests \/ StartCounting \/ GetTime \/ CloseTest \/ Restart)
  BY <1>0, <1>7, QuietHistory
<1> QED BY <1>1, <1>2, <1>3, <1>4, <1>5, <1>6, <1>7

\* Every step keeps the types.
LEMMA TypeStep == LinkInv /\ [Next]_vars => TypeOK'
<1> SUFFICES ASSUME LinkInv, [Next]_vars PROVE TypeOK' OBVIOUS
<1>1. PlaceType' /\ CountType' /\ WireType' /\ LaptopType' /\ ClockType' /\ HistoryType'
  BY PlaceStep, CountStep, WireStep, LaptopStep, ClockStep, HistoryStep
<1> QED BY <1>1 DEF TypeOK, PlaceType, CountType, WireType, LaptopType, ClockType, HistoryType

-----------------------------------------------------------------------------
(* The laptop, the port, the socket and the clock. *)

\* What the steps do to the state of the connection.
LEMMA ConnSteps ==
  ASSUME LinkInv, [Next]_vars
  PROVE  /\ ConnectEntry => wire' = wire \/ (wire'.conn = "pending" /\ wire'.down = 0)
         /\ SendText => wire'.conn = wire.conn /\ wire'.down = wire.down /\ wire'.port = wire.port
         /\ RecvPort => wire'.conn = wire.conn /\ wire'.port = wire.port
         /\ Accept => wire'.conn = "accepted" /\ wire'.down = wire.down /\ wire'.port = wire.port
         /\ HearEnd => wire'.conn = "served" /\ wire'.down = wire.down /\ wire'.port = wire.port
         /\ Quit => wire'.conn = wire.conn /\ wire'.down = wire.down /\ wire'.port = wire.port
<1>0. WireType
  BY TypeParts DEF LinkInv
<1> QED BY <1>0 DEF WireType, ConnectEntry, SendText, RecvPort, Accept, HearEnd, Quit, Quiet

\* A text the laptop has read: the board is registered and the port is on its way, or
\* the connection is closed without one.
LEMMA HearStep ==
  ASSUME LinkInv, Hear
  PROVE  \/ /\ wire'.conn = "served" /\ wire'.down = PortLen /\ wire'.port = table'.mine
            /\ wire'.port # 0 /\ AddBoard
         \/ /\ wire'.conn = "served" /\ wire'.down = wire.down /\ wire'.port = wire.port
            /\ entry' = "accept" /\ table' = table
         \/ Quit
<1>0. WireType
  BY TypeParts DEF LinkInv
<1>1. CASE /\ AddBoard
           /\ wire' = [wire EXCEPT !.conn = "served", !.down = PortLen, !.port = lastPort', !.shut = TRUE]
  <2>1. table'.mine = lastPort' /\ lastPort' # 0
    BY <1>1, AddBoardStep DEF Hear
  <2> QED BY <1>0, <1>1, <2>1 DEF WireType
<1>2. CASE /\ entry' = "accept" /\ wire' = [wire EXCEPT !.conn = "served", !.shut = TRUE]
           /\ UNCHANGED <<table, lastPort>>
  BY <1>0, <1>2 DEF WireType
<1> QED BY <1>1, <1>2 DEF Hear

\* The entry loop, its table and its connections stay in step.
LEMMA ServerStep == LinkInv /\ [Next]_vars => ServerInv'
<1> SUFFICES ASSUME LinkInv, [Next]_vars PROVE ServerInv' OBVIOUS
<1>0. ServerInv /\ LaptopType /\ WireType
  BY TypeParts DEF LinkInv
<1> USE DEF ServerInv
<1>1. CASE ConnectEntry \/ SendText \/ RecvPort
  <2>1. UNCHANGED <<entry, ghost, table>>
    BY <1>1, QuietLaptop DEF ConnectEntry, SendText, RecvPort, serverVars
  <2>2. wire'.conn = wire.conn \/ (wire.conn = "none" /\ wire'.conn = "pending")
    <3>1. ConnectEntry => wire.conn = "none"
      BY DEF ConnectEntry, GoTo, FailFrom, LinkInv, PortInv
    <3> QED BY <1>1, <3>1, ConnSteps
  <2> QED BY <1>0, <2>1, <2>2
<1>2. CASE Accept
  BY <1>0, <1>2, ConnSteps DEF Accept
<1>3. CASE Hear
  <2>1. entry = "recv" /\ ghost' = ghost /\ ghost = "none"
    BY <1>0, <1>3 DEF Hear
  <2>2. CASE AddBoard
    <3>1. entry' \in {"idle", "accept", "left"} /\ (entry' = "accept" => BoardsOf(table') < BoardCount)
      BY <2>1, <2>2, AddBoardStep
    <3>2. wire'.conn = "served" \/ entry' = "left"
      BY <1>3, HearStep DEF Quit
    <3> QED BY <2>1, <3>1, <3>2
  <2>3. CASE ~AddBoard
    BY <1>0, <1>3, <2>1, <2>3, HearStep, ConnSteps DEF Quit
  <2> QED BY <2>2, <2>3
<1>4. CASE HearEnd
  BY <1>0, <1>4, ConnSteps DEF HearEnd
<1>5. CASE AcceptGhost
  BY <1>0, <1>5 DEF AcceptGhost
<1>6. CASE HearGhost
  <2>1. entry = "ghost" /\ ghost' = "none" /\ wire.conn # "accepted"
    BY <1>0, <1>6 DEF HearGhost
  <2>2. wire'.conn = wire.conn
    BY <1>6, ConnSteps DEF HearGhost
  <2>3. CASE AddBoard
    BY <2>1, <2>2, <2>3, AddBoardStep
  <2>4. CASE ~AddBoard
    BY <1>0, <1>6, <2>1, <2>2, <2>4 DEF HearGhost, Quit
  <2> QED BY <2>3, <2>4
<1>7. CASE OtherBoard
  BY <1>0, <1>7, OtherBoardStep DEF OtherBoard
<1>8. CASE Stop
  BY <1>0, <1>8, ConnSteps DEF Stop, Quit
<1>9. CASE Restart
  <2>1. /\ wire'.conn = "none" /\ ghost = "none" /\ ghost' = Remains /\ table' = table
        /\ entry' = IF entry = "recv" THEN "ghost" ELSE entry
    BY <1>9 DEF Restart, Quiet
  <2>2. entry = "recv" => Remains # "none"
    BY <1>0 DEF Remains
  <2> QED BY <1>0, <2>1, <2>2
<1>10. CASE ~ConnectionSteps /\ ~(Laptop \/ OtherBoard \/ Stop \/ Restart)
  BY <1>0, <1>10, QuietWire, QuietLaptop DEF serverVars
<1> QED BY <1>1, <1>2, <1>3, <1>4, <1>5, <1>6, <1>7, <1>8, <1>9, <1>10 DEF ConnectionSteps, Laptop

\* The digits that are read are those of the port in the table.
LEMMA PortStep == LinkInv /\ [Next]_vars => PortInv'
<1> SUFFICES ASSUME LinkInv, [Next]_vars PROVE PortInv' OBVIOUS
<1>0. /\ PortInv /\ ServerInv /\ WireType /\ CountType /\ HistoryType
      /\ rcvd \in Nat /\ wire.down \in Nat
  BY TypeParts, Parameters DEF LinkInv, CountType, WireType
<1> USE DEF GoTo, FailFrom, ShakePoints
<1>1. CASE OpenEntry
  BY <1>0, <1>1 DEF OpenEntry, PortInv, driftVars, serverVars
<1>2. CASE ConnectEntry
  <2>1. /\ pc = "connect" /\ pc' \in {"connect", "send", "testOpen"} /\ table' = table
        /\ UNCHANGED <<rcvd, text, history>>
        /\ wire' = wire \/ (pc' = "send" /\ wire'.conn = "pending" /\ wire'.down = 0)
    BY <1>2, ConnSteps DEF ConnectEntry, serverVars
  <2> QED BY <1>0, <2>1, Parameters DEF PortInv
<1>3. CASE SendText
  BY <1>0, <1>3, ConnSteps DEF SendText, PortInv, serverVars
<1>4. CASE BreakEntry \/ RecvEnd
  BY <1>0, <1>4 DEF BreakEntry, RecvEnd, PortInv, shakeVars, serverVars
<1>5. CASE RecvPort
  <2>1. PICK n \in 1..wire.down : /\ rcvd' = rcvd + n /\ text' = <<rcvd + 1, rcvd + n>>
                                  /\ wire' = [wire EXCEPT !.down = @ - n]
    BY <1>5 DEF RecvPort
  <2>2. wire'.down = wire.down - n /\ wire'.conn = wire.conn /\ wire'.port = wire.port
    BY <1>0, <2>1 DEF WireType
  <2>3. table' = table /\ history' = history /\ pc = "recv" /\ pc' \in {"recv", "parse"}
    BY <1>5 DEF RecvPort, serverVars
  <2> QED BY <1>0, <2>1, <2>2, <2>3 DEF PortInv
<1>6. CASE ParsePort
  <2>1. /\ pc = "parse" /\ pc' = "close" /\ UNCHANGED <<rcvd, text, wire, table>>
        /\ history' = history \/ (port' = wire.port /\ text = <<1, PortLen>>)
    BY <1>6 DEF ParsePort, serverVars
  <2>2. text = <<1, PortLen>> => text # <<>>
    OBVIOUS
  <2> QED BY <1>0, <2>1, <2>2 DEF PortInv
<1>7. CASE CloseEntry
  <2>1. /\ pc = "close" /\ pc' = "testOpen" /\ UNCHANGED <<rcvd, text, wire, table>>
        /\ (history' = history /\ port' = port) \/ ~history'.clean
    BY <1>0, <1>7 DEF CloseEntry, serverVars, HistoryType
  <2> QED BY <1>0, <2>1 DEF PortInv
<1>8. CASE Accept
  <2>1. wire.conn = "pending" /\ pc' = pc /\ UNCHANGED <<shakeVars, table, history>>
    BY <1>8 DEF Accept
  <2> QED BY <1>0, <1>8, <2>1, ConnSteps DEF PortInv, shakeVars
<1>9. CASE Hear
  <2>1. /\ wire.conn = "accepted" /\ pc' = pc /\ UNCHANGED <<shakeVars, history>>
        /\ rcvd = 0 /\ wire.down = 0
    BY <1>0, <1>9 DEF Hear, ServerInv, PortInv
  <2>2. ~history.clean /\ pc \notin {"open", "connect"}
    BY <1>0, <2>1 DEF PortInv
  <2>3. \/ wire'.conn = "served" /\ wire'.down = PortLen /\ wire'.port = table'.mine /\ wire'.port # 0
        \/ wire'.down = wire.down
    BY <1>9, HearStep, ConnSteps
  <2> QED BY <1>0, <2>1, <2>2, <2>3, Parameters DEF PortInv, shakeVars
<1>10. CASE HearEnd
  <2>1. /\ wire.conn = "accepted" /\ pc' = pc /\ UNCHANGED <<shakeVars, history>>
        /\ rcvd = 0 /\ wire.down = 0
    BY <1>0, <1>10 DEF HearEnd, ServerInv, PortInv
  <2>2. ~history.clean /\ pc \notin {"open", "connect"}
    BY <1>0, <2>1 DEF PortInv
  <2> QED BY <1>0, <1>10, <2>1, <2>2, ConnSteps, Parameters DEF PortInv, shakeVars
<1>11. CASE HearGhost
  <2>1. /\ ghost # "none" /\ wire.conn \in {"none", "pending"}
        /\ UNCHANGED <<pc, shakeVars, history>>
        /\ wire'.conn = wire.conn /\ wire'.down = wire.down /\ wire'.port = wire.port
    BY <1>0, <1>11, ConnSteps DEF HearGhost, ServerInv
  <2> QED BY <1>0, <2>1 DEF PortInv, shakeVars
<1>12. CASE OtherBoard
  <2>1. table'.mine = table.mine /\ UNCHANGED <<pc, shakeVars, wire, history>>
    BY <1>12, OtherBoardStep DEF OtherBoard
  <2> QED BY <1>0, <2>1 DEF PortInv, shakeVars
<1>13. CASE Stop
  <2>1. /\ UNCHANGED <<pc, shakeVars, history, table>>
        /\ wire'.conn = wire.conn /\ wire'.down = wire.down /\ wire'.port = wire.port
    BY <1>13, ConnSteps DEF Stop, Quit
  <2> QED BY <1>0, <2>1 DEF PortInv, shakeVars
<1>14. CASE AcceptGhost \/ Tick
  BY <1>0, <1>14 DEF AcceptGhost, Tick, PortInv, shakeVars, serverVars
<1>15. CASE Test
  <2>1. UNCHANGED <<shakeVars, wire, serverVars>>
    BY <1>15 DEF Test, OpenDrift, OpenForever, OpenL2, OpenL3, OpenTest, GiveUp, ConnectTest,
       StartCounting, GetTime, OtherText, StreamReadings, HearBroadcasts, Loop, ListenL2, CloseTest
  <2>2. pc' \notin ShakePoints
    BY <1>15 DEF Test, OpenDrift, OpenForever, OpenL2, OpenL3, OpenTest, GiveUp, ConnectTest,
       StartCounting, GetTime, OtherText, StreamReadings, HearBroadcasts, Loop, ListenL2, CloseTest,
       SendsAnswer, Tests, LinkInv, TypeOK
  <2>3. history'.clean => history.clean
    <3>1. CASE OpenTests
      BY <1>0, <3>1 DEF OpenTests, OpenDrift, OpenForever, OpenL2, OpenL3, OpenTest, GiveUp, HistoryType
    <3>2. CASE StartCounting \/ GetTime
      BY <1>0, <3>2 DEF StartCounting, GetTime, HistoryType
    <3>3. CASE CloseTest
      BY <1>0, <3>3 DEF CloseTest, HistoryType
    <3>4. CASE ConnectTest \/ OtherText \/ StreamReadings \/ HearBroadcasts \/ ListenL2
      BY <3>4 DEF ConnectTest, OtherText, StreamReadings, HearBroadcasts, Loop, ListenL2
    <3> QED BY <1>15, <3>1, <3>2, <3>3, <3>4 DEF Test, OpenTests
  <2> QED BY <1>0, <2>1, <2>2, <2>3 DEF PortInv, shakeVars, serverVars
<1>16. CASE Restart
  BY <1>16, Parameters DEF Restart, Quiet, Blank, PortInv
<1>17. CASE UNCHANGED vars
  BY <1>0, <1>17 DEF vars, PortInv, shakeVars, serverVars
<1> QED BY <1>1, <1>2, <1>3, <1>4, <1>5, <1>6, <1>7, <1>8, <1>9, <1>10, <1>11, <1>12, <1>13,
           <1>14, <1>15, <1>16, <1>17 DEF Next, Handshake, Laptop

\* A descriptor is closed when it is not used any more, and not before.
LEMMA SockStep == LinkInv /\ [Next]_vars => SockInv'
<1> SUFFICES ASSUME LinkInv, [Next]_vars PROVE SockInv' OBVIOUS
<1>0. SockInv /\ HistoryType /\ tries \in Nat
  BY TypeParts, Parameters DEF LinkInv, CountType
<1> USE DEF SockInv, UsesOpen, GoTo, FailFrom
<1>1. CASE OpenEntry \/ SendText \/ RecvPort \/ RecvEnd
  BY <1>0, <1>1 DEF OpenEntry, SendText, RecvPort, RecvEnd, shakeVars
<1>2. CASE ConnectEntry
  <2>1. /\ pc = "connect"
        /\ \/ pc' = "send" /\ sock = "open" /\ tries' = tries
           \/ pc' \in {"connect", "testOpen"} /\ sock' = "closed"
        /\ pc' = "send" => sock' = "connected"
    BY <1>2 DEF ConnectEntry
  <2> QED BY <1>0, <2>1
<1>3. CASE ParsePort \/ BreakEntry
  BY <1>0, <1>3 DEF ParsePort, BreakEntry
<1>4. CASE CloseEntry
  <2>1. /\ pc = "close" /\ pc' = "testOpen"
        /\ sock' = "closed" \/ history'.closeFailed
    BY <1>0, <1>4 DEF CloseEntry, HistoryType
  <2> QED BY <2>1
<1>5. CASE OpenTests
  <2>1. \/ pc' = "testConnect" /\ test' \in {"drift", "forever"} /\ sock' = "open"
        \/ pc' \in {"l2", "l3"} /\ sock' = "open"
        \/ pc' = "done" /\ sock' \in {"none", "closed"}
    BY <1>5 DEF OpenTests, OpenDrift, OpenForever, OpenL2, OpenL3, OpenTest, GiveUp
  <2> QED BY <2>1
<1>6. CASE ConnectTest
  <2>1. \/ pc' \in {"drift", "forever"} /\ sock' = "connected"
        \/ pc' = "done" /\ sock' = "closed"
    BY <1>0, <1>6 DEF ConnectTest
  <2> QED BY <2>1
<1>7. CASE StartCounting \/ GetTime \/ OtherText \/ StreamReadings \/ HearBroadcasts \/ ListenL2
  <2>1. /\ sock' = sock /\ pc' \in {pc, "testClose"}
        /\ pc \in {"drift", "forever", "l2", "l3"}
    BY <1>7 DEF StartCounting, GetTime, OtherText, StreamReadings, HearBroadcasts, Loop, ListenL2,
       SendsAnswer
  <2> QED BY <1>0, <2>1
<1>8. CASE CloseTest
  <2>1. pc' = "done" /\ (sock' = "closed" \/ history'.closeFailed)
    BY <1>0, <1>8 DEF CloseTest, HistoryType
  <2> QED BY <2>1
<1>9. CASE Restart
  BY <1>9 DEF Restart
<1>10. CASE ~BoardSteps
  BY <1>0, <1>10, QuietBoard DEF shakeVars
<1> QED BY <1>1, <1>2, <1>3, <1>4, <1>5, <1>6, <1>7, <1>8, <1>9, <1>10
        DEF BoardSteps, Handshake, Test, OpenTests

\* An answer stays the time since the last start of the count.
LEMMA DriftStep == LinkInv /\ [Next]_vars => DriftInv'
<1> SUFFICES ASSUME LinkInv, [Next]_vars PROVE DriftInv' OBVIOUS
<1>0. /\ DriftInv /\ HistoryType /\ ClockType /\ PlaceType
      /\ clock \in Nat /\ lastTime \in Nat /\ history.start \in Nat
  BY TypeParts, Parameters DEF LinkInv, ClockType, HistoryType
<1> USE DEF DriftInv, ElapsedExact
<1> DEFINE Before == ShakePoints \union {"testOpen", "testConnect"}
<1>1. CASE OpenEntry \/ ConnectEntry \/ SendText \/ RecvPort \/ RecvEnd \/ BreakEntry
  <2>1. UNCHANGED <<driftVars, clock, history>> /\ pc \in Before
    BY <1>1 DEF OpenEntry, ConnectEntry, SendText, RecvPort, RecvEnd, BreakEntry, GoTo, FailFrom,
       ShakePoints
  <2> QED BY <1>0, <2>1 DEF driftVars
<1>2. CASE ParsePort \/ CloseEntry \/ OpenTests
  <2>1. UNCHANGED <<driftVars, clock>> /\ pc \in Before
    BY <1>2 DEF ParsePort, CloseEntry, OpenTests, OpenDrift, OpenForever, OpenL2, OpenL3, OpenTest,
       GiveUp, GoTo, FailFrom, ShakePoints
  <2>2. history'.start = history.start /\ history'.elapsed = history.elapsed
    BY <1>0, <1>2 DEF ParsePort, CloseEntry, OpenTests, OpenDrift, OpenForever, OpenL2, OpenL3,
       OpenTest, GiveUp, HistoryType
  <2> QED BY <1>0, <2>1, <2>2 DEF driftVars
<1>3. CASE ConnectTest
  <2>1. /\ UNCHANGED <<counting, answer, clock, history>> /\ ~counting
        /\ lastTime' = clock \/ lastTime' = lastTime
    BY <1>0, <1>3 DEF ConnectTest, GoTo
  <2> QED BY <1>0, <2>1
<1>4. CASE StartCounting
  <2>1. /\ lastTime' = clock /\ history'.start = clock /\ history'.elapsed = history.elapsed
        /\ UNCHANGED <<answer, clock>> /\ pc' \in {"drift", "testClose"}
    BY <1>0, <1>4 DEF StartCounting, SendsAnswer, HistoryType
  <2> QED BY <1>0, <2>1 DEF ShakePoints
<1>5. CASE GetTime
  <2>1. /\ counting /\ UNCHANGED <<counting, lastTime, clock>> /\ pc' \in {"drift", "testClose"}
        /\ answer' = << (clock \div NsPerSec - lastTime \div NsPerSec) % Word,
                        ((clock % NsPerSec) - (lastTime % NsPerSec)) % Word >>
    BY <1>5 DEF GetTime, SendsAnswer
  <2>2. history'.start = history.start /\ history'.elapsed = clock - history.start
    BY <1>0, <1>5 DEF GetTime, HistoryType
  <2>3. history.start = lastTime /\ history'.elapsed = clock - lastTime
    BY <1>0, <2>1, <2>2
  <2>4. (((clock \div NsPerSec - lastTime \div NsPerSec) % Word) * NsPerSec
            + (((clock % NsPerSec) - (lastTime % NsPerSec)) % Word)) % Word
          = (clock - lastTime) % Word
    BY <1>0, WrappedDifference, Zenon
  <2>5. (answer'[1] * NsPerSec + answer'[2]) % Word = history'.elapsed % Word
    BY <2>1, <2>3, <2>4
  <2> QED BY <1>0, <2>1, <2>2, <2>3, <2>5 DEF ShakePoints
<1>6. CASE OtherText \/ StreamReadings \/ HearBroadcasts \/ ListenL2
  <2>1. /\ UNCHANGED <<counting, lastTime, answer, clock, history>>
        /\ pc' \in {"drift", "forever", "l2", "l3", "testClose"}
    BY <1>6 DEF OtherText, StreamReadings, HearBroadcasts, Loop, ListenL2, SendsAnswer, driftVars
  <2> QED BY <1>0, <2>1 DEF ShakePoints
<1>7. CASE CloseTest
  <2>1. UNCHANGED <<counting, lastTime, answer, clock>> /\ pc' = "done"
    BY <1>7 DEF CloseTest, GoTo, driftVars
  <2>2. history'.start = history.start /\ history'.elapsed = history.elapsed
    BY <1>0, <1>7 DEF CloseTest, HistoryType
  <2> QED BY <1>0, <2>1, <2>2 DEF ShakePoints
<1>8. CASE Tick
  BY <1>0, <1>8 DEF Tick, driftVars
<1>9. CASE Restart
  BY <1>9 DEF Restart, Blank
<1>10. CASE ~BoardSteps /\ ~Tick
  BY <1>0, <1>10, QuietBoard, QuietClock DEF BoardSteps, Test, driftVars
<1> QED BY <1>1, <1>2, <1>3, <1>4, <1>5, <1>6, <1>7, <1>8, <1>9, <1>10
        DEF BoardSteps, Handshake, Test, OpenTests

-----------------------------------------------------------------------------
(* The theorems. *)

\* The invariant holds of every behaviour of board and laptop.
THEOREM LinkInvariant == Spec => []LinkInv
<1>1. Init => LinkInv
  <2> SUFFICES ASSUME Init PROVE LinkInv OBVIOUS
  <2>1. ServerInv /\ SockInv
    BY Parameters DEF Init, ServerInv, SockInv, UsesOpen, Quiet, BoardsOf
  <2>2. PortInv /\ DriftInv
    BY Parameters DEF Init, PortInv, DriftInv, ElapsedExact, Quiet, Blank
  <2> QED BY <2>1, <2>2, InitType DEF LinkInv
<1>2. LinkInv /\ [Next]_vars => LinkInv'
  BY TypeStep, ServerStep, PortStep, SockStep, DriftStep DEF LinkInv
<1> QED BY <1>1, <1>2, PTL DEF Spec

\* Every variable keeps its type: no more tries, digits and boards than there are.
THEOREM LinkTypeCorrect == Spec => []TypeOK
BY LinkInvariant, PTL DEF LinkInv

\* A port that came whole is the port on which the laptop has a thread for this very
\* board, over any number of restarts and whatever other boards are registered.
THEOREM PortIsAgreed == Spec => []PortAgreed
<1>1. LinkInv => PortAgreed
  BY DEF LinkInv, PortInv, PortAgreed
<1> QED BY <1>1, LinkInvariant, PTL

\* What is sent, received and closed after an sl_Connect uses an open descriptor, and no
\* function leaves a socket open that it could have closed.
THEOREM DescriptorsAreSound == Spec => []DescriptorsSound
<1>1. LinkInv => DescriptorsSound
  BY DEF LinkInv, SockInv, DescriptorsSound, UsesOpen, SocketsClosed
<1> QED BY <1>1, LinkInvariant, PTL

\* Seconds and nanoseconds of an answer, which wrap each in a word of its own, are the
\* elapsed time modulo the word, for every clock and every width.
THEOREM ElapsedIsExact == Spec => []ElapsedExact
<1>1. LinkInv => ElapsedExact
  BY DEF LinkInv, DriftInv
<1> QED BY <1>1, LinkInvariant, PTL

=============================================================================
