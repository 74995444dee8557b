------------------------------ MODULE DataLink ------------------------------
(***************************************************************************)
(* The TCP and raw-socket programs of ap_connection.c that mainThread      *)
(* offers besides test_time_beac_sync: get_port_for_data_tx asks the       *)
(* laptop's entry port for a port of its own, and one of the tests         *)
(* time_drift_test, transmit_data_forever_test, time_drift_test_l2 and     *)
(* time_drift_test_l3 runs with the answer.  On the other side is          *)
(* wait_for_all_boards_to_connect of board_communication/server.py with    *)
(* add_board, one entry connection after the other.  A port has five       *)
(* digits; a segment carries any part of what is under way.                *)
(*                                                                         *)
(* The buffers of get_port_for_data_tx are not initialised and strcpy is   *)
(* given one without a terminating zero: unless the port came whole, with  *)
(* a zero after it, its value is any (AnyPort).  The board may be switched *)
(* off and on at any time; the network processor, the network and whoever  *)
(* talks to time_drift_test are external.                                  *)
(***************************************************************************)
EXTENDS Integers

CONSTANTS
  MsgLen,        (* msg_size: length of "cc3220sf ipv4:..."                  *)
  PortLen,       (* bytes_to_rcv: digits of a port                           *)
  MaxTries,      (* max_retries                                              *)
  BindRetries,   (* MAX_BIND_RETRIES                                         *)
  MaxPort,       (* bound: ports after the entry port, which is 0            *)
  BoardCount,    (* board_count                                              *)
  Restarts,      (* bound: times the board is switched off and on            *)
  NsPerSec,      (* nanoseconds of a second                                  *)
  Word,          (* 2^32                                                     *)
  MaxClock       (* bound: CLOCK_REALTIME in nanoseconds                     *)

ASSUME DataLinkAssumption ==
  /\ MsgLen \in Nat \ {0} /\ PortLen \in Nat \ {0}
  /\ MaxTries \in Nat /\ BindRetries \in Nat /\ MaxPort \in Nat
  /\ BoardCount \in Nat \ {0} /\ Restarts \in Nat
  /\ NsPerSec \in Nat \ {0} /\ Word \in Nat \ {0} /\ NsPerSec <= Word /\ MaxClock \in Nat

Tests   == {"drift", "forever", "l2", "l3"}
Ports   == 1..MaxPort
NoPort  == MaxPort + 1                  \* 65535, what return(-1) gives as a uint16_t
AnyPort == 0..NoPort

VARIABLES
  pc,            (* where the board is                                       *)
  test,          (* the test mainThread calls                                *)
  sock,          (* the descriptor: none, open, connected or closed          *)
  tries, sent, rcvd,
  text,          (* rcvd_msg: <<first, last>> digit of the port, <<>> unset  *)
  port,          (* portForTX                                                *)
  wire,          (* the connection to the entry port, see Quiet              *)
  entry,         (* where the laptop's entry loop is                         *)
  ghost,         (* what a connection from before a restart has left         *)
  table,         (* boards: the port of this board, the number of others     *)
  lastPort,      (* last_used_port                                           *)
  counting, lastTime, clock,
  answer,        (* the last answer to get_time: seconds, nanoseconds        *)
  eagain,        (* numBytes of time_drift_test_l2 is SL_ERROR_BSD_EAGAIN    *)
  boots,         (* times the board was switched on again                    *)
  history        (* [clean, closeFailed, start, elapsed], see the properties *)

shakeVars  == <<tries, sent, rcvd, text, port>>
serverVars == <<entry, ghost, table, lastPort>>
driftVars  == <<counting, lastTime, answer, eagain>>
vars       == <<pc, test, sock, shakeVars, wire, serverVars, driftVars, clock, boots, history>>

ShakePoints == {"open", "connect", "send", "recv", "parse", "close"}
TestPoints  == {"testOpen", "testConnect", "drift", "forever", "l2", "l3", "testClose", "done"}

\* conn: none, pending in the backlog, accepted, served.  up: what the laptop can read,
\* nothing, a part of the text (or more than one) or the whole.  down: digits of port
\* that are still to be read; shut: the laptop has closed.
Quiet == [conn |-> "none", up |-> "none", down |-> 0, port |-> 0, shut |-> FALSE]
Blank == [clean |-> FALSE, closeFailed |-> FALSE, start |-> 0, elapsed |-> 0]

Init ==
  /\ pc = "open" /\ test \in Tests /\ sock = "none"
  /\ tries = 0 /\ sent = 0 /\ rcvd = 0 /\ text = <<>> /\ port = NoPort
  /\ wire = Quiet
  /\ entry = "accept" /\ ghost = "none" /\ table = [mine |-> 0, others |-> 0] /\ lastPort = 0
  /\ counting = FALSE /\ lastTime = 0 /\ answer = <<>> /\ eagain \in BOOLEAN
  /\ clock = 0 /\ boots = 0 /\ history = Blank

GoTo(from, to) == pc = from /\ pc' = to

-----------------------------------------------------------------------------
(* get_port_for_data_tx. *)

\* return(-1): the uint16_t is 65535, and mainThread goes on with it.
FailFrom(from) == GoTo(from, "testOpen") /\ port' = NoPort

OpenEntry ==
  /\ \/ GoTo("open", "connect") /\ sock' = "open" /\ UNCHANGED port
     \/ FailFrom("open") /\ UNCHANGED sock
  /\ UNCHANGED <<test, tries, sent, rcvd, text, wire, serverVars, driftVars, clock, boots, history>>

\* Mutant: one try too many.
ConnectEntryOnceMore ==
  /\ pc = "connect" /\ sock' = "closed"
  /\ tries <= MaxTries /\ tries' = tries + 1
  /\ UNCHANGED <<pc, port, wire>>
  /\ UNCHANGED <<test, sent, rcvd, text, serverVars, driftVars, clock, boots, history>>

\* The kernel of the laptop accepts connections while the entry socket exists.  After a
\* failure the socket is closed, and the retry uses the same descriptor.
ConnectEntry ==
  /\ \/ /\ sock = "open" /\ entry # "left"
        /\ GoTo("connect", "send") /\ sock' = "connected"
        /\ wire' = [Quiet EXCEPT !.conn = "pending"]
        /\ UNCHANGED <<tries, port>>
     \/ /\ sock' = "closed"
        /\ \/ FailFrom("connect") /\ tries >= MaxTries /\ UNCHANGED tries
           \/ pc = "connect" /\ tries < MaxTries /\ tries' = tries + 1 /\ UNCHANGED <<pc, port>>
        /\ UNCHANGED wire
  /\ UNCHANGED <<test, sent, rcvd, text, serverVars, driftVars, clock, boots, history>>

\* Every sl_Send is given the text from its start.
SendText ==
  /\ pc = "send" /\ sent < MsgLen
  /\ \E n \in 1..MsgLen :
       /\ sent' = sent + n
       /\ wire' = [wire EXCEPT !.up = IF sent = 0 /\ n = MsgLen THEN "whole" ELSE "part"]
       /\ pc' = IF sent' < MsgLen THEN "send" ELSE "recv"
  /\ UNCHANGED <<test, sock, tries, rcvd, text, port, serverVars, driftVars, clock, boots, history>>

\* Mutant: the function returns without closing the socket.
BreakEntryOpen ==
  /\ FailFrom("send") \/ FailFrom("recv")
  /\ UNCHANGED <<test, sock, tries, sent, rcvd, text, wire, serverVars, driftVars, clock, boots, history>>

\* sl_Send or sl_Recv fails.
BreakEntry ==
  /\ FailFrom("send") \/ FailFrom("recv")
  /\ sock' = "closed"
  /\ UNCHANGED <<test, tries, sent, rcvd, text, wire, serverVars, driftVars, clock, boots, history>>

\* Each segment overwrites the one before; only the lengths add up.
RecvPort ==
  /\ pc = "recv"
  /\ \E n \in 1..wire.down :
       /\ rcvd' = rcvd + n
       /\ text' = <<rcvd + 1, rcvd + n>>
       /\ wire' = [wire EXCEPT !.down = @ - n]
       /\ pc' = IF rcvd' < PortLen THEN "recv" ELSE "parse"
  /\ UNCHANGED <<test, sock, tries, sent, port, serverVars, driftVars, clock, boots, history>>

\* Mutant: the loop goes on when the laptop has closed.
RecvEndAgain ==
  /\ pc = "recv" /\ wire.shut /\ wire.down = 0
  /\ UNCHANGED vars

RecvEnd ==
  /\ GoTo("recv", "parse") /\ wire.shut /\ wire.down = 0
  /\ UNCHANGED <<test, sock, shakeVars, wire, serverVars, driftVars, clock, boots, history>>

\* Mutant: what is in the buffer is a number whatever was received.
ParsePortAny ==
  /\ GoTo("parse", "close")
  /\ port' \in AnyPort
  /\ history' = [history EXCEPT !.clean = (text = <<1, PortLen>>)]
  /\ UNCHANGED <<test, sock, tries, sent, rcvd, text, wire, serverVars, driftVars, clock, boots>>

\* atoi of rcvd_msg; the bytes behind the last segment are not initialised.
ParsePort ==
  /\ GoTo("parse", "close")
  /\ \/ port' = wire.port /\ history' = [history EXCEPT !.clean = TRUE] /\ text = <<1, PortLen>>
     \/ port' \in AnyPort /\ UNCHANGED history
  /\ UNCHANGED <<test, sock, tries, sent, rcvd, text, wire, serverVars, driftVars, clock, boots>>

\* When sl_Close fails its status is returned in the place of the port.
CloseEntry ==
  /\ \/ GoTo("close", "testOpen") /\ sock' = "closed" /\ UNCHANGED <<port, history>>
     \/ /\ FailFrom("close")
        /\ history' = [history EXCEPT !.closeFailed = TRUE, !.clean = FALSE]
        /\ UNCHANGED sock
  /\ UNCHANGED <<test, tries, sent, rcvd, text, wire, serverVars, driftVars, clock, boots>>

-----------------------------------------------------------------------------
(* wait_for_all_boards_to_connect and add_board on the laptop. *)

BoardsOf(t) == t.others + (IF t.mine = 0 THEN 0 ELSE 1)
Looping(t)  == IF BoardsOf(t) = BoardCount THEN "idle" ELSE "accept"

\* The process ends: its sockets are closed.
Quit == entry' = "left" /\ wire' = [wire EXCEPT !.shut = TRUE] /\ UNCHANGED <<table, lastPort>>

\* A free port is bound; the entry of the address is replaced.
AddBoard ==
  /\ \E p \in (lastPort + 1)..(lastPort + BindRetries) :
       p <= MaxPort /\ lastPort' = p /\ table' = [table EXCEPT !.mine = p]
  /\ entry' = Looping(table')

Accept ==
  /\ entry = "accept" /\ ghost = "none" /\ wire.conn = "pending"
  /\ entry' = "recv" /\ wire' = [wire EXCEPT !.conn = "accepted"]
  /\ UNCHANGED <<pc, test, sock, shakeVars, ghost, table, lastPort, driftVars, clock, boots, history>>

\* One recv is made.  The whole text with the address of its sender registers the board,
\* and the port is sent; a part is no text, a text without an address or one with
\* another; int() raises for some.  No port to be bound raises as well.
Hear ==
  /\ entry = "recv" /\ wire.up # "none"
  /\ \/ /\ wire.up = "whole" /\ AddBoard
        /\ wire' = [wire EXCEPT !.conn = "served", !.down = PortLen, !.port = lastPort', !.shut = TRUE]
     \/ /\ entry' = "accept" /\ wire' = [wire EXCEPT !.conn = "served", !.shut = TRUE]
        /\ UNCHANGED <<table, lastPort>>
     \/ Quit
  /\ UNCHANGED <<pc, test, sock, shakeVars, ghost, driftVars, clock, boots, history>>

\* The board has closed without a word.
HearEnd ==
  /\ entry = "recv" /\ wire.up = "none" /\ pc \notin {"send", "recv"}
  /\ entry' = "accept" /\ wire' = [wire EXCEPT !.conn = "served", !.shut = TRUE]
  /\ UNCHANGED <<pc, test, sock, shakeVars, ghost, table, lastPort, driftVars, clock, boots, history>>

\* The same for a connection of the time before a restart.  A silent one blocks the loop.
AcceptGhost ==
  /\ entry = "accept" /\ ghost # "none" /\ entry' = "ghost"
  /\ UNCHANGED <<pc, test, sock, shakeVars, wire, ghost, table, lastPort, driftVars, clock, boots, history>>

HearGhost ==
  /\ entry = "ghost" /\ ghost # "silent" /\ ghost' = "none"
  /\ \/ ghost = "whole" /\ AddBoard /\ UNCHANGED wire
     \/ entry' = "accept" /\ UNCHANGED <<wire, table, lastPort>>
     \/ ghost # "ended" /\ Quit
  /\ UNCHANGED <<pc, test, sock, shakeVars, driftVars, clock, boots, history>>

\* Another board is registered.
OtherBoard ==
  /\ entry = "accept" /\ lastPort < MaxPort
  /\ lastPort' = lastPort + 1 /\ table' = [table EXCEPT !.others = @ + 1]
  /\ entry' = Looping(table')
  /\ UNCHANGED <<pc, test, sock, shakeVars, wire, ghost, driftVars, clock, boots, history>>

\* The user stops the laptop's program.
Stop ==
  /\ entry # "left" /\ Quit
  /\ UNCHANGED <<pc, test, sock, shakeVars, ghost, driftVars, clock, boots, history>>

-----------------------------------------------------------------------------
(* The tests. *)

\* The socket of a test is opened.
OpenTest(t, next) ==
  /\ test = t /\ GoTo("testOpen", next) /\ sock' = "open"
  /\ history' = [history EXCEPT !.closeFailed = FALSE]
  /\ UNCHANGED <<test, shakeVars, wire, serverVars, driftVars, clock, boots>>

\* A test gives up before it has a socket, or after it has closed it.
GiveUp(t, left) ==
  /\ test = t /\ GoTo("testOpen", "done") /\ sock' \in left
  /\ history' = [history EXCEPT !.closeFailed = FALSE]
  /\ UNCHANGED <<test, shakeVars, wire, serverVars, driftVars, clock, boots>>

OpenDrift   == OpenTest("drift", "testConnect") \/ GiveUp("drift", {"none"})
OpenForever == OpenTest("forever", "testConnect") \/ GiveUp("forever", {"none"})

\* Filters, policy, raw socket, and an option whose failure closes the socket.
OpenL2 == OpenTest("l2", "l2") \/ GiveUp("l2", {"none", "closed"})

\* A datagram socket, and a bind whose failure closes it.
OpenL3 == OpenTest("l3", "l3") \/ GiveUp("l3", {"none", "closed"})

\* A thread listens on every port that was given out; the clock is read once.
ConnectTest ==
  /\ \/ /\ GoTo("testConnect", test) /\ entry # "left" /\ port \in 1..lastPort
        /\ sock' = "connected" /\ lastTime' = clock
     \/ GoTo("testConnect", "done") /\ sock' = "closed" /\ UNCHANGED lastTime
  /\ UNCHANGED <<test, shakeVars, wire, serverVars, counting, answer, eagain, clock, boots, history>>

SendsAnswer == pc' \in {"drift", "testClose"}

\* Mutant: start_counting does not read the clock.
StartCountingOnly ==
  /\ pc = "drift" /\ SendsAnswer
  /\ counting' = TRUE /\ history' = [history EXCEPT !.start = clock]
  /\ UNCHANGED <<test, sock, shakeVars, wire, serverVars, lastTime, answer, eagain, clock, boots>>

StartCounting ==
  /\ pc = "drift" /\ SendsAnswer
  /\ lastTime' = clock /\ counting' = TRUE
  /\ history' = [history EXCEPT !.start = clock]
  /\ UNCHANGED <<test, sock, shakeVars, wire, serverVars, answer, eagain, clock, boots>>

\* Both differences are uint32_t; the nanoseconds of now may be the smaller ones.
GetTime ==
  /\ pc = "drift" /\ SendsAnswer /\ counting
  /\ answer' = << (clock \div NsPerSec - lastTime \div NsPerSec) % Word,
                  ((clock % NsPerSec) - (lastTime % NsPerSec)) % Word >>
  /\ history' = [history EXCEPT !.elapsed = clock - history.start]
  /\ UNCHANGED <<test, sock, shakeVars, wire, serverVars, counting, lastTime, eagain, clock, boots>>

\* Any other text, get_time before start_counting too, is answered; an error of sl_Recv
\* ends the loop, the end of the stream does not.
OtherText ==
  /\ pc = "drift" /\ SendsAnswer
  /\ UNCHANGED <<test, sock, shakeVars, wire, serverVars, driftVars, clock, boots, history>>

\* A loop that goes on until a call of it fails.
Loop(t) ==
  /\ pc = t /\ pc' \in {t, "testClose"}
  /\ UNCHANGED <<test, sock, shakeVars, wire, serverVars, driftVars, clock, boots, history>>

StreamReadings == Loop("forever")
HearBroadcasts == Loop("l3")

\* time_drift_test_l2 has no way out: its break only leaves the channels.  When a channel
\* cannot be set it looks at the numBytes of an earlier round.
ListenL2 ==
  /\ pc = "l2"
  /\ eagain' \in BOOLEAN
  /\ UNCHANGED <<pc, test, sock, shakeVars, wire, serverVars, counting, lastTime, answer, clock, boots, history>>

CloseTest ==
  /\ GoTo("testClose", "done")
  /\ \/ sock' = "closed" /\ UNCHANGED history
     \/ history' = [history EXCEPT !.closeFailed = TRUE] /\ UNCHANGED sock
  /\ UNCHANGED <<test, shakeVars, wire, serverVars, driftVars, clock, boots>>

Tick ==
  /\ clock < MaxClock /\ clock' = clock + 1
  /\ UNCHANGED <<pc, test, sock, shakeVars, wire, serverVars, driftVars, boots, history>>

-----------------------------------------------------------------------------

\* What the laptop has of a connection whose board is switched off: nothing tells it.
Remains ==
  CASE wire.conn \notin {"pending", "accepted"}            -> "none"
    [] wire.up # "none"                                    -> wire.up
    [] wire.up = "none" /\ pc \in {"send", "recv"}         -> "silent"
    [] OTHER                                               -> "ended"

\* The board is switched off and on.
Restart ==
  /\ boots < Restarts /\ boots' = boots + 1 /\ ghost = "none"
  /\ pc' = "open" /\ sock' = "none"
  /\ tries' = 0 /\ sent' = 0 /\ rcvd' = 0 /\ text' = <<>> /\ port' = NoPort
  /\ counting' = FALSE /\ lastTime' = 0 /\ answer' = <<>> /\ eagain' \in BOOLEAN
  /\ clock' = 0 /\ history' = Blank
  /\ wire' = Quiet
  /\ ghost' = Remains
  /\ entry' = IF entry = "recv" THEN "ghost" ELSE entry
  /\ UNCHANGED <<test, table, lastPort>>

Handshake == OpenEntry \/ ConnectEntry \/ SendText \/ RecvPort \/ RecvEnd \/ ParsePort \/ CloseEntry
Laptop    == Accept \/ Hear \/ HearEnd \/ AcceptGhost \/ HearGhost
Test      == OpenDrift \/ OpenForever \/ OpenL2 \/ OpenL3 \/ ConnectTest \/ StartCounting \/ GetTime
               \/ OtherText \/ StreamReadings \/ HearBroadcasts \/ ListenL2 \/ CloseTest

Next == Handshake \/ BreakEntry \/ Laptop \/ OtherBoard \/ Stop \/ Test \/ Tick \/ Restart

Spec == Init /\ [][Next]_vars

\* A call that the processor can answer is answered, and the laptop's program runs.  The
\* user, other boards, errors and restarts come when they like.
FairSpec == Spec /\ WF_vars(Handshake) /\ WF_vars(Laptop)

-----------------------------------------------------------------------------
(* Properties. *)

\* Every variable keeps its type: no more tries than allowed, no byte received that was
\* not sent, a port of two bytes.
TypeOK ==
  /\ pc \in ShakePoints \union TestPoints /\ test \in Tests
  /\ sock \in {"none", "open", "connected", "closed"}
  /\ tries \in 0..MaxTries /\ sent \in 0..(2 * MsgLen) /\ rcvd \in 0..PortLen
  /\ text = <<>> \/ text \in (1..PortLen) \X (1..PortLen)
  /\ port \in AnyPort
  /\ wire \in [conn : {"none", "pending", "accepted", "served"}, up : {"none", "part", "whole"},
               down : 0..PortLen, port : 0..MaxPort, shut : BOOLEAN]
  /\ entry \in {"accept", "recv", "ghost", "idle", "left"}
  /\ ghost \in {"none", "silent", "ended", "part", "whole"}
  /\ table \in [mine : 0..MaxPort, others : 0..BoardCount] /\ BoardsOf(table) <= BoardCount
  /\ lastPort \in 0..MaxPort
  /\ counting \in BOOLEAN /\ lastTime \in 0..MaxClock /\ clock \in 0..MaxClock
  /\ answer = <<>> \/ answer \in (0..(Word - 1)) \X (0..(Word - 1))
  /\ eagain \in BOOLEAN /\ boots \in 0..Restarts
  /\ history \in [clean : BOOLEAN, closeFailed : BOOLEAN, start : 0..MaxClock, elapsed : 0..MaxClock]

\* A port that came whole, in one segment with a zero behind it, is the port on which the
\* laptop has a thread for this very board, and no other one: not that of a board that
\* was registered meanwhile, not that of the time before a restart.
PortAgreed == history.clean /\ pc \notin ShakePoints => port = table.mine /\ port # 0

\* Nothing is sent, received or closed at the end on a descriptor that is not open: a
\* stream has been connected, by whichever try, and what broke it ended its use.
UsesOpen ==
  /\ pc \in {"send", "recv", "parse", "close", "drift", "forever"} => sock = "connected"
  /\ pc \in {"l2", "l3"} => sock = "open"
  /\ pc = "testClose" => sock \in {"open", "connected"}

\* A function that has returned leaves no socket open, on any of its paths, unless the
\* close itself failed.
SocketsClosed ==
  pc \in {"testOpen", "done"} => sock \in {"none", "closed"} \/ history.closeFailed

\* Between its sl_Connect and the return a function has its descriptor, and after the
\* return no one has.  sl_Connect itself is not meant: the retry of line 253 is given
\* the descriptor that line 263 has closed, and so can only fail.
DescriptorsSound == UsesOpen /\ SocketsClosed

\* Seconds and nanoseconds of an answer together, modulo 2^32, are the time since the last
\* start_counting, also when the nanoseconds have wrapped below zero.
ElapsedExact ==
  answer # <<>> => (answer[1] * NsPerSec + answer[2]) % Word = history.elapsed % Word

\* get_port_for_data_tx waits for ever only for a laptop that has all its boards and
\* accepts no more, or whose loop is held by the connection of a board switched off.
HandshakeReturns ==
  <>[](pc = "recv") =>
    <>[](wire.conn = "pending" /\ (entry = "idle" \/ (entry = "ghost" /\ ghost = "silent")))
=============================================================================
