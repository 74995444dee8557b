# A TLA+ verification of the time-synchronised sensor boards

The repository (`src/`) is a senior design project. Two CC3220SF boards, one on
the wrist with an accelerometer and one at the base with a load cell, record
readings by their own clocks. So that a laptop can put the readings on one time
axis, each board also listens to the beacons of the laptop's access point and
records pairs of *beacon timestamp* and *local time*. From time to time it leaves
its listening mode, connects to the access point, uploads what it has over TCP,
disconnects and listens again. The laptop accepts uploads, stores and plots them;
an older test has the laptop send messages to all boards at once and collect
their answers. The board's program is built into TI's *network terminal*, a
command line for the Wi-Fi device, most of whose code is still there.

This directory holds TLA+ modules translated from that code, TLC configurations
that check them on small instances, and proofs checked by TLAPS.

    tlc -config BeaconSync_radio.cfg BeaconSync       # a run
    tlapm BeaconSyncProofs.tla                        # a proof

`PROJECT.json` maps every definition to the lines it stands for, and lists the
runs, the mutants, the findings, the hazards and the theorems.

Short names: `ap` is `ccs_workspace/network_terminal_CC3220SF_LAUNCHXL_tirtos_ccs/ap_connection.c`,
`nt` is `network_terminal.c`; `wlan_cmd.c`, `netapp_cmd.c`, `socket_cmd.c`, `cmd_parser.c`,
`transceiver_cmd.c`, `radio_tool.c`, `str.c` and `queue.c` are in the same directory;
`server.py` and the other Python files are in `board_communication/`.

## 1. Inventory

### Concurrency on the board

`mainThread` (nt) initialises `app_CB`, starts the network processor (NWP) and
calls `test_time_beac_sync`; everything else it could call, the other programs of `ap` and
`cmd_prompt` of the terminal, is commented out at this commit. The
SimpleLink driver has a second thread, the *spawn thread*, which runs the event
handlers of nt. The two share `app_CB.Status` (bits) and semaphores. The spawn
thread has the higher priority but blocks in `UART_PRINT` in the middle of a
handler, so the main thread does run between the bit and the semaphore. The
terminal's `p2pstart` creates a third thread. The NWP and the access point are actors
of their own.

### Components

| component | state | operations | interacts with |
|---|---|---|---|
| station connection (ap 41-169, nt 230-560) | status bits, gateway, two semaphores, role | `connectToAP`, `handle_wifi_disconnection`, handlers of CONNECT, DISCONNECT, IPV4_ACQUIRED | NWP by calls and events; called by everything that needs a link |
| beacon synchronisation (ap 824-1051, 1378-1449) | ring of timestamps, index, last beacon, deadline, raw socket, TCP socket | `enter_tranceiver_mode`, the receive loop, upload | station connection; the laptop's ingest over TCP |
| accelerometer recorder (ap 694-822, 1359-1375; queue.c) | queue, last beacon, raw socket, text | poll, store, `q_to_string`; `enque`, `deque`, `qFull`, ... | raw socket, sensor |
| port handshake (ap 172-366) | a TCP socket, the text received | `get_port_for_data_tx` | the entry port of the board server |
| time drift tests (ap 368-692, 1053-1305) | sockets, counters | `transmit_data_forever_test`, `time_drift_test`, `_l2`, `_l3` | the port of the handshake; raw frames |
| board server (server.py, connect_to_board.py) | boards, two events and an exit event, `thread_tasks_done`, one thread per board | register, send to all (UDP, TCP), exit | the port handshake and `time_drift_test` |
| wlan and netapp commands (wlan_cmd.c, netapp_cmd.c, nt) | `app_CB`: bits, role, semaphores, peer; the NWP's settings | connect, disconnect, start and stop an access point, settings with a restart, scan, ping, P2P | NWP, event handlers, the thread `p2pConnect` |
| socket commands (socket_cmd.c) | sockets of the driver | `send`, `recv`: UDP and TCP, client and server | the driver |
| command parser (cmd_parser.c, texts of str.c) | parameters, heap blocks | one parser per command, one `Free...Cmd` | every command |
| transceiver (transceiver_cmd.c, radio_tool.c) | NWP role and policy, raw socket, statistics | open, receive, transmit, close | NWP by raw sockets |
| beacon parsing (ap 1307-1357) | none | `parse_beacon_frame` | the two recorders |
| laptop ingest (test_local_clocks.py, system_integration.py, test_local_time.py, test_time_beac_sync.py) | files of readings | accept, receive, parse, store | beacon synchronisation |
| time axis (parse_and_plot.py) | none | `transform_axis`, `plot_tcp_data` | ingest |
| SPI master (spimaster.c), ADC sampling (adcsinglechannel.c) | semaphore, buffers; three channels | TI's examples | an SPI slave, a sensor |
| support (uart_term.c, main_tirtos.c, bma2x2_support.c), access point scripts, utilities, data, hardware, web site | | I/O | |

### What is hard, and what makes each part correct

* **Station connection.** Bits, queued events, semaphores and the link are four
  views of one thing and are changed by three actors. Correct means: the bits
  converge to the link; an address is never believed without a connection and a
  gateway; 0 is returned only for a link that exists or whose loss is queued;
  `connectToAP` returns; a wait waits for the right event; the wait for a
  disconnection ends.
* **Beacon synchronisation.** The radio has two exclusive uses; every call of an
  upload may fail, the access point may drop the station during it, the beacon
  timer may restart. Correct means: raw socket and link exclude each other; the
  text is the sliding window of the last readings in order; a beacon is stored
  once; deadlines come; uploads end; "done sending" means sent.
* **Accelerometer recorder.** A ring that is full for ever. Correct means: the
  text is always the last readings, without a gap.
* **Port handshake and tests.** Two programs with partial sends, segments, retries and
  restarts between them. Correct means: the port used is the one the laptop has given
  this board; what is sent and received goes over an open descriptor, and none is left open;
  neither side waits for ever without a cause; elapsed times survive their wraps.
* **Board server.** A barrier from two events and an unlocked counter, threads
  that die by exceptions, boards that register twice. Correct means: a round ends
  when all boards have answered this message, and is stuck only for a board that does not
  come or answer, a lost thread or a lost count; `exit` returns once the boards have connected.
* **Terminal commands.** A long session of commands that fail half-way, over state
  (`app_CB`) that handlers change at any time and later commands trust. Correct means:
  role and bits agree with the device where they are relied on; what waits is woken.
* **Socket commands.** Partial transfers, non-blocking trials and early returns.
  Correct means: sockets are given back, a sender that succeeds has sent what was asked for, and a
  receiver whose packets are lost ends.
* **Parser.** Options in any order, repeated, without arguments, with numbers that do not
  fit. Correct means: what is accepted is complete and in range, and what is allocated
  is freed. (The code falls short of the range for several parameters; section 3 lists them.)
* **Transceiver.** Prompts far away from the calls they guard, tasks that fail half-way.
  Correct means: the radio gets parameters it has, and is left as the next task needs it.
* **Parsing, ingest, time axis.** Pure functions over data that arrives in
  pieces, with arithmetic at its limits.

The list `hazards` of PROJECT.json names the forty most serious of these dangers line by line.

## 2. Modules

    ApConnect        station connection, NWP and access point
      BeaconSync     EXTENDS ApConnect: the whole program of the board
        SyncRecorder        abstract: a sliding window with deadlines
        BeaconSyncProofs    about ApConnect, then about BeaconSync
    TxAccelerometer  accelerometer recorder on the ring of queue.c
      RecentReadings        abstract: the readings made last
      TxAccelerometerProofs
    DataLink         port handshake, the laptop's entry loop, the four tests
      DataLinkProofs
    BoardServer      the laptop's server and its threads
      MessageRounds         abstract: messages, each answered by every board
      BoardServerProofs
    WlanTerminal     the terminal's Wi-Fi commands, handlers and P2P thread
      WlanTerminalProofs
    SocketCmd        the commands send and recv
      SocketCmdProofs
    CmdParser        every parser of a command line
      CmdParserProofs
    Transceiver      the transceiver's menu and the radio tool
      TransceiverProofs

A module has one action per step that another actor can come between; where nothing
runs concurrently (CmdParser, Transceiver, SocketCmd) one action per call that may fail
or per word that is read.

### ApConnect

One action per step of `connectToAP` that another actor can come between, with
`pc` for the main thread: `CheckRole` (lines 62-75), `Join` (82-87),
`CheckConnected` (97), `WaitConnect` / `WaitConnectTimeout` (99-101), `CopyStatus`
(the by-value argument at 105), `HangUp` (155), `Drain` (159), `CheckIp` (110),
`WaitIp4` (112). Handlers are two actions where the code posts a semaphore at their
end (`HandleConnect`, `PostConnect`; `HandleIp4Acquired`, `PostIp4`) and one where it
does not (`HandleDisconnect`). `connected` and `ipAcquired` are the two status bits.
`HandleDisconnect` is one action although it clears the bits one after the other:
no UART output and no blocking call separates them, and the main thread has the
lower priority.

External, modelled from how the code uses it: the NWP (`link`, `events`) associates,
leases and raises its events in that order; `sl_WlanConnect` on a station that has a
link has no effect; `sl_WlanDisconnect` fails when there is nothing to leave; the
access point may drop the station `MaxDrops` times.

`role` may be anything at the start, since nt 1539-1610 and the NWP's stored mode
decide it.

### BeaconSync

Extends ApConnect with the caller. Listening: `Enter`, `ReceiveBeacon(ts)` (one whole
iteration: store, first deadline, comparison), `ReceiveError`, `CloseAfterLoop`.
Uploading: `CloseRf`, then `pc = "checkRole"` is the call of `connectToAP`, whose
steps are taken from ApConnect with the caller's variables unchanged
(`Connecting`), then `OpenTcp`, `ConnectTcp`, `Send(n)` / `SendError`, `CloseTcp`, `LeaveAp`,
`Reenter`. Each ASSERT_ON_ERROR is an alternative that ends in `"stopped"`.

A slot of the ring stands for a pair of beacon timestamp and local time and keeps
the first. `Unset` is a slot that was never written: the array is on the stack and
uninitialised, which the laptop's parser knows (it skips 3200171710, the kernel's
fill pattern 0xBEBEBEBE). `stream` is what the server has received.

`SyncRecorder` is what that program promises to a reader of the uploads: a window
that slides, a first deadline at the next multiple of the interval, later ones one
interval further. `BeaconSync` implements it under `mode <- Mode, window <- Ring,
due <- sendTs`.

### TxAccelerometer

The ring of queue.c as a record of its four fields, `Enque` and `Deque` as functions
that leave the queue alone when the code returns -1, and the loop of
`tx_accelerometer`: `Beacon` / `NoBeacon` / `PollError`, `Store`. `RecentReadings` is the
abstract program. A reading keeps the beacon timestamp and the local clock;
nothing depends on the axes. The function is called by nobody at this commit
(nt has the call commented out) but is the board's recorder of sensor data.

### BoardServer

`main` is where the main thread is; `send_msg_to_all_boards_udp` and `_tcp` differ in the
variable `udp`, chosen at the start and never changed (connect_to_board.py uses UDP): with TCP an
answer ends its thread on an unassigned local. Every access to an event, the counter or the globals is an action of
its own; `Wake` is `threading.Event.set`, which releases the threads that are blocked
even if the flag is cleared before they run. `ReadCount` and `WriteCount` are the two
halves of `thread_tasks_done += 1`. An exception in a thread is the state `"ended"`.
`Register` is one call at the entry port that passes its checks; other calls change
nothing. The broadcast socket of the threads is never bound, so with the real
network its `recvfrom` can only time out or fail; the model allows the answer too, as
the code means it.

`MessageRounds` is what the server promises to whoever types messages: a message opens a round,
each member is asked for its answer and not again once it has given it, the round closes when all have
answered and nobody is being asked, and only then can the next message be sent. `BoardServer` implements
it with `open` for `main` between the message and the end of the poll, `members` for the threads
started, `asked` for those at the answer and `replied` for `answered`: the flags, the counter with its lost
increments and the late threads are stutters.

### DataLink

The board (`Handshake`, `Test`) and the laptop's entry loop (`Laptop`) with the connection
between them: `wire.up` is what the laptop can read (nothing, a part of the text, the
whole), `wire.down` the digits of the port still to be read. `SendText` gives every
`sl_Send` the text from its start, as lines 293-309 do, so that after a partial send
the laptop reads something else. `RecvPort` takes any part of the port and overwrites the
one before; `ParsePort` is `atoi` of what is then in the uninitialised buffer: the port when
it came in one segment and a zero happens to follow (`history.clean`), else any number.
`ConnectEntry` closes the socket after a failure and retries with the descriptor it has
closed. `Hear` is one `recv` on the laptop: the whole text registers the board (`AddBoard`),
others are ignored or end the program by an exception.

`Restart` switches the board off and on. Its connection stays with the laptop (`ghost`): the
loop may block on it for ever, or register the board by it once more. `OtherBoard` and
`Stop` are the rest of the laptop.

Of the tests, `time_drift_test` is modelled with its arithmetic (`GetTime`: two `uint32_t`
differences), the others by their sockets and loops; `time_drift_test_l2` has no way out of its
loop, as in the code.

DataLink and BoardServer are two views of `server.py`: DataLink its entry loop before the
rounds, byte by byte; BoardServer the rounds after it, in which a registration is one step.
The port of one is the thread number of the other.

### WlanTerminal

The thread of `cmd_prompt` runs commands one after the other; `at` is its point, `prompt`
between commands. `nwp` is the device: the role it runs in, the mode it will start in, its
link and whether it pings. `Restarts` gives the three outcomes of `sl_Stop` followed by
`sl_Start`; `sl_Stop` takes the link without an event. The handlers (`Handle`) write the bits
and may post one semaphore later, like in ApConnect, for all events of nt 230-760 that change
what somebody reads. `SET_STATUS_BIT` and `CLR_STATUS_BIT` outside the handlers are a read and
a write (`copy`): `lost` remembers that an old copy was written back. The thread `p2pConnect`
waits for its semaphores one after the other and can be cancelled at any of them.

`Configure` is the restart that puts a setting into effect (antenna, coexistence, country code): it can
fail in the middle like any other restart, and the value of the setting, which nothing reads back, is left out.

Left out, because they write a setting of the NWP, read nothing back and share no state:
policies, filters, WoWLAN, roaming, AP transition, profiles, connected stations, mDNS. Their
lines are parsed in CmdParser. `Refuse` stands for every command that fails before its
first effect.

### SocketCmd

`cmd` holds the four flags a line can set; `at` the point in the function they select. `i`
counts packets, or for a stream the bytes, in units of a partial transfer. `Fails(left)` is a
`return(-1)` with the sockets that path has not closed, which are `leaked` for the rest of
the session: the driver has `MaxSockets`. A non-blocking call that finds nothing to do
changes nothing and is a stuttering step; a receiver counts them.

### CmdParser

A line is read word by word: `Syntax` has the options of each command, with classes of
arguments chosen at the limits of the types they are stored in (256 above a good value,
one more than the longest text), `Take` what each option does to the parameters and `Check...` the
tests after the loop with the blocks they have allocated. A missing argument ends the line; in
the middle of one the next option is taken for it, which is the other arguments' class.
`Freed` is what the command's callback gives back.

### Transceiver

Every prompt is an action that takes one of the `Typed` numbers through the conversions of
the code (`Uint`, `Int8`), keeps the default, or refuses. Every call of `radio_tool.c` may fail,
and the paths after it are those of the code: only frames need the socket of `TxSocket`
(radio_tool.c 254-320), a carrier opens its one socket in `TxCw` (379) and ignores whether that
succeeds; `TxContinues` may return without `radioTool_TxStop`; `TxReady` sleeps before the start.
`OpenStart` to `OpenRestart` and `CloseStop` to `CloseStart` are entering and leaving the tool, and
`OpenAgain` an entry that finds an NWP running without its status bit. `before` and `fault` (calls of
the tool, of the task, and its `sl_Close`, that have failed) are what the properties compare with.

## 3. Runs

| run | shows |
|---|---|
| `BeaconSync_radio` | the whole program with two drops, failing calls, racing timeouts and a beacon timer that wraps or restarts: `LinkStatus`, `RadioExclusive`, `ReadingsDistinct`, `SuccessMeansLeased` |
| `BeaconSync_live` | ring of three, timer going forward over several uploads, a drop: `RingInOrder`, the refinement of `SyncRecorder` (`RecordsWindow`), `UploadEnds` |
| `TxAccelerometer_queue` | queue of three, seven readings: `LastReadings`, the refinement of `RecentReadings` (`RecordsRecent`) |
| `DataLink_handshake` | two boards, one retry, one restart, partial sends and segments: `PortAgreed`, `DescriptorsSound`, `ElapsedExact`, `HandshakeReturns` |
| `BoardServer_rounds` | three boards and threads, three messages, UDP and TCP, silent boards and boards that never connect: `RoundSound`, the refinement of `MessageRounds` (`ServesRounds`), `ExitReturns`, `RoundStuckForCause` |
| `WlanTerminal_commands` | any three commands in a row: `RoleSound`, `BitFollowsLink`, `PingMarked`, `PingReturns` |
| `SocketCmd_commands` | any commands, two packets, three sockets: `OkClosesAll`, `SendsExactly` (not of the TCP client), `ReceiveEnds` |
| `CmdParser_lines` | lines of up to three options: `AcceptedInRange`, `AcceptedComplete`, `OnlyPingLeaks` |
| `Transceiver_menu` | tasks in a row, two sockets, numbers that wrap: `RadioParametersInRange`, `RadioSound`, `ReceivesForPeriod`, `TaskReturns` |

Each run also checks the type invariant of its module, but `BeaconSync_live`, whose module
`BeaconSync_radio` checks. A property of several parts is a conjunction of named ones:
`LinkStatus` of `EventsTrackLink`, `StatusConverges` and `IpImpliesConnected`; `RingInOrder` of
`WindowIncreasing` and `DeadlineNear`; `DescriptorsSound` of `UsesOpen` and `SocketsClosed`; `RoleSound` of
`StationIsStation` and `PeerThreadInRole`; `AcceptedComplete` of `ProtectedHasKey` and
`ClientHasAddress`; `RoundSound` of `RoundComplete` and `GlobalsStable`; `RadioSound` of
`RestoresRadio`, `ToolReady` and `BitTellsRole`.

Violations, each a disagreement of the code with one of its own comments or
messages (quoted in `findings`):

| run | finding |
|---|---|
| `ApConnect_hang` | the wait for the disconnection loops on a copy of the status (ap 159) |
| `ApConnect_stale` | a semaphore posted for an earlier connection satisfies a wait (ap 99) |
| `BeaconSync_counted` | after a partial send the start of the text is sent again (ap 992) |

Seen in the models, without a run of their own:

* a failed send also ends in "done sending" (ap 993);
* after a wrap or a restart of the timer, the deadline in milliseconds leaves the range of the
  timestamp in microseconds it is compared with, and no upload follows (ap 1021);
* a round of `server.py` never ends when a thread has died (of a timeout, or over TCP of an
  unassigned local with every answer, line 297), when one waits for its board without a timeout
  (`accept`, 276, and over TCP `recv`, 287), when one reaches `end_flag.wait()` too late (304) and when an
  increment is lost (300). `RoundStuckForCause` says that in the model, under its fairness, one of these
  is behind every round that never ends. A board that never connects also blocks the join of `exit`;
* the thread of a board that registers twice is never joined (server.py 118); it still counts itself, so that
  a round may end without the answer of another board;
* the retries of `get_port_for_data_tx` can never succeed: `sl_Connect` (ap 253) is given the
  descriptor that line 263 has closed, against "retrying..." (261) and "after %i retries" (268-275).
  No property asks for the contrary, and `UsesOpen` excludes that one call by name;
* a board switched off during its handshake holds the entry loop for ever (server.py 74);
* `p2pstart` notices a peer only after the next line of the user (wlan_cmd.c 1648, against the
  comment at 1631), and `p2pstop` leaves `app_CB.Role` at P2P (1882, against 1828);
* a ping between peers is not woken when they part (nt 450); a post of an earlier ping, or one made
  for a name that did not resolve (netapp_cmd.c 109), ends a ping early;
* an old copy of `Status` written back (wlan_cmd.c 1788, and each `SET_STATUS_BIT` outside the
  handlers) loses or brings back a connection bit: `BitFollowsLink` says nothing after it (`lost`);
* the TCP client of `send` takes no notice of `-n` (one message, socket_cmd.c 1530-1548, against the
  comment at 1321 and the usage of str.c 200), and after a partial `sl_Send` it sends the start of its
  message again (1548); `SendsExactly` leaves it out;
* `send` and `recv` leave sockets open on the paths that give up (socket_cmd.c 1137, 1273, and a close
  that fails): `OkClosesAll` is about success;
* parameters that `AcceptedInRange` leaves out: `-c 6 -c 200` starts an access point on channel 200
  (cmd_parser.c 1010-1019) and `-c 13` is refused (1004), both against the usage of str.c 132; a key of
  an access point may have seven characters (1099, against its own message "[8,63]" at 1104); the
  threshold of `setpolicy -r` and the packets of `recv -n` are not checked (260, 2838);
* networks that `ProtectedHasKey` leaves out: `-ent` makes a network an enterprise one after the key has
  been checked against the type named by `-t` (746 and 732; 476 for a profile), so that without `-t` it is
  taken with no key, and a key that is too long is dropped; `wlan_ap_start -t WPA/WPA2` and `-t WEP` are
  taken without `-p` (1095-1119). A WPS push button, provided for at 696, is always refused for want of a
  key (732);
* a carrier or a burst sleeps for its period before it is started (transceiver_cmd.c 871, 888,
  against the messages 869 and 886);
* an amount and a delay of 0 are taken (transceiver_cmd.c 638, 663), against the prompts' [1,%d] (621, 647);
* a period whose microseconds do not fit 32 bits is cut, and of a longer one than a second the
  milliseconds are dropped, although the prompt asks for [1,UINT32_MAX] milliseconds (259):
  `ReceivesForPeriod` excludes the first and allows the second;
* the result of `radioTool_Open` is ignored, against the comment on the call (transceiver_cmd.c 94-96),
  and after a regular leave, which starts the NWP without setting its bit (137), the next entry always
  fails: `ToolReady` is about the entries that succeeded.

### Bounds

* `SemMax`: semaphores are counted up to 1 or 2; `SEM_VALUE_MAX` is larger, but the
  code waits for one post at a time and the races need at most one stale post.
* `EventMax` 1-3: undelivered events. Three hold a whole CONNECT, IPV4_ACQUIRED,
  DISCONNECT, the longest sequence without a new join by the main thread.
* `MaxDrops` 0-2: one drop during each of two attempts.
* `NumReadings` 2-3 (300 in the code), `SendInterval`, `TsPerMs`, `TsMod`: small
  numbers with the same relations; `TsMod` spans several intervals, so that there are
  several uploads and a ring that wraps in each position.
* `Capacity` 3, as in queue.h, with `MaxClock` 7: the ring wraps more than twice.
* `Boards`, `MaxThreads` 3, `MaxSends` 3: two increments can overlap while a third thread is
  late, and three messages let a thread be two rounds behind.
* `MsgLen`, `PortLen` 2: a first and a last part; `MaxTries` 1: one retry; `MaxPort` 3 with
  `BindRetries` 2: a port that is skipped; `BoardCount` 2: another board may take the last place;
  `Restarts` 1. `Word` 5 and `NsPerSec` 2 with `MaxClock` 5 let seconds and nanoseconds wrap.
* `MaxCommands` 3: a command that fails half-way, one that relies on what it left, and one after.
* `NumPackets` 2 of `BufLen` 2, `MsgLen` and `RcvLen` 3, `MaxSegment` 4: partial sends that end inside
  the last buffer, a segment that is longer than what is asked for. `MaxSockets` 3: two sockets of a
  command and a leaked one.
* `MaxOptions` 3: an option, its repetition, and one that depends on it.
* `Typed` 0, 5, 36, 231 with `UintRange` 770: no value, a good one on each band, one negative as
  an `int8_t`; the product of `MSEC_SLEEP` wraps for 231. `MaxSockets` 2: one socket of a task, and one that an
  earlier task has left.
* No symmetry is used: the state spaces are small.

The proofs hold for every value of these constants.

### Deadlock

TLC checks for deadlock in every run but two: in `DataLink_handshake` the board's program ends and the
laptop's waits for a board that does not come; in `WlanTerminal_commands` the terminal stops
after `MaxCommands` lines or gives up at its start.

### Fairness

Only the liveness properties use it. BeaconSync's `FairSpec`: the main and
the spawn thread are scheduled (an RTOS with two ready threads runs both, since the
higher one blocks), each call returns, and the NWP goes on with an association or
a lease that it has begun. Nothing forces a beacon, a drop or a failure. `UploadEnds`
also takes `TimeoutsRace = FALSE`: `WLAN_EVENT_TOUT` is longer than the NWP
takes. Without that, `ApConnect_hang` shows that it is false. `BoardServer` `FairSpec`:
threads are scheduled, and a receive over UDP returns with an answer or with its timeout;
a board need not connect to its port, and over TCP it need not send, since neither call has a timeout. `DataLink` `FairSpec`: a call of the handshake that can be
answered is answered, and the laptop's program runs; other boards, the user, errors and
restarts come when they like. `SocketCmd` `FairSpec`: a UDP call returns, with a packet or with
its timeout, and the driver takes the hello of a non-blocking client in the end (it is repeated without
being counted, socket_cmd.c 923-927). A non-blocking UDP server that sends may wait for its first client for
ever (632), and nothing is claimed of it. `WlanTerminal` `FairSpec`: the threads are scheduled, and the NWP reports a ping
it has been asked for; it need not associate or keep a link. `Transceiver` `FairSpec`: calls of
the driver return and sleeps end. The user need not type anything anywhere.

## 4. Proofs

For every value of the constants that satisfies the named assumptions:

* **BeaconSyncProofs**, about ApConnect: `LinkStatus` and `SuccessMeansLeased`. None of the parts of `LinkStatus` is
  inductive alone: that the bits converge needs to know what each *queued* event will do to
  them. The invariant `ApInv` says that the events still in the queue are the rest of
  the link's history: the last one says where the link is, neighbours fit, the first
  one fits the bits. Each event raised extends that chain at one end, each one
  handled shortens it at the other.
* **BeaconSyncProofs**, about BeaconSync: type correctness of the whole program, `LinkStatus` and
  `SuccessMeansLeased` with the caller around `connectToAP`, `RadioExclusive`, `ReadingsDistinct`,
  `RingInOrder` and the refinement `RecordsWindow`. The invariant `SyncInv`
  adds to `ApInv` what holds at each point of the upload (which sockets are open,
  that the link is down while listening, that the newest slot is the last beacon).
  The refinement needs that a step of `Ring` by a store is `Append(Tail(window), ts)`,
  which is arithmetic modulo `NumReadings`. `RingInOrder` has an invariant of its own: while the timer
  goes forward no slot is newer than the last beacon, so a store at the end of the window
  keeps it increasing; and a deadline that was passed moves by whole intervals to one that is at most one
  ahead, which is arithmetic with `\div` and `%`.
* **TxAccelerometerProofs**: `TypeOK`, `LastReadings` and the refinement of `RecentReadings`.
  `TypeOK` needs that the slots in use hold readings; that needs `back = front + size - 1`
  around the ring and that the slots from the front hold consecutive clocks.
* **DataLinkProofs**: `TypeOK`, `PortAgreed`, `DescriptorsSound` and `ElapsedExact`. The invariant `LinkInv` has
  four parts besides the types: what the laptop's loop is doing fits the connection it holds
  (`ServerInv`); the digits under way are those of the port in the laptop's table, for as long as this
  board can read them (`PortInv`); the descriptor at each point (`SockInv`, with the number of tries); and the clock
  readings that the counters were taken from (`DriftInv`). `PortAgreed` is about the last byte of a handshake
  and `PortInv` carries the agreement from the step of `AddBoard` to it, across restarts and other boards. `ElapsedExact`
  rests on lemmas about quotients and remainders: the two differences, each modulo `Word`, have a sum
  congruent to the difference of the clocks.
* **SocketCmdProofs**: `TypeOK`, `OkClosesAll` and `SendsExactly`. `SocketInv` says which sockets a
  command has open at each point (`Owned`), which command can be there (`Placed`) and
  what its counter stands for (`Counted`); `SendsExactly` at the return needs the counter's bound at every
  turn of the loop.
* **WlanTerminalProofs**: `TypeOK`, `RoleSound`, `BitFollowsLink` and `PingMarked`, for every number of commands.
  Nine commands restart the device, and `RestartForms` says what they have in common; all other steps leave its role
  alone. `RoleInv` adds to `RoleSound` where `p2pstart` is while its thread runs, so that no other command can be
  under way. `BitFollowsLink` speaks of an empty queue; `LinkInv` says for a longer one that the last event of the link
  in it tells where the link is, and when there is none the bit does. Four lemmas give `LinkInv` after a step that raises
  an event, one that handles it, one that does neither, and any step outside the role STA. `PingMarked` is
  inductive with the types: a handler that clears the bit of a ping is the one that posts next, and between the two
  `spawn` names the semaphore.
* **BoardServerProofs**: `TypeOK`, `RoundComplete` and `GlobalsStable`, for any number of
  boards, threads and messages, over UDP and TCP, with silent boards, under `~Restarts`:
  a board that registers twice leaves a thread that no barrier waits for, so
  the assumption is stated in each theorem. `RoundComplete` is not inductive: it needs that
  `thread_tasks_done` is never ahead of the threads that have counted themselves
  in this round (`Counting`). A lost update only puts the counter further behind,
  so the two-step increment cannot end a round early; when the counter equals the
  number of boards, a cardinality argument gives that all threads are counted.
  `Quiet` says that outside a round a thread in its working part can only be about
  to see `exit_flag`. The refinement `ServesRounds` of `MessageRounds` needs one more fact (`Once`): as long as the
  poll lasts, a thread with an answer is between it and the end of the round, or dead, since `end_flag` stays
  lowered; so a thread that asks has not answered yet. That the counter equals the number of boards gives the
  abstract `Close` its guard, by the same cardinality argument.
* **CmdParserProofs**: `TypeOK`, `AcceptedInRange`, `OnlyPingLeaks` and `AcceptedComplete`, for lines of any
  length. `ParserInv` adds to them that at each point of a line the parameters have the domain of the command's
  defaults (`Shape`), that each stays in the range of the type it is stored in or of the check that follows it
  (`Ranges`), that a client's address was converted before anything is accepted (`ClientInv`), and that every
  block on the heap is one the command's `Free` function knows (`HeapInv`). The last one is
  what `OnlyPingLeaks` rests on: leaked blocks are counted when a line ends, from what is then on the heap.
  Lemmas give the options and defaults of each command from the table `Syntax`, one `Take` per command shows that an option
  keeps the ranges, and one `Check` per command that what passes is in range, as far as `AcceptedInRange` names it, and complete.
* **TransceiverProofs**: `TypeOK`, `RadioParametersInRange`, `RadioSound` and `ReceivesForPeriod`, for every set of typed
  numbers, any width of `unsigned` and any number of sockets. `RadioToolInv` says which task is at which point and
  where its socket is open (`TaskInv`), that a parameter is valid from its prompt on and not only at the
  call that uses it (in `ParType`), what a task, failures included, has done to the radio so far (`Progress`), and
  where the device is at each step of opening and closing the tool (`ReadyInv`). `RestoresRadio`
  compares two states that are a whole task apart, which `Progress` bridges; `BitTellsRole` needs the points between
  a stop of the device and the bit that follows it. `MSEC_SLEEP` is a lemma on `\div` and `%`.

The inductive invariants were checked by TLC first, on the instances of the runs.

Only model-checked: everything temporal beyond `[]` (`UploadEnds`,
`ExitReturns`, `RoundStuckForCause`, `HandshakeReturns`, `PingReturns`, `ReceiveEnds`, `TaskReturns` and the violation of
liveness), since TLAPS does not reason about fairness and ENABLED. Every safety invariant and every refinement that
a passing run checks is also a theorem. The theorems about `BoardServer` assume `~Restarts`: with boards that register
twice `RoundComplete` and the bound of the counter do not hold, since the orphaned thread counts itself as well.

## 5. Not modelled

`PROJECT.json` gives the reason for each component. Of the board: the fields of a
beacon other than its timestamp, the commands of the terminal that only write a setting,
the console, and TI's and Bosch's drivers. Of `server.py`: `send_msg_to_all_boards_mac` (it calls a
module and always raises), `wait_and_plot_incoming_accel_data` and the plot, which share only a
deque. Of the laptop: text processing and floating-point arithmetic without shared state. SPI
and ADC are examples of their own. Boards, web pages, recorded data and generated builds hold no program.

Memory is not modelled: a write past the end of an array (ap 1335, socket_cmd.c 1612, cmd_parser.c 664)
has no effect in the models. Uninitialised values are: `Unset` in BeaconSync, `AnyPort` in DataLink, `eagain`.

## 6. Plan

Done: the board's programs, the server, the handshake, the terminal. Left, in this order:

1. `parse_beacon_frame` against the timer value modulo 2^32: where the five shifted bytes agree with it and where not.
2. What `parse_mcu_msg` and `assemble_data_for_plot` store of an upload that `recv` has cut, against BeaconSync's `stream`.
3. `spimaster.c`: the handshake and the interrupt enabled before its semaphore exists.
4. What still holds of `BoardServer` when boards register twice, and its proof without `~Restarts`.
