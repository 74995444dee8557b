---------------------------- MODULE Transceiver ----------------------------
(***************************************************************************)
(* The command transceiver: the menu of transceiver_cmd.c with its tasks   *)
(* RxTask and TxTask, and the calls of radio_tool.c they make.  The tool   *)
(* restarts the network processor (NWP) as a station that joins nothing,   *)
(* asks for parameters line by line, and receives or transmits raw frames  *)
(* or a carrier (CW) through one raw socket.                               *)
(*                                                                         *)
(* External: the NWP and its driver.  A call may fail; a started NWP does  *)
(* not start again; stopping it closes its sockets.                        *)
(***************************************************************************)
EXTENDS Integers

CONSTANTS
  Roles,           (* what the NWP may be when the tool is first entered     *)
  Typed,           (* the numbers a user types                               *)
  UintRange,       (* 2^32                                                   *)
  UsPerMs,         (* 1000: microseconds                                     *)
  MsPerSec,        (* 1000: milliseconds                                     *)
  MAX_AMOUNT, MAX_DELAY, MIN_FRAME_SIZE, MAX_FRAME_SIZE,
  DefaultAmount, DefaultDuration,  (* what is used when none is typed        *)
  MaxSockets       (* SL_MAX_SOCKETS                                         *)

ASSUME TransceiverAssumption ==
  /\ "STA" \in Roles /\ Typed \subseteq Int
  /\ {UintRange, UsPerMs, MsPerSec, MAX_AMOUNT, MAX_DELAY, MIN_FRAME_SIZE,
      MAX_FRAME_SIZE, MaxSockets} \subseteq Nat \ {0}
  /\ MIN_FRAME_SIZE <= MAX_FRAME_SIZE /\ DefaultAmount \in 0..MAX_AMOUNT
  /\ DefaultDuration \in 1..(UintRange - 1)

VARIABLES
  at,              (* the prompt shown, or the call about to be made         *)
  task,            (* what the task is: "rx" or the transmission's TxMode    *)
  par,             (* what was typed, or its default                         *)
  i,               (* packets sent                                           *)
  ret,             (* what the task returned                                 *)
  nwpInit,         (* STATUS_BIT_NWP_INIT of app_CB.Status                   *)
  role,            (* app_CB.Role                                            *)
  nwp,             (* the role the NWP runs in, or "off"                     *)
  mode,            (* the role it starts in                                  *)
  policy,          (* its connection policy                                  *)
  sockets,         (* raw sockets open in it                                 *)
  desc,            (* radioTool_rawSocketdesc is one of them                 *)
  air,             (* what the radio does                                    *)
  stats,           (* it counts what it receives                             *)
  waited,          (* history: milliseconds slept while the radio was on     *)
  before,          (* history: the radio when the task was chosen            *)
  fault            (* history: the calls that failed: of the tool, of the    *)
                   (* task, its sl_Close; and a visit that found no bit set  *)

device  == <<nwpInit, role, nwp, mode, policy>>
radio   == <<sockets, desc, air, stats>>
history == <<before, fault>>
vars == <<at, task, par, i, ret, device, radio, waited, history>>

Defaults ==
  [channel |-> 1, duration |-> DefaultDuration, stats |-> TRUE, tone |-> 0,
   size |-> MAX_FRAME_SIZE, amount |-> DefaultAmount, delay |-> 1,
   preamble |-> 0, rate |-> 1, power |-> 0, override |-> TRUE, threshold |-> 3]

Init ==
  /\ at = "prompt" /\ task = "none" /\ par = Defaults /\ i = 0 /\ ret = "ok"
  /\ mode \in Roles /\ nwp = mode /\ role = mode /\ nwpInit = TRUE
  /\ policy = "auto"
  /\ sockets = 0 /\ desc = FALSE /\ air = "silent" /\ stats = FALSE
  /\ waited = 0 /\ fault = {}
  /\ before = [sockets |-> 0, air |-> "silent", stats |-> FALSE]

(* radioTool_Open: its result is ignored, the menu is shown in any case. *)

Tool == UNCHANGED <<task, par, i, radio, waited, before>>
Succeeds(next) == at' = next /\ UNCHANGED <<ret, fault>> /\ Tool
ToolFails(next) ==
  /\ at' = next /\ fault' = fault \union {"tool"}
  /\ UNCHANGED ret /\ Tool

cmdTransceiverMode ==
  /\ at = "prompt" /\ at' = "open"
  /\ fault' = {} /\ task' = "none" /\ par' = Defaults /\ i' = 0 /\ waited' = 0
  /\ UNCHANGED <<ret, device, radio, before>>

OpenStart ==
  /\ at = "open"
  /\ \/ nwpInit /\ Succeeds("openMode") /\ UNCHANGED device
     \/ /\ ~nwpInit /\ nwp = "off" /\ Succeeds("openMode")
        /\ nwp' = mode /\ role' = mode /\ nwpInit' = TRUE
        /\ UNCHANGED <<mode, policy>>
     \/ ~nwpInit /\ nwp = "off" /\ ToolFails("menu") /\ UNCHANGED device

\* An NWP that runs with the bit cleared is started in vain: so it is on every
\* visit after one that was left in the regular way.
OpenAgain ==
  /\ at = "open" /\ ~nwpInit /\ nwp # "off"
  /\ at' = "menu" /\ fault' = fault \union {"again"}
  /\ UNCHANGED <<ret, device>> /\ Tool

OpenMode ==
  /\ at = "openMode"
  /\ \/ Succeeds("openPolicy")
        /\ mode' = (IF role = "STA" THEN mode ELSE "STA")
        /\ UNCHANGED <<nwpInit, role, nwp, policy>>
     \/ role # "STA" /\ ToolFails("menu") /\ UNCHANGED device

OpenPolicy ==
  /\ at = "openPolicy"
  /\ \/ /\ Succeeds("openStop") /\ policy' = "none"
        /\ UNCHANGED <<nwpInit, role, nwp, mode>>
     \/ ToolFails("menu") /\ UNCHANGED device

\* sl_Stop: the sockets are gone with it.
Stopped ==
  /\ nwp' = "off" /\ sockets' = 0 /\ desc' = FALSE /\ air' = "silent"
  /\ stats' = FALSE

OpenStop ==
  /\ at = "openStop"
  /\ \/ /\ at' = "openRestart" /\ Stopped /\ nwpInit' = FALSE
        /\ UNCHANGED <<task, par, i, ret, role, mode, policy, waited, history>>
     \/ ToolFails("menu") /\ UNCHANGED device

\* A start in another role than ROLE_STA leaves the bit cleared.
OpenRestart ==
  /\ at = "openRestart"
  /\ \/ /\ Succeeds("menu") /\ nwp' = mode
        /\ nwpInit' = (mode = "STA")
        /\ role' = IF mode = "STA" THEN "STA" ELSE role
        /\ UNCHANGED <<mode, policy>>
     \/ ToolFails("menu") /\ UNCHANGED device

(* The menu's third option. *)

CloseStop ==
  /\ at = "menu"
  /\ \/ /\ at' = "closeConfig" /\ Stopped /\ nwpInit' = FALSE
        /\ UNCHANGED <<task, par, i, ret, role, mode, policy, waited, history>>
     \/ ToolFails("prompt") /\ UNCHANGED device

\* sl_WifiConfig, external: the NWP's settings as after production.
CloseConfig ==
  /\ at = "closeConfig"
  /\ \/ /\ Succeeds("closeStart") /\ mode' = "STA" /\ policy' = "auto"
        /\ UNCHANGED <<nwpInit, role, nwp>>
     \/ /\ ToolFails("prompt") /\ nwp' \in {"off", mode}
        /\ UNCHANGED <<nwpInit, role, mode, policy>>

\* The NWP runs again; nothing sets the bit.
CloseStart ==
  /\ at = "closeStart"
  /\ \/ Succeeds("prompt") /\ nwp' = mode /\ UNCHANGED <<nwpInit, role, mode, policy>>
     \/ ToolFails("prompt") /\ UNCHANGED device

(* The prompts of the two tasks. *)

Asking == UNCHANGED <<i, device, radio, waited, history>>

Begin(prompt) ==
  /\ at = "menu" /\ at' = prompt
  /\ par' = Defaults /\ i' = 0 /\ ret' = "ok" /\ waited' = 0
  /\ before' = [sockets |-> sockets, air |-> air, stats |-> stats]
  /\ fault' = fault \ {"task", "close"}
  /\ UNCHANGED <<device, radio>>

Accept(field, v, next) ==
  par' = [par EXCEPT ![field] = v] /\ at' = next /\ UNCHANGED <<task, ret>>

\* return(-1)
Refuse == at' = "menu" /\ ret' = "error" /\ UNCHANGED <<task, par>>

\* Nothing was typed: the default stays.
Skip(next) == at' = next /\ UNCHANGED <<task, par, ret>>

\* atoi into an unsigned variable, and into an int8_t by way of a uint8_t.
Uint(n) == n % UintRange
Int8(n) == LET b == n % 256 IN IF b > 127 THEN b - 256 ELSE b

Takes(field, v, valid, next) ==
  IF v \in valid THEN Accept(field, v, next) ELSE Refuse

is5GhzChannel ==
  {36 + 4 * n : n \in 0..7} \union {100 + 4 * n : n \in 0..11}
    \union {149 + 4 * n : n \in 0..4}
Channels  == 1..13 \union is5GhzChannel
Durations == 1..(UintRange - 1)
Tones     == -25..25
Sizes     == MIN_FRAME_SIZE..MAX_FRAME_SIZE
Rates     == (1..21) \ {5}

RxTask == Begin("rxChannel") /\ task' = "rx"

RxChannel ==
  /\ at = "rxChannel" /\ Asking
  /\ \/ Skip("rxDuration")
     \/ \E n \in Typed : Takes("channel", Uint(n), Channels, "rxDuration")

RxDuration ==
  /\ at = "rxDuration" /\ Asking
  /\ \/ Refuse
     \/ \E n \in Typed : Takes("duration", Uint(n), Durations, "rxStatistics")

RxStatistics ==
  /\ at = "rxStatistics" /\ Asking
  /\ Skip("rxStart") \/ Accept("stats", FALSE, "rxStart") \/ Refuse

TxTask ==
  \E txType \in {"continues", "packetized", "cw"} :
    task' = txType /\ Begin(IF txType = "cw" THEN "tone" ELSE "mac")

TxRefused == Begin("menu") /\ task' = "none"

AskTone ==
  /\ at = "tone" /\ Asking
  /\ \/ Refuse
     \/ \E n \in Typed : Takes("tone", Int8(n), Tones, "cwDuration")

AskCwDuration ==
  /\ at = "cwDuration" /\ Asking
  /\ \/ Refuse
     \/ \E n \in Typed : Takes("duration", Uint(n), Durations, "cwChannel")

AskCwChannel ==
  /\ at = "cwChannel" /\ Asking
  /\ \/ Refuse
     \/ \E n \in Typed : Takes("channel", Uint(n), Channels, "txReady")

AskMac ==
  /\ at = "mac" /\ Asking
  /\ Refuse \/ Skip("size")

AskSize ==
  /\ at = "size" /\ Asking
  /\ \/ Skip("channel")
     \/ \E n \in Typed : Takes("size", Uint(n), Sizes, "channel")

\* A missing channel is reported and the default used; a pattern that is none
\* of the four likewise.
AskChannel ==
  LET next == IF task = "packetized" THEN "amount" ELSE "burst"
  IN /\ at = "channel" /\ Asking
     /\ \/ Skip(next)
        \/ \E n \in Typed : Takes("channel", Uint(n), Channels, next)

AskAmount ==
  /\ at = "amount" /\ Asking
  /\ \/ Skip("delay")
     \/ \E n \in Typed : Takes("amount", Uint(n), 0..MAX_AMOUNT, "delay")

AskDelay ==
  /\ at = "delay" /\ Asking
  /\ \/ Skip("phy")
     \/ \E n \in Typed : Takes("delay", Uint(n), 0..MAX_DELAY, "phy")

AskBurst ==
  /\ at = "burst" /\ Asking
  /\ \/ Skip("phy")
     \/ \E n \in Typed : Takes("duration", Uint(n), Durations, "phy")

\* 1 asks for the physical parameters, 2 or nothing uses the defaults.
AskPhy ==
  /\ at = "phy" /\ Asking
  /\ Skip("preamble") \/ Skip("txReady") \/ Refuse

AskPreamble ==
  /\ at = "preamble" /\ Asking
  /\ \/ Skip("rate")
     \/ \E n \in Typed : Takes("preamble", Uint(n), 0..4, "rate")

\* Mutant: the deprecated rate is not refused.
AskRateAny ==
  /\ at = "rate" /\ Asking
  /\ \/ Skip("power")
     \/ \E n \in Typed : Takes("rate", Uint(n), 1..21, "power")

AskRate ==
  /\ at = "rate" /\ Asking
  /\ \/ Skip("power")
     \/ \E n \in Typed : Takes("rate", Uint(n), Rates, "power")

AskPower ==
  /\ at = "power" /\ Asking
  /\ \/ Skip("cca")
     \/ \E n \in Typed : Takes("power", Uint(n), 0..15, "cca")

\* Anything but yes or no keeps the default, to override.
AskCca ==
  /\ at = "cca" /\ Asking
  /\ Skip("txReady") \/ Accept("override", FALSE, "threshold")

AskThreshold ==
  /\ at = "threshold" /\ Asking
  /\ \/ Skip("txReady")
     \/ \E n \in Typed : Takes("threshold", Uint(n), 1..6, "txReady")

(* The radio. *)

\* Mutant: whole seconds only.
SleptSeconds(x) == (x \div MsPerSec) * MsPerSec

\* MSEC_SLEEP, in milliseconds: the product wraps, and above a second only
\* whole seconds are slept.
Slept(x) ==
  LET us == (x * UsPerMs) % UintRange
  IN IF us >= MsPerSec * UsPerMs THEN (x \div MsPerSec) * MsPerSec
                                 ELSE us \div UsPerMs

Calling == UNCHANGED <<task, par, device, before>>
Goes(next) == at' = next /\ UNCHANGED <<ret, fault>>
Ends(r)    == at' = "menu" /\ ret' = r /\ UNCHANGED fault
Failing(calls) == at' = "menu" /\ ret' = "error" /\ fault' = fault \union calls
Failed     == Failing({"task"})
CloseFails == Failing({"task", "close"}) /\ UNCHANGED <<sockets, desc, air>>

Opens ==
  nwp # "off" /\ sockets < MaxSockets /\ sockets' = sockets + 1 /\ desc' = TRUE

\* sl_Close of radioTool_rawSocketdesc: what was sent or heard through it ends.
Closes ==
  /\ sockets' = sockets - 1 /\ desc' = FALSE /\ air' = "silent"

RxStatStart ==
  /\ at = "rxStart" /\ Calling
  /\ \/ nwp # "off" /\ stats' = TRUE /\ Goes("rxSocket")
     \/ UNCHANGED stats /\ Failed
  /\ UNCHANGED <<i, sockets, desc, air, waited>>

RxSocket ==
  /\ at = "rxSocket" /\ Calling
  /\ \/ Opens /\ Goes("rxOption")
     \/ desc' = FALSE /\ UNCHANGED sockets /\ Failed
  /\ UNCHANGED <<i, air, stats, waited>>

\* When the option is refused socket and statistics stay as they are.
RxOption ==
  /\ at = "rxOption" /\ Calling
  /\ \/ air' = "receiving" /\ Goes("rxSleep")
     \/ UNCHANGED air /\ Failed
  /\ UNCHANGED <<i, sockets, desc, stats, waited>>

RxSleep ==
  /\ at = "rxSleep" /\ Calling /\ Goes("rxStop")
  /\ waited' = waited + Slept(par.duration)
  /\ UNCHANGED <<i, radio>>

\* Mutant: the statistics are left running.
RxStopClose ==
  /\ at = "rxStop" /\ Calling
  /\ \/ /\ Closes
        /\ IF par.stats THEN Goes("rxShow") ELSE Ends("ok")
     \/ CloseFails
  /\ UNCHANGED <<i, stats, waited>>

RxStop ==
  /\ at = "rxStop" /\ Calling /\ stats' = FALSE
  /\ \/ /\ Closes
        /\ IF par.stats THEN Goes("rxShow") ELSE Ends("ok")
     \/ CloseFails
  /\ UNCHANGED <<i, waited>>

RxShow ==
  /\ at = "rxShow" /\ Calling
  /\ Ends("ok") \/ Failed
  /\ UNCHANGED <<i, radio, waited>>

\* A carrier and a burst sleep for their period before they are started.  A
\* carrier has no frame to build and opens its socket when it starts.
TxReady ==
  /\ at = "txReady" /\ Calling
  /\ Goes(IF task = "cw" THEN "txStart" ELSE "txSocket")
  /\ waited' = IF task = "packetized" \/ air = "silent" THEN waited
               ELSE waited + Slept(par.duration)
  /\ UNCHANGED <<i, radio>>

\* Without override the threshold is set first; a refused one leaves the
\* socket open.
TxSocket ==
  /\ at = "txSocket" /\ Calling
  /\ \/ Opens /\ Goes("txStart")
     \/ desc' = FALSE /\ UNCHANGED sockets /\ Failed
     \/ ~par.override /\ Opens /\ Failed
  /\ UNCHANGED <<i, air, stats, waited>>

\* radioTool_TxStop after a send that took less than the packet.
SendFails == (Failed /\ Closes) \/ CloseFails

\* Mutant: the loop runs once too often.
TxPacketOneMore ==
  /\ at = "txStart" /\ task = "packetized" /\ i <= par.amount /\ Calling
  /\ \/ i' = i + 1 /\ Goes("txStart") /\ UNCHANGED <<sockets, desc, air>>
     \/ UNCHANGED i /\ SendFails
  /\ UNCHANGED <<stats, waited>>

\* Mutant: after a packet that failed the loop starts over.
TxPacketRetries ==
  /\ at = "txStart" /\ task = "packetized" /\ i < par.amount /\ Calling
  /\ Goes("txStart") /\ i' \in {i + 1, 0}
  /\ UNCHANGED <<sockets, desc, air, stats, waited>>

TxPacket ==
  /\ at = "txStart" /\ task = "packetized" /\ i < par.amount /\ Calling
  /\ \/ i' = i + 1 /\ Goes("txStart") /\ UNCHANGED <<sockets, desc, air>>
     \/ UNCHANGED i /\ SendFails
  /\ UNCHANGED <<stats, waited>>

TxPacketsDone ==
  /\ at = "txStart" /\ task = "packetized" /\ i >= par.amount /\ Calling
  /\ Goes("txStop") /\ UNCHANGED <<i, radio, waited>>

\* The number of frames is set to 0, for ever, and one is sent.  When only the
\* option failed TxTask returns its error without radioTool_TxStop.
TxContinues ==
  /\ at = "txStart" /\ task = "continues" /\ Calling
  /\ \/ air' = "packets" /\ Goes("txStop") /\ UNCHANGED <<sockets, desc>>
     \/ Failed /\ UNCHANGED <<sockets, desc, air>>
     \/ SendFails
  /\ UNCHANGED <<i, stats, waited>>

\* The results of the socket and of the send are not looked at.
TxCw ==
  /\ at = "txStart" /\ task = "cw" /\ Calling /\ at' = "txStop" /\ UNCHANGED ret
  /\ \/ Opens /\ air' = "tone" /\ UNCHANGED fault
     \/ Opens /\ UNCHANGED air /\ fault' = fault \union {"task"}
     \/ /\ desc' = FALSE /\ UNCHANGED <<sockets, air>>
        /\ fault' = fault \union {"task"}
  /\ UNCHANGED <<i, stats, waited>>

\* radioTool_TxStop: a carrier is told to stop first, in vain if that fails.
TxStop ==
  /\ at = "txStop" /\ Calling
  /\ (desc /\ Closes /\ Ends("ok")) \/ CloseFails
  /\ UNCHANGED <<i, stats, waited>>

Device == OpenStart \/ OpenAgain \/ OpenMode \/ OpenPolicy \/ OpenStop \/ OpenRestart
            \/ CloseConfig \/ CloseStart
Prompts == RxChannel \/ RxDuration \/ RxStatistics \/ AskTone \/ AskCwDuration
  \/ AskCwChannel \/ AskMac \/ AskSize \/ AskChannel \/ AskAmount \/ AskDelay
  \/ AskBurst \/ AskPhy \/ AskPreamble \/ AskRate \/ AskPower \/ AskCca
  \/ AskThreshold
Radio == RxStatStart \/ RxSocket \/ RxOption \/ RxSleep \/ RxStop \/ RxShow
  \/ TxReady \/ TxSocket \/ TxPacket \/ TxPacketsDone \/ TxContinues \/ TxCw
  \/ TxStop

Next == \/ cmdTransceiverMode \/ RxTask \/ TxTask \/ TxRefused \/ CloseStop
        \/ Device \/ Prompts \/ Radio

Spec == Init /\ [][Next]_vars

\* Calls of the driver return and sleeps end; the user need not type.
FairSpec == Spec /\ WF_vars(Radio)

-----------------------------------------------------------------------------

Points ==
  {"prompt", "open", "openMode", "openPolicy", "openStop", "openRestart",
   "menu", "closeConfig", "closeStart", "rxChannel", "rxDuration",
   "rxStatistics", "rxStart", "rxSocket", "rxOption", "rxSleep", "rxStop",
   "rxShow", "tone", "cwDuration", "cwChannel", "mac", "size", "channel",
   "amount", "delay", "burst", "phy", "preamble", "rate", "power", "cca",
   "threshold", "txReady", "txSocket", "txStart", "txStop"}

TypeOK ==
  /\ at \in Points /\ task \in {"none", "rx", "continues", "packetized", "cw"}
  /\ i \in 0..par.amount /\ ret \in {"ok", "error"}
  /\ nwpInit \in BOOLEAN /\ {role, mode} \subseteq Roles
  /\ nwp \in Roles \union {"off"} /\ policy \in {"none", "auto"}
  /\ sockets \in 0..MaxSockets /\ desc \in BOOLEAN /\ (desc => sockets > 0)
  /\ air \in {"silent", "receiving", "packets", "tone"}
  /\ stats \in BOOLEAN /\ waited \in Nat
  /\ fault \subseteq {"tool", "again", "task", "close"}

\* Whatever is typed, with all its conversions to narrower types, the radio is
\* only given channels, tones, sizes, rates, powers and thresholds it has, and
\* amounts and delays that fit their types (the checks of RxTask and TxTask, far
\* from the calls they guard).  No lower bound is claimed of the last two: 0 is
\* let through (638, 663) against the prompts' [1,%d] (621, 647).
RadioParametersInRange ==
  at \in {"rxSocket", "rxSleep", "txSocket", "txStart", "txStop"} =>
    /\ par.channel \in Channels /\ par.tone \in Tones
    /\ par.size \in Sizes /\ par.preamble \in 0..4
    /\ par.rate \in Rates /\ par.power \in 0..15 /\ par.threshold \in 1..6
    /\ par.amount <= MAX_AMOUNT /\ par.delay <= MAX_DELAY

\* A task in which no call failed, refused or completed, has closed its socket
\* and stopped the statistics it started.  One that failed half-way, at any of
\* its calls, costs one socket at most, and the radio does not go on with what
\* the task started unless it was sl_Close that failed.
RestoresRadio ==
  (at = "menu" /\ task # "none") =>
    /\ sockets \in {before.sockets, before.sockets + 1}
    /\ "close" \notin fault => air \in {"silent", before.air}
    /\ "task" \notin fault =>
         sockets = before.sockets /\ stats \in {FALSE, before.stats}

\* When no call of radioTool_Open failed, and it did not find an NWP running
\* without its bit, the menu is shown by a station that joins nothing, in
\* whatever role the NWP was before, and so it is at the first call of a task.
\* On a visit after a regular leave and after a failed call nobody sees to that,
\* whatever the comment on the call says (transceiver_cmd.c 94-96): the menu is
\* shown all the same, and no task tests it.
ToolReady ==
  (at \in {"menu", "rxStart", "txReady"} /\ fault \intersect {"tool", "again"} = {}) =>
    nwpInit /\ role = "STA" /\ nwp = "STA" /\ policy = "none"

\* Whatever failed and however often the tool was entered: where the status bit
\* is set the NWP runs, in the role app_CB has, as the other commands expect.
BitTellsRole == nwpInit => nwp = role

\* Every entry of the tool and every task leave the radio as the next one needs
\* it, as far as their failures allow.
RadioSound == RestoresRadio /\ ToolReady /\ BitTellsRole

\* A reception that reports success has listened for the period typed when it
\* is below a second, and for its whole seconds when it is longer, provided its
\* microseconds fit the type they are computed in (MSEC_SLEEP).  A period whose
\* microseconds overflow is outside the claim, though the prompt allows it (259).
ReceivesForPeriod ==
  (at = "menu" /\ task = "rx" /\ ret = "ok"
      /\ par.duration * UsPerMs < UintRange) =>
    /\ waited \in (par.duration - (MsPerSec - 1))..par.duration
    /\ par.duration < MsPerSec => waited = par.duration

\* Once the user has pressed the last key a task comes back to the menu, with
\* packets to count, results nobody looks at or calls that fail.
TaskReturns == (at \in {"rxStart", "txReady"}) ~> (at = "menu")
=============================================================================
