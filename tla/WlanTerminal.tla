---------------------------- MODULE WlanTerminal ----------------------------
(***************************************************************************)
(* The network terminal: the commands of wlan_cmd.c and netapp_cmd.c that  *)
(* change the state of the Wi-Fi device, run one after the other by the    *)
(* thread of cmd_prompt, against the event handlers of network_terminal.c  *)
(* run by the driver's spawn thread, the thread p2pConnect, the user, and  *)
(* the network processor (NWP).                                            *)
(*                                                                         *)
(* The commands share app_CB: status bits, the role, semaphores and the    *)
(* name of the P2P peer, which outlive every command and which the         *)
(* handlers write at any time.  Each sl_ call may fail, and a command that *)
(* gives up in the middle leaves behind what it had done.  A command that  *)
(* fails before its first effect (its options do not parse, the first call *)
(* fails) is Refuse.  Bits nobody reads (IP_LEASED, the IPv6 bits) and the *)
(* text the handlers print are left out.                                   *)
(***************************************************************************)
EXTENDS Integers, Sequences

CONSTANTS
  SemMax,         (* SEM_VALUE_MAX: sem_post fails, and nobody looks, beyond *)
  EventMax,       (* bound: events raised and not yet handled                *)
  MaxCommands,    (* bound: commands typed in a session                      *)
  MaxScanTrails   (* MAX_SCAN_TRAILS                                         *)

ASSUME TerminalAssumption ==
  {SemMax, EventMax, MaxCommands, MaxScanTrails} \subseteq Nat \ {0}

VARIABLES
  nwp,            (* the NWP: role, mode it will start in, link, pinging     *)
  events,         (* events raised by the NWP and not yet handled            *)
  status,         (* app_CB.Status: the bits that are set                    *)
  sem,            (* the semaphores of app_CB                                *)
  role,           (* app_CB.Role                                             *)
  peer,           (* p2pPeerDeviceName is set                                *)
  spawn,          (* the semaphore an event handler is about to post         *)
  at,             (* where the thread of cmd_prompt is                       *)
  count,          (* commands typed; trials of a scan: [typed, trials]       *)
  attempts,       (* app_CB.PingAttempts: 0 or the number asked for, here 1  *)
  p2p,            (* where the thread p2pConnect is                          *)
  cancelled,      (* pthread_cancel was called on it                         *)
  copy,           (* app_CB.Status as a thread read it to write it back      *)
  lost            (* history: the connection bit outlived its link, because  *)
                  (* sl_Stop took it or an old copy was written back         *)

vars == <<nwp, events, status, sem, role, peer, spawn, at, count, attempts,
          p2p, cancelled, copy, lost>>
appVars  == <<status, sem, role, peer, attempts>>
mainVars == <<at, count>>
p2pVars  == <<p2p, cancelled, copy>>

Roles     == {"STA", "AP", "P2P"}
Links     == {"down", "search", "joining", "up", "leased"}
Bits      == {"CONNECTION", "IP_ACQUIRED", "PING_STARTED"}
Events    == {"CONNECT", "DISCONNECT", "P2P_DEVFOUND", "P2P_REQUEST",
              "P2P_CONNECT", "P2P_DISCONNECT", "P2P_CLIENT_REMOVED",
              "IPV4_ACQUIRED", "DHCPV4_LEASED", "PING_REPORT"}
Sems      == {"connect", "ip4", "eventCompleted", "DeviceFound", "RcvNegReq",
              "RcvConReq"}
P2pPoints == {"none", "search", "waitDevice", "waitNegReq", "request",
              "waitConReq", "waitIp4", "setBit", "connected", "ended"}
MainPoints == {"start", "exited", "prompt", "station", "join", "connect",
               "checkConnected", "waitConnect", "checkIp", "waitIp4",
               "waitIp6", "scan", "ping", "pingSend", "pingWait", "pingStop",
               "apClear", "apRestart", "p2pParams", "p2pCreate", "p2pCheck",
               "p2pGetCmd", "p2pJoin", "p2pAbort", "p2pStop", "p2pRestart"}

Linked      == nwp.link \in {"up", "leased"}
Connected   == "CONNECTION" \in status
IpAcquired  == "IP_ACQUIRED" \in status

Raised(n) == IF n < SemMax THEN n + 1 ELSE n
Post(s) == [sem EXCEPT ![s] = Raised(@)]
Taken(s) == [sem EXCEPT ![s] = @ - 1]

\* The NWP after sl_Stop, and after a sl_Start that follows it.
Stopped(n) == [n EXCEPT !.role = "stopped", !.link = "down", !.pinging = FALSE]
Started(n) == [Stopped(n) EXCEPT !.role = n.mode]

\* sl_Stop then sl_Start: the first, the second or none of them fails.
Restarts(n) == {[ok |-> FALSE, nwp |-> n, stops |-> FALSE],
                [ok |-> FALSE, nwp |-> Stopped(n), stops |-> TRUE],
                [ok |-> TRUE, nwp |-> Started(n), stops |-> TRUE]}

\* What a restart leaves: with sl_Stop the link and the events under way are
\* gone, and no event says so.
Restarted(r) ==
  /\ nwp' = r.nwp
  /\ IF r.stops THEN events' = <<>> /\ lost' = Connected
                ELSE UNCHANGED <<events, lost>>
  /\ UNCHANGED <<status, sem>>

\* app_CB.Role = ret
TakesRole(r) == role' = IF r.ok THEN r.nwp.role ELSE role

Init ==
  /\ nwp = [role |-> "stopped", mode |-> "STA", link |-> "down",
            pinging |-> FALSE]
  /\ events = <<>> /\ status = {} /\ sem = [s \in Sems |-> 0]
  /\ role = "RESERVED" /\ peer = FALSE /\ attempts = 0
  /\ spawn = "idle" /\ at = "start"
  /\ count = [typed |-> 0, trials |-> 0]
  /\ p2p = "none" /\ cancelled = FALSE
  /\ copy = [main |-> {}, p2p |-> {}] /\ lost = FALSE

-----------------------------------------------------------------------------
(* The network processor, the access point and the peers. *)

Raises(e, n) ==
  /\ Len(events) < EventMax
  /\ events' = Append(events, e)
  /\ nwp' = n
  /\ UNCHANGED <<appVars, spawn, mainVars, p2pVars, lost>>

Associate ==
  /\ nwp.link = "joining"
  /\ Raises(IF nwp.role = "STA" THEN "CONNECT" ELSE "P2P_CONNECT",
            [nwp EXCEPT !.link = "up"])

Lease ==
  /\ nwp.link = "up"
  /\ Raises("IPV4_ACQUIRED", [nwp EXCEPT !.link = "leased"])

\* The link goes, and a ping with it.
Drop ==
  /\ Linked
  /\ \E e \in IF nwp.role = "STA" THEN {"DISCONNECT"}
              ELSE {"P2P_DISCONNECT", "P2P_CLIENT_REMOVED"} :
       Raises(e, [nwp EXCEPT !.link = "down", !.pinging = FALSE])

FindPeer ==
  /\ nwp.link = "search"
  /\ \E e \in {"P2P_DEVFOUND", "P2P_REQUEST"} : Raises(e, nwp)

StationJoins == nwp.role = "AP" /\ Raises("DHCPV4_LEASED", nwp)

ReportPing == nwp.pinging /\ Raises("PING_REPORT", [nwp EXCEPT !.pinging = FALSE])

-----------------------------------------------------------------------------
(* The spawn thread: the event handlers of network_terminal.c.  A handler  *)
(* writes the bits, prints, which may block, and posts a semaphore.        *)

Handle(e, sets, clears, posts) ==
  /\ spawn = "idle" /\ events # <<>> /\ Head(events) = e
  /\ events' = Tail(events)
  /\ status' = (status \ clears) \union sets
  /\ spawn' = posts
  /\ lost' = (lost /\ "CONNECTION" \notin sets \union clears)
  /\ UNCHANGED <<nwp, sem, role, mainVars, p2pVars>>

HandleOnly(e, sets, clears, posts) ==
  Handle(e, sets, clears, posts) /\ UNCHANGED <<peer, attempts>>

OnConnect == HandleOnly("CONNECT", {"CONNECTION"}, {}, "connect")

\* Mutant: the handler forgets that the link is gone.
OnDisconnectKeepsBit ==
  HandleOnly("DISCONNECT", {}, {"IP_ACQUIRED"},
         IF "PING_STARTED" \in status THEN "eventCompleted" ELSE "idle")

\* Mutant: the bits are cleared, that of the ping with them, before it is looked at.
OnDisconnectClearsAll == HandleOnly("DISCONNECT", {}, Bits, "idle")

\* Mutant: a ping is not woken when the link goes.
OnDisconnectSilent ==
  HandleOnly("DISCONNECT", {}, {"CONNECTION", "IP_ACQUIRED"}, "idle")

OnDisconnect ==
  HandleOnly("DISCONNECT", {}, {"CONNECTION", "IP_ACQUIRED"},
         IF "PING_STARTED" \in status THEN "eventCompleted" ELSE "idle")

OnDeviceFound == HandleOnly("P2P_DEVFOUND", {}, {}, "DeviceFound")

OnP2pRequest ==
  /\ Handle("P2P_REQUEST", {}, {}, "RcvNegReq")
  /\ peer' = TRUE /\ UNCHANGED attempts

OnP2pConnect == HandleOnly("P2P_CONNECT", {}, {}, "RcvConReq")

OnP2pDisconnect == HandleOnly("P2P_DISCONNECT", {}, {"CONNECTION"}, "idle")

OnP2pClientRemoved ==
  HandleOnly("P2P_CLIENT_REMOVED", {}, {"CONNECTION", "IP_ACQUIRED"}, "idle")

OnIpv4Acquired == HandleOnly("IPV4_ACQUIRED", {"IP_ACQUIRED"}, {}, "ip4")

OnDhcpLeased == HandleOnly("DHCPV4_LEASED", {"IP_ACQUIRED"}, {}, "ip4")

\* SimpleLinkPingReport: only the report of the last attempt ends a ping.
OnPingReport ==
  LET last == "PING_STARTED" \in status /\ attempts = 1 IN
  /\ Handle("PING_REPORT", {}, IF last THEN {"PING_STARTED"} ELSE {},
            IF last THEN "eventCompleted" ELSE "idle")
  /\ attempts' = IF last THEN 0 ELSE attempts
  /\ UNCHANGED peer

PostSem ==
  /\ spawn # "idle"
  /\ sem' = Post(spawn)
  /\ spawn' = "idle"
  /\ UNCHANGED <<nwp, events, status, role, peer, attempts, mainVars, p2pVars,
                 lost>>

Spawn ==
  \/ OnConnect \/ OnDisconnect \/ OnDeviceFound \/ OnP2pRequest
  \/ OnP2pConnect \/ OnP2pDisconnect \/ OnP2pClientRemoved
  \/ OnIpv4Acquired \/ OnDhcpLeased \/ OnPingReport \/ PostSem

-----------------------------------------------------------------------------
(* The thread of cmd_prompt. *)

nwpVars == <<nwp, events, lost>>

Goes(from, to) == at = from /\ at' = to

\* A step of the command that runs, to its next point.
Steps(from, to) ==
  /\ Goes(from, to)
  /\ UNCHANGED <<spawn, count, attempts, p2pVars>>

\* cmd_prompt: the user types a command, and its callback starts.
Command(to) ==
  /\ count.typed < MaxCommands
  /\ count' = [typed |-> count.typed + 1, trials |-> 0]
  /\ at = "prompt" /\ at' = to
  /\ UNCHANGED <<spawn, attempts, p2pVars>>

\* An unknown command, options that do not parse, or a first call that fails.
Refuse == Command("prompt") /\ UNCHANGED <<nwpVars, status, sem, role, peer>>

\* mainThread: the terminal starts, or gives up.
mainThread ==
  /\ \E to \in {"prompt", "exited"}, r \in Restarts(nwp) :
       /\ Steps("start", to)
       /\ to = "prompt" => r.ok
       /\ Restarted(r) /\ TakesRole(r)
  /\ UNCHANGED peer

(* wlanconnect *)

cmdWlanConnect ==
  /\ Command(IF role = "STA" THEN "join" ELSE "station")
  /\ UNCHANGED <<nwpVars, status, sem, role, peer>>

\* sl_WlanSetMode(ROLE_STA), sl_Stop, sl_Start
EnterStation ==
  /\ \E r \in Restarts([nwp EXCEPT !.mode = "STA"]) :
       /\ Steps("station", IF r.ok THEN "join" ELSE "prompt")
       /\ Restarted(r) /\ TakesRole(r)
  /\ UNCHANGED peer

\* Only when an address was given.
setStaticIPConfig ==
  /\ \E r \in Restarts(nwp) :
       /\ Steps("join", IF r.ok THEN "connect" ELSE "prompt")
       /\ Restarted(r) /\ TakesRole(r)
  /\ UNCHANGED peer

\* sl_WlanConnect is refused outside the station role.
Join ==
  /\ \E from \in {"join", "connect"} :
       \/ /\ nwp.role = "STA"
          /\ Steps(from, "checkConnected")
          /\ nwp' = [nwp EXCEPT !.link = IF @ = "down" THEN "joining" ELSE @]
       \/ Steps(from, "prompt") /\ UNCHANGED nwp
  /\ UNCHANGED <<events, lost, status, sem, role, peer>>

CheckConnected ==
  /\ Steps("checkConnected", IF Connected THEN "checkIp" ELSE "waitConnect")
  /\ UNCHANGED <<nwpVars, status, sem, role, peer>>

\* sem_wait_timeout: the semaphore, or the timeout at any time.
WaitTimed(s, from, ok, timeout) ==
  \/ sem[s] > 0 /\ sem' = Taken(s) /\ Steps(from, ok)
  \/ UNCHANGED sem /\ Steps(from, timeout)

WaitConnect ==
  /\ WaitTimed("connect", "waitConnect", "checkIp", "prompt")
  /\ UNCHANGED <<nwpVars, status, role, peer>>

CheckIp ==
  /\ Steps("checkIp", IF IpAcquired THEN "waitIp6" ELSE "waitIp4")
  /\ UNCHANGED <<nwpVars, status, sem, role, peer>>

\* The timeouts of both addresses only print; the IPv6 wait ends either way.
WaitIp ==
  /\ \/ WaitTimed("ip4", "waitIp4", "waitIp6", "waitIp6")
     \/ UNCHANGED sem /\ Steps("waitIp6", "prompt")
  /\ UNCHANGED <<nwpVars, status, role, peer>>

(* wlandisconnect, ap start, ap stop *)

\* sl_WlanDisconnect: fails when there is nothing to leave.
Leaves ==
  /\ nwp.link # "down" /\ Len(events) < EventMax
  /\ nwp' = [nwp EXCEPT !.link = "down", !.pinging = FALSE]
  /\ events' = IF Linked
               THEN Append(events, IF nwp.role = "STA" THEN "DISCONNECT"
                                                       ELSE "P2P_DISCONNECT")
               ELSE events

cmdWlanDisconnect ==
  /\ Command("prompt") /\ Leaves
  /\ UNCHANGED <<lost, status, sem, role, peer>>

\* The parameters are set; a station that is connected leaves first.
cmdWlanStartAp ==
  /\ count.typed < MaxCommands
  /\ count' = [typed |-> count.typed + 1, trials |-> 0]
  /\ IF role # "AP" /\ Connected
     THEN /\ Goes("prompt", "apClear") /\ Leaves
          /\ copy' = [copy EXCEPT !.main = status]
     ELSE Goes("prompt", "apRestart") /\ UNCHANGED <<nwp, events, copy>>
  /\ UNCHANGED <<lost, status, sem, role, peer, spawn, attempts, p2p,
                 cancelled>>

\* CLR_STATUS_BIT twice, on the Status read before.
ClearBits ==
  /\ Goes("apClear", "apRestart")
  /\ status' = copy.main \ {"CONNECTION", "IP_ACQUIRED"}
  /\ copy' = [copy EXCEPT !.main = {}]
  /\ lost' = FALSE
  /\ UNCHANGED <<nwp, events, sem, role, peer, spawn, count, attempts,
                 p2p, cancelled>>

\* sl_WlanSetMode(ROLE_AP), unless the role is known to be AP, and a restart.
RestartAp ==
  /\ \E r \in Restarts([nwp EXCEPT !.mode = IF role = "AP" THEN @ ELSE "AP"]) :
       /\ Steps("apRestart", "prompt")
       /\ Restarted(r)
       /\ role' = IF r.ok /\ r.nwp.role = "AP" THEN "AP" ELSE role
  /\ UNCHANGED peer

\* sl_WlanSetMode fails: what was cleared before stays cleared.
ApModeFails ==
  /\ role # "AP"
  /\ Steps("apRestart", "prompt")
  /\ UNCHANGED <<nwpVars, status, sem, role, peer>>

\* The stations are sent away, whether that works or not, before the restart.
cmdWlanStopAp ==
  /\ role # "STA"
  /\ Command("prompt")
  /\ \E r \in Restarts([nwp EXCEPT !.mode = "STA"]) :
       /\ Restarted(r)
       /\ role' = IF r.ok /\ r.nwp.role = "STA" THEN "STA" ELSE role
  /\ UNCHANGED peer

(* Settings that take effect with a restart. *)

\* The setting is written, which nobody reads back, and the device restarted.
Configure ==
  /\ Command("prompt")
  /\ \E r \in Restarts(nwp) : Restarted(r) /\ TakesRole(r)
  /\ UNCHANGED peer

cmdAntSelectionEnable  == Configure
cmdAntSelectionDisable == Configure
cmdCoexEnable          == Configure
cmdCoexDisable         == Configure

\* Whether the code was written or not, the device is restarted.
cmdCountrycode == Configure

(* scan, ping *)

\* A list that is not ready, or cannot be had, is asked for again.
cmdScan == Command("scan") /\ UNCHANGED <<nwpVars, status, sem, role, peer>>

\* Mutant: the loop runs while the trials are not more than MAX_SCAN_TRAILS.
ScanAgainOnceMore ==
  /\ Goes("scan", "scan")
  /\ count.trials <= MaxScanTrails
  /\ count' = [count EXCEPT !.trials = @ + 1]
  /\ UNCHANGED <<nwpVars, appVars, spawn, p2pVars>>

ScanAgain ==
  /\ Goes("scan", "scan")
  /\ count.trials < MaxScanTrails
  /\ count' = [count EXCEPT !.trials = @ + 1]
  /\ UNCHANGED <<nwpVars, appVars, spawn, p2pVars>>

ScanReturns ==
  Steps("scan", "prompt") /\ UNCHANGED <<nwpVars, status, sem, role, peer>>

\* The semaphore is taken once, if it was posted, and Status is read.
cmdPing ==
  /\ IpAcquired \/ Connected
  /\ count.typed < MaxCommands
  /\ count' = [typed |-> count.typed + 1, trials |-> 0]
  /\ Goes("prompt", "ping")
  /\ sem' = [sem EXCEPT !["eventCompleted"] = IF @ > 0 THEN @ - 1 ELSE 0]
  /\ copy' = [copy EXCEPT !.main = status]
  /\ UNCHANGED <<nwpVars, status, role, peer, spawn, attempts, p2p, cancelled>>

SetPingBit ==
  /\ Goes("ping", "pingSend")
  /\ status' = copy.main \union {"PING_STARTED"}
  /\ lost' = (lost \/ copy.main # status)
  /\ copy' = [copy EXCEPT !.main = {}]
  /\ UNCHANGED <<nwp, events, sem, role, peer, spawn, count, attempts,
                 p2p, cancelled>>

\* sl_NetAppDnsGetHostByName, which may fail, and sl_NetAppPing.
SendPing ==
  /\ \/ /\ Linked \/ nwp.role = "AP"
        /\ Goes("pingSend", "pingWait")
        /\ nwp' = [nwp EXCEPT !.pinging = TRUE]
        /\ attempts' = 1
     \/ /\ Goes("pingSend", "prompt")
        /\ attempts' \in {attempts, 1}
        /\ UNCHANGED nwp
  /\ UNCHANGED <<events, lost, status, sem, role, peer, spawn, count,
                 p2pVars>>

WaitPing ==
  /\ sem["eventCompleted"] > 0 /\ sem' = Taken("eventCompleted")
  /\ Steps("pingWait", "pingStop")
  /\ UNCHANGED <<nwpVars, status, role, peer>>

\* sl_NetAppPing with zeros ends what still runs.
StopPing ==
  /\ Steps("pingStop", "prompt")
  /\ nwp' = [nwp EXCEPT !.pinging = FALSE]
  /\ UNCHANGED <<events, lost, status, sem, role, peer>>

-----------------------------------------------------------------------------
(* p2pstart, p2pstop and the thread p2pConnect. *)

cmdP2PMode == Command("p2pParams") /\ UNCHANGED <<nwpVars, status, sem, role, peer>>

setP2Pparams ==
  /\ \E r \in Restarts([nwp EXCEPT !.mode = "P2P"]) :
       /\ Steps("p2pParams", IF r.ok THEN "p2pCreate" ELSE "prompt")
       /\ Restarted(r) /\ TakesRole(r)
  /\ UNCHANGED peer

CreateThread ==
  /\ \/ /\ Goes("p2pCreate", "p2pCheck")
        /\ p2p' = "search" /\ cancelled' = FALSE
     \/ Goes("p2pCreate", "prompt") /\ UNCHANGED <<p2p, cancelled>>
  /\ UNCHANGED <<nwpVars, appVars, spawn, count, copy>>

\* while(!IS_CONNECTED(app_CB.Status))
CheckPeer ==
  /\ Steps("p2pCheck", IF Connected THEN "p2pJoin" ELSE "p2pGetCmd")
  /\ UNCHANGED <<nwpVars, status, sem, role, peer>>

TypesOther ==
  /\ Steps("p2pGetCmd", "p2pCheck")
  /\ UNCHANGED <<nwpVars, status, sem, role, peer>>

TypesP2pStop ==
  /\ Goes("p2pGetCmd", "p2pAbort")
  /\ cancelled' = TRUE
  /\ UNCHANGED <<nwpVars, appVars, spawn, count, p2p, copy>>

\* Mutant: the cancelled thread is not waited for.
JoinThreadOnce ==
  /\ \/ p2p = "ended" /\ Goes("p2pJoin", "prompt") /\ p2p' = "none"
     \/ Goes("p2pAbort", "p2pStop") /\ UNCHANGED p2p
  /\ UNCHANGED <<nwpVars, appVars, spawn, count, cancelled, copy>>

JoinThread ==
  /\ p2p = "ended" /\ p2p' = "none"
  /\ Goes("p2pJoin", "prompt") \/ Goes("p2pAbort", "p2pStop")
  /\ UNCHANGED <<nwpVars, appVars, spawn, count, cancelled, copy>>

cmdP2PStop == Command("p2pStop") /\ UNCHANGED <<nwpVars, status, sem, role, peer>>

\* sl_WlanDisconnect may fail, and nobody looks.
LeavePeer ==
  /\ Steps("p2pStop", IF role = "P2P" THEN "p2pRestart" ELSE "prompt")
  /\ \/ role = "P2P" /\ Connected /\ Leaves
     \/ UNCHANGED <<nwp, events>>
  /\ UNCHANGED <<lost, status, sem, role, peer>>

\* sl_Stop, sl_WifiConfig, which may fail and leave the mode as it is, and
\* sl_Start.  The role in app_CB stays P2P.
StopP2p ==
  /\ Steps("p2pRestart", "prompt")
  /\ \E m \in {nwp.mode, "STA"} : \E r \in Restarts([nwp EXCEPT !.mode = m]) :
       /\ m # nwp.mode => r.stops
       /\ Restarted(r)
       /\ peer' = (peer /\ ~r.stops)
  /\ UNCHANGED role

Thread(from, to) ==
  /\ p2p = from /\ p2p' = to
  /\ UNCHANGED <<events, lost, status, role, peer, attempts, spawn,
                 mainVars, cancelled, copy>>

\* sl_WlanConnect("StartScan") and, to the peer, in sendConnectionReq.
PeerCalls ==
  /\ UNCHANGED sem
  /\ \/ Thread("search", "waitDevice") /\ nwp' = [nwp EXCEPT !.link = "search"]
     \/ Thread("request", "waitConReq") /\ nwp' = [nwp EXCEPT !.link = "joining"]
     \/ (Thread("search", "ended") \/ Thread("request", "ended")) /\ UNCHANGED nwp

PeerWait(s, from, to) ==
  /\ Thread(from, to)
  /\ sem[s] > 0 /\ sem' = Taken(s)
  /\ UNCHANGED nwp

PeerWaits ==
  \/ PeerWait("DeviceFound", "waitDevice", "waitNegReq")
  \/ PeerWait("RcvNegReq", "waitNegReq", "request")
  \/ PeerWait("RcvConReq", "waitConReq", "waitIp4")
  \/ PeerWait("ip4", "waitIp4", "setBit")

\* SET_STATUS_BIT reads Status and writes it back.
ReadStatus ==
  /\ p2p = "setBit" /\ p2p' = "connected"
  /\ copy' = [copy EXCEPT !.p2p = status]
  /\ UNCHANGED <<nwpVars, appVars, spawn, mainVars, cancelled>>

SetConnectionBit ==
  /\ p2p = "connected" /\ p2p' = "ended"
  /\ status' = copy.p2p \union {"CONNECTION"}
  /\ copy' = [copy EXCEPT !.p2p = {}]
  /\ lost' = (lost \/ copy.p2p # status)
  /\ UNCHANGED <<nwp, events, sem, role, peer, attempts, spawn,
                 mainVars, cancelled>>

\* pthread_cancel ends the thread wherever it is, at once or later.
Cancel ==
  /\ cancelled /\ p2p \notin {"none", "ended"}
  /\ p2p' = "ended"
  /\ copy' = [copy EXCEPT !.p2p = {}]
  /\ UNCHANGED <<nwpVars, appVars, spawn, mainVars, cancelled>>

p2pConnect == PeerCalls \/ PeerWaits \/ ReadStatus \/ SetConnectionBit \/ Cancel

-----------------------------------------------------------------------------
Nwp == Associate \/ Lease \/ Drop \/ FindPeer \/ StationJoins \/ ReportPing

Typed ==
  \/ Refuse \/ cmdWlanConnect \/ cmdWlanDisconnect \/ cmdWlanStartAp
  \/ cmdWlanStopAp \/ cmdAntSelectionEnable \/ cmdAntSelectionDisable
  \/ cmdCoexEnable \/ cmdCoexDisable \/ cmdCountrycode \/ cmdScan \/ cmdPing
  \/ cmdP2PMode \/ cmdP2PStop

Continues ==
  \/ mainThread \/ EnterStation \/ setStaticIPConfig \/ Join \/ CheckConnected
  \/ WaitConnect \/ CheckIp \/ WaitIp \/ ClearBits \/ RestartAp \/ ApModeFails
  \/ ScanAgain \/ ScanReturns \/ SetPingBit \/ SendPing \/ WaitPing \/ StopPing
  \/ setP2Pparams \/ CreateThread \/ CheckPeer \/ JoinThread \/ LeavePeer
  \/ StopP2p

User == TypesOther \/ TypesP2pStop

Next == Nwp \/ Spawn \/ Typed \/ Continues \/ User \/ p2pConnect

Spec == Init /\ [][Next]_vars

\* The threads run, and the NWP does not keep what it has been asked for.
FairSpec ==
  /\ Spec
  /\ WF_vars(Spawn) /\ WF_vars(Continues) /\ WF_vars(p2pConnect)
  /\ WF_vars(ReportPing)

-----------------------------------------------------------------------------
(* Properties *)

TypeOK ==
  /\ nwp \in [role : Roles \union {"stopped"}, mode : Roles, link : Links,
              pinging : BOOLEAN]
  /\ events \in Seq(Events) /\ Len(events) <= EventMax
  /\ status \subseteq Bits
  /\ sem \in [Sems -> 0..SemMax]
  /\ role \in Roles \union {"RESERVED"} /\ peer \in BOOLEAN
  /\ spawn \in Sems \union {"idle"}
  /\ at \in MainPoints
  /\ count \in [typed : 0..MaxCommands, trials : 0..MaxScanTrails]
  /\ attempts \in 0..1
  /\ p2p \in P2pPoints /\ cancelled \in BOOLEAN
  /\ copy \in [{"main", "p2p"} -> SUBSET Bits] /\ lost \in BOOLEAN

\* wlanconnect restarts the device only when app_CB.Role is not STA
\* (wlan_cmd.c:138), so that role must be true: whatever commands were typed
\* before, and wherever they gave up, a device that runs under the role STA is
\* a station.
StationIsStation == role = "STA" => nwp.role \in {"STA", "stopped"}

\* The thread p2pConnect only runs in a device that is in the P2P role: p2pstop
\* cancels and joins it before it stops the device (wlan_cmd.c:1656, 1675), so
\* a late step of it can neither join anything nor set the connection bit
\* under another role.
PeerThreadInRole ==
  p2p \notin {"none", "ended"} => nwp.role = "P2P" /\ role = "P2P"

\* app_CB.Role, the device and the thread of P2P agree wherever code relies on it.
RoleSound == StationIsStation /\ PeerThreadInRole

\* While the device is a station and all events are handled, the connection
\* bit is the state of the link, except after a sl_Stop that took the link
\* without an event and after a write of an old copy of Status.
BitFollowsLink ==
  nwp.role = "STA" /\ events = <<>> /\ ~lost => (Connected <=> Linked)

\* A ping on its way can still be woken: the bit by which the handlers know of it
\* is set, or the handler that cleared it posts the semaphore, or has posted it.
\* Reports of an earlier ping, drops and writes of an old Status may come between
\* the bit, the call and the wait (netapp_cmd.c:110-146, network_terminal.c:273).
PingMarked ==
  at \in {"pingSend", "pingWait"} =>
    \/ "PING_STARTED" \in status
    \/ spawn = "eventCompleted"
    \/ sem["eventCompleted"] > 0

\* A ping of a station returns: the last report posts the semaphore, and when
\* the link goes first, and the reports with it, the DISCONNECT handler does
\* (network_terminal.c:273).
PingReturns == nwp.role = "STA" /\ at = "pingWait" ~> at # "pingWait"
=============================================================================
