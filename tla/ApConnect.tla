----------------------------- MODULE ApConnect -----------------------------
(***************************************************************************)
(* The board's Wi-Fi station: connectToAP and handle_wifi_disconnection of *)
(* ap_connection.c, run by the main thread, against the asynchronous event *)
(* handlers of network_terminal.c, run by the driver's spawn thread.  The  *)
(* network processor (NWP) and the access point are external: they are     *)
(* modelled from how the code uses sl_WlanConnect, sl_WlanDisconnect and   *)
(* the events the handlers receive.                                        *)
(*                                                                         *)
(* The two threads share three status bits' worth of state (app_CB.Status) *)
(* and two semaphores.  The spawn thread has the higher priority, but it   *)
(* blocks in UART_PRINT between setting a bit and posting the semaphore,   *)
(* so the main thread can run in between.                                  *)
(***************************************************************************)
EXTENDS Integers, Sequences

CONSTANTS
  Gateways,      (* gateway addresses an access point may hand out           *)
  NoAddr,        (* the zero address                                         *)
  SemMax,        (* SEM_VALUE_MAX: sem_post fails, and nobody looks, beyond  *)
  EventMax,      (* bound: events the NWP has raised and the host not read   *)
  MaxDrops,      (* bound: how often the access point drops the station      *)
  TimeoutsRace   (* TRUE: WLAN_EVENT_TOUT may expire while the NWP is still  *)
                 (* about to raise the event; FALSE: only once no event will *)
                 (* come any more                                            *)

ASSUME ApConnectAssumption ==
  /\ Gateways # {} /\ NoAddr \notin Gateways
  /\ SemMax \in Nat \ {0} /\ EventMax \in Nat \ {0} /\ MaxDrops \in Nat
  /\ TimeoutsRace \in BOOLEAN

VARIABLES
  link,          (* NWP: down, joining, associated, leased                   *)
  events,        (* events raised by the NWP and not yet handled, in order   *)
  drops,         (* how often the access point has dropped the station       *)
  connected,     (* STATUS_BIT_CONNECTION of app_CB.Status                   *)
  ipAcquired,    (* STATUS_BIT_IP_ACQUIRED of app_CB.Status                  *)
  gatewayIP,     (* app_CB.CON_CB.GatewayIP                                  *)
  connectSem,    (* app_CB.CON_CB.connectEventSyncObj                        *)
  ip4Sem,        (* app_CB.CON_CB.ip4acquireEventSyncObj                     *)
  spawn,         (* where the spawn thread is in an event handler            *)
  pc,            (* where the main thread is                                 *)
  role,          (* app_CB.Role                                              *)
  statusArg,     (* the argument status of handle_wifi_disconnection: its    *)
                 (* STATUS_BIT_CONNECTION at the time of the call            *)
  heard          (* history: a CONNECT event was handled since the last      *)
                 (* sl_WlanConnect                                           *)

nwpVars    == <<link, events, drops>>
statusVars == <<connected, ipAcquired, gatewayIP>>
semVars    == <<connectSem, ip4Sem>>
mainVars   == <<pc, role, statusArg>>
apVars     == <<nwpVars, statusVars, semVars, spawn, mainVars, heard>>

LinkStates   == {"down", "joining", "associated", "leased"}
Events       == {"CONNECT", "IPV4_ACQUIRED", "DISCONNECT"}
SpawnPoints  == {"idle", "postConnect", "postIp4"}
Roles        == {"STA", "AP", "P2P"}

\* Control points of connectToAP ...
ConnectPoints == {"checkRole", "join", "checkConnected", "waitConnect",
                  "timedOut", "hangUp", "drain", "checkIp", "waitIp4"}
\* ... and how it leaves them: return 0 and return -1.
ReturnPoints == {"connectedToAp", "connectFailed"}

Associated == link \in {"associated", "leased"}
Room       == Len(events) < EventMax
Raise(e)   == events' = Append(events, e)

\* Mutant: a semaphore without its maximum.
PostUnbounded(n) == n + 1

Post(n) == IF n < SemMax THEN n + 1 ELSE n

GoTo(from, to) == pc = from /\ pc' = to

ApInit ==
  /\ link = "down" /\ events = <<>> /\ drops = 0
  /\ connected = FALSE /\ ipAcquired = FALSE /\ gatewayIP = NoAddr
  /\ connectSem = 0 /\ ip4Sem = 0
  /\ spawn = "idle"
  /\ role \in Roles /\ statusArg = FALSE
  /\ heard = FALSE

-----------------------------------------------------------------------------
(* The network processor and the access point. *)

Associate ==
  /\ link = "joining" /\ Room
  /\ link' = "associated"
  /\ Raise("CONNECT")
  /\ UNCHANGED <<drops, statusVars, semVars, spawn, mainVars, heard>>

Lease ==
  /\ link = "associated" /\ Room
  /\ link' = "leased"
  /\ Raise("IPV4_ACQUIRED")
  /\ UNCHANGED <<drops, statusVars, semVars, spawn, mainVars, heard>>

Drop ==
  /\ Associated /\ Room /\ drops < MaxDrops
  /\ link' = "down"
  /\ drops' = drops + 1
  /\ Raise("DISCONNECT")
  /\ UNCHANGED <<statusVars, semVars, spawn, mainVars, heard>>

\* No event the main thread may be waiting for is still on its way.
NothingComing == link = "down" /\ events = <<>> /\ spawn = "idle"

MayTimeOut == TimeoutsRace \/ NothingComing

\* sl_WlanConnect: joins when the station is down, and otherwise leaves what
\* it has going; sl_WlanDisconnect: fails when there is nothing to leave.
WlanConnect == link' = IF link = "down" THEN "joining" ELSE link

WlanDisconnect ==
  /\ link # "down" /\ Room
  /\ link' = "down"
  /\ IF Associated THEN Raise("DISCONNECT") ELSE UNCHANGED events

-----------------------------------------------------------------------------
(* The spawn thread: SimpleLinkWlanEventHandler, SimpleLinkNetAppEventHandler *)

Handle(e) ==
  /\ spawn = "idle" /\ events # <<>> /\ Head(events) = e
  /\ events' = Tail(events)
  /\ UNCHANGED <<link, drops, semVars, mainVars>>

HandleConnect ==
  /\ Handle("CONNECT")
  /\ connected' = TRUE
  /\ spawn' = "postConnect"
  /\ heard' = TRUE
  /\ UNCHANGED <<ipAcquired, gatewayIP>>

PostConnect ==
  /\ spawn = "postConnect"
  /\ connectSem' = Post(connectSem)
  /\ spawn' = "idle"
  /\ UNCHANGED <<nwpVars, statusVars, ip4Sem, mainVars, heard>>

HandleIp4Acquired ==
  /\ Handle("IPV4_ACQUIRED")
  /\ ipAcquired' = TRUE
  /\ gatewayIP' \in Gateways
  /\ spawn' = "postIp4"
  /\ UNCHANGED <<connected, heard>>

PostIp4 ==
  /\ spawn = "postIp4"
  /\ ip4Sem' = Post(ip4Sem)
  /\ spawn' = "idle"
  /\ UNCHANGED <<nwpVars, statusVars, connectSem, mainVars, heard>>

\* Mutants: the handler clears only one bit, as the one of P2P_DISCONNECT does
\* (network_terminal.c:455), or only the other.
HandleDisconnectKeepsIp ==
  /\ Handle("DISCONNECT")
  /\ connected' = FALSE
  /\ UNCHANGED <<ipAcquired, gatewayIP, spawn, heard>>

HandleDisconnectKeepsConnection ==
  /\ Handle("DISCONNECT")
  /\ ipAcquired' = FALSE
  /\ UNCHANGED <<connected, gatewayIP, spawn, heard>>

HandleDisconnect ==
  /\ Handle("DISCONNECT")
  /\ connected' = FALSE /\ ipAcquired' = FALSE
  /\ UNCHANGED <<gatewayIP, spawn, heard>>

SpawnThread ==
  HandleConnect \/ PostConnect \/ HandleIp4Acquired \/ PostIp4 \/ HandleDisconnect

-----------------------------------------------------------------------------
(* The main thread inside connectToAP. *)

\* Lines 62-75: leave any other role first; each of the three calls may fail.
CheckRole ==
  /\ \/ /\ GoTo("checkRole", "join")
        /\ role' = "STA"
     \/ /\ role # "STA"
        /\ GoTo("checkRole", "connectFailed")
        /\ UNCHANGED role
  /\ UNCHANGED <<nwpVars, statusVars, semVars, spawn, statusArg, heard>>

Join ==
  /\ \/ GoTo("join", "checkConnected") /\ WlanConnect
     \/ GoTo("join", "connectFailed") /\ UNCHANGED link
  /\ heard' = FALSE
  /\ UNCHANGED <<events, drops, statusVars, semVars, spawn, role, statusArg>>

CheckConnected ==
  /\ GoTo("checkConnected", IF connected THEN "checkIp" ELSE "waitConnect")
  /\ UNCHANGED <<nwpVars, statusVars, semVars, spawn, role, statusArg, heard>>

WaitConnect ==
  /\ connectSem > 0
  /\ GoTo("waitConnect", "checkIp")
  /\ connectSem' = connectSem - 1
  /\ UNCHANGED <<nwpVars, statusVars, ip4Sem, spawn, role, statusArg, heard>>

WaitConnectTimeout ==
  /\ connectSem = 0 /\ MayTimeOut
  /\ GoTo("waitConnect", "timedOut")
  /\ UNCHANGED <<nwpVars, statusVars, semVars, spawn, role, statusArg, heard>>

\* The call handle_wifi_disconnection(app_CB.Status) copies the status ...
CopyStatus ==
  /\ GoTo("timedOut", "hangUp")
  /\ statusArg' = connected
  /\ UNCHANGED <<nwpVars, statusVars, semVars, spawn, role, heard>>

\* Mutant: a disconnect that fails is tried again.
HangUpRetries ==
  /\ \/ GoTo("hangUp", "drain") /\ WlanDisconnect
     \/ GoTo("hangUp", "hangUp") /\ ~Associated /\ UNCHANGED <<link, events>>
  /\ UNCHANGED <<drops, statusVars, semVars, spawn, role, statusArg, heard>>

\* ... which calls sl_WlanDisconnect ...
HangUp ==
  /\ \/ GoTo("hangUp", "drain") /\ WlanDisconnect
     \/ GoTo("hangUp", "join") /\ ~Associated /\ UNCHANGED <<link, events>>
  /\ UNCHANGED <<drops, statusVars, semVars, spawn, role, statusArg, heard>>

\* ... and then sleeps for as long as its copy says that it is connected.
Drain ==
  /\ pc = "drain"
  /\ pc' = IF statusArg THEN "drain" ELSE "join"
  /\ UNCHANGED <<nwpVars, statusVars, semVars, spawn, role, statusArg, heard>>

CheckIp ==
  /\ GoTo("checkIp", IF ipAcquired THEN "connectedToAp" ELSE "waitIp4")
  /\ UNCHANGED <<nwpVars, statusVars, semVars, spawn, role, statusArg, heard>>

\* Signalled or timed out, the loop starts over with another sl_WlanConnect.
WaitIp4 ==
  /\ \/ ip4Sem > 0 /\ ip4Sem' = ip4Sem - 1
     \/ ip4Sem = 0 /\ MayTimeOut /\ UNCHANGED ip4Sem
  /\ GoTo("waitIp4", "join")
  /\ UNCHANGED <<nwpVars, statusVars, connectSem, spawn, role, statusArg, heard>>

ConnectToAP ==
  \/ CheckRole \/ Join \/ CheckConnected \/ WaitConnect \/ WaitConnectTimeout
  \/ CopyStatus \/ HangUp \/ Drain \/ CheckIp \/ WaitIp4

Environment == Associate \/ Lease \/ Drop

-----------------------------------------------------------------------------
(* connectToAP on its own, called again and again as test_time_beac_sync    *)
(* does: a call that failed ends the program, after one that succeeded the  *)
(* caller uses the link and leaves it.                                      *)

Call ==
  /\ GoTo("idle", "checkRole")
  /\ UNCHANGED <<nwpVars, statusVars, semVars, spawn, role, statusArg, heard>>

Leave ==
  /\ \/ GoTo("connectedToAp", "idle") /\ WlanDisconnect
     \/ GoTo("connectedToAp", "stopped") /\ link = "down" /\ UNCHANGED <<link, events>>
     \/ GoTo("connectFailed", "stopped") /\ UNCHANGED <<link, events>>
  /\ UNCHANGED <<drops, statusVars, semVars, spawn, role, statusArg, heard>>

\* mainThread has returned; the spawn thread and the NWP go on.
Exited == pc = "stopped" /\ UNCHANGED apVars

ApNext == Environment \/ SpawnThread \/ ConnectToAP \/ Call \/ Leave \/ Exited

\* test_time_beac_sync, about to call connectToAP for the first time.
ApStart == ApInit /\ pc = "idle"

ApSpec == ApStart /\ [][ApNext]_apVars

\* The main and the spawn thread are scheduled, and an access point that is in
\* range answers.  Drop is not fair: nothing makes the access point drop.
NwpFairness == WF_apVars(Associate) /\ WF_apVars(Lease)

ApFairSpec ==
  ApSpec /\ NwpFairness /\ WF_apVars(SpawnThread) /\ WF_apVars(ConnectToAP \/ Leave)

-----------------------------------------------------------------------------
(* Properties *)

ApTypeOK ==
  /\ link \in LinkStates
  /\ events \in Seq(Events) /\ Len(events) <= EventMax
  /\ drops \in 0..MaxDrops
  /\ connected \in BOOLEAN /\ ipAcquired \in BOOLEAN
  /\ gatewayIP \in Gateways \cup {NoAddr}
  /\ connectSem \in 0..SemMax /\ ip4Sem \in 0..SemMax
  /\ spawn \in SpawnPoints
  /\ role \in Roles
  /\ statusArg \in BOOLEAN
  /\ heard \in BOOLEAN

ConnectTypeOK == ApTypeOK /\ pc \in ConnectPoints \cup ReturnPoints \cup {"idle", "stopped"}

\* The NWP raises its events in the order its link goes through, whatever the
\* threads do: the last event says where the link is, and neighbours fit.
MayFollow(e, f) ==
  \/ e = "CONNECT" /\ f \in {"IPV4_ACQUIRED", "DISCONNECT"}
  \/ e = "IPV4_ACQUIRED" /\ f = "DISCONNECT"
  \/ e = "DISCONNECT" /\ f = "CONNECT"

\* The status bits are where the events handled so far left the link.
BitsBefore(e) ==
  /\ e = "CONNECT"       => ~connected /\ ~ipAcquired
  /\ e = "IPV4_ACQUIRED" => connected /\ ~ipAcquired
  /\ e = "DISCONNECT"    => connected

LinkAfter(e) ==
  /\ e = "CONNECT"       => link = "associated"
  /\ e = "IPV4_ACQUIRED" => link = "leased"
  /\ e = "DISCONNECT"    => ~Associated

EventsTrackLink ==
  /\ \A i \in 1..(Len(events) - 1) : MayFollow(events[i], events[i + 1])
  /\ events # <<>> => LinkAfter(events[Len(events)])
  /\ events # <<>> => BitsBefore(Head(events))

\* Once the spawn thread has caught up, app_CB.Status is the state of the link:
\* no order of events, posts and calls leaves a stale bit behind.
StatusConverges ==
  events = <<>> => /\ connected <=> Associated
                   /\ ipAcquired <=> link = "leased"

\* A board that believes it has an address also believes it is connected, and
\* knows the gateway it will use as its server.
IpImpliesConnected == ipAcquired => connected /\ gatewayIP \in Gateways

\* app_CB and the link: queued events and bits together are the history of the link, so
\* that no order of the spawn thread's steps, timeouts and drops leaves a bit standing.
LinkStatus == EventsTrackLink /\ StatusConverges /\ IpImpliesConnected

\* connectToAP returns 0 only for a link that has its address, or whose loss is
\* already on its way to the handlers.
LossPending == \E i \in 1..Len(events) : events[i] = "DISCONNECT"

SuccessMeansLeased ==
  [][pc = "checkIp" /\ pc' = "connectedToAp" => link = "leased" \/ LossPending]_apVars

\* A call of connectToAP returns, whatever the access point drops, as long as
\* the timeouts are longer than the NWP takes.
ConnectReturns == pc = "checkRole" ~> pc \in ReturnPoints

\* ap_connection.c:158, "Wait Till gets disconnected successfully..": the wait
\* of handle_wifi_disconnection ends once the disconnection has happened.
DisconnectWaitEnds == pc = "drain" ~> pc # "drain"

\* ap_connection.c:89-95: the main thread pends on the Connected event, which is
\* signalled once the NWP has connected.  A wait that succeeds has waited for
\* the connection it asked for.
PendsOnThisConnection ==
  [][pc = "waitConnect" /\ pc' = "checkIp" => heard]_apVars

=============================================================================
