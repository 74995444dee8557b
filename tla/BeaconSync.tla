----------------------------- MODULE BeaconSync -----------------------------
(***************************************************************************)
(* test_time_beac_sync and enter_tranceiver_mode of ap_connection.c, the   *)
(* program the board runs.  The radio is used in one of two ways: the      *)
(* board listens to the access point's beacons on a raw socket, without    *)
(* being connected, and stores their timestamps in a ring; or it leaves    *)
(* that mode, connects to the access point (ApConnect), sends the ring to  *)
(* the server over TCP, disconnects and listens again.                     *)
(*                                                                         *)
(* A slot of the ring stands for the pair timestamps[0][i],                *)
(* timestamps[1][i]; both halves are written together and only the beacon  *)
(* timestamp is kept here.  The text sent to the server is a sequence of   *)
(* slots.  A poll that finds no beacon (EAGAIN) or the last one again, and *)
(* a connect that is still under way (EALREADY), change nothing: the loops *)
(* continue, and these steps are left out.                                 *)
(***************************************************************************)
EXTENDS ApConnect

CONSTANTS
  NumReadings,   (* NUM_READINGS: slots of the ring                          *)
  SendInterval,  (* send_interval: milliseconds between two uploads          *)
  TsPerMs,       (* timestamp units in a millisecond: 1000                   *)
  TsMod,         (* a timestamp is a uint32_t of microseconds: 2^32          *)
  Unset,         (* what a slot holds that was never written                 *)
  TsfResets      (* TRUE: the access point's timer may wrap or start over    *)

ASSUME BeaconSyncAssumption ==
  /\ NumReadings \in Nat \ {0} /\ SendInterval \in Nat \ {0}
  /\ TsPerMs \in Nat \ {0} /\ TsMod \in Nat \ {0}
  /\ Unset \notin 0..(TsMod - 1)
  /\ TsfResets \in BOOLEAN

VARIABLES
  rfSock,        (* beaconRxSock: closed, open, or failed (-1)               *)
  tcpSock,       (* tcp_sock: closed, open, connected                        *)
  sAddr,         (* sAddr.in4.sin_addr.s_addr                                *)
  slots,         (* timestamps                                               *)
  index,         (* current_ts_index                                         *)
  frameTs,       (* frameInfo.timestamp                                      *)
  lastTs,        (* last_beac_ts                                             *)
  sendTs,        (* send_beac_ts                                             *)
  sent,          (* sent_bytes                                               *)
  stream         (* what the server has received on the open connection      *)

ringVars   == <<slots, index, frameTs, lastTs, sendTs>>
uploadVars == <<tcpSock, sAddr, sent, stream>>
syncVars   == <<rfSock, uploadVars, ringVars>>
vars       == <<apVars, syncVars>>

\* The variables of ApConnect a step of the caller leaves alone, apart from pc.
otherApVars == <<nwpVars, statusVars, semVars, spawn, role, statusArg, heard>>

\* Control points outside connectToAP.  "checkRole" is the call of connectToAP.
SyncPoints == {"enter", "listen", "closing", "closeRf", "tcpConnect", "send",
               "closeTcp", "leave", "reenter", "stopped"}

Timestamps == 0..(TsMod - 1)
Ms(ts)     == ts \div TsPerMs

\* Mutant: the index runs past the last slot.
NextIndexUnwrapped(i) == i + 1

NextIndex(i) == (i + 1) % NumReadings

\* Mutant: the slots as they are stored.
RingFromZero == [i \in 1..NumReadings |-> slots[i - 1]]

\* ts_to_string: from current_ts_index to the end, then from 0 up to it.
Ring == [i \in 1..NumReadings |-> slots[(index + i - 1) % NumReadings]]

Init ==
  /\ ApInit
  /\ pc = "enter"
  /\ rfSock = "closed" /\ tcpSock = "closed" /\ sAddr = NoAddr
  /\ slots = [i \in 0..(NumReadings - 1) |-> Unset]
  /\ index = 0 /\ frameTs = 0 /\ lastTs = 0 /\ sendTs = 0
  /\ sent = 0 /\ stream = <<>>

-----------------------------------------------------------------------------
(* Listening. *)

\* enter_tranceiver_mode: any of its calls may fail, and then it returns -1
\* with no socket open.
EnterTransceiverMode == rfSock' \in {"open", "failed"}

Enter ==
  /\ GoTo("enter", "listen")
  /\ EnterTransceiverMode
  /\ UNCHANGED <<otherApVars, uploadVars, ringVars>>

\* sl_Recv fails, always so on the socket -1: the loop ends.
ReceiveError ==
  /\ GoTo("listen", "closing")
  /\ UNCHANGED <<otherApVars, syncVars>>

\* The timer of the access point only goes forward, unless it wraps or restarts.
MayHear(ts) == ts # lastTs /\ (TsfResets \/ ts > lastTs)

FirstDeadline(ts) == SendInterval + (Ms(ts) - (Ms(ts) % SendInterval))

ReceiveBeacon(ts) ==
  /\ pc = "listen" /\ rfSock = "open"
  /\ MayHear(ts)
  /\ frameTs' = ts
  /\ slots' = [slots EXCEPT ![index] = ts]
  /\ index' = NextIndex(index)
  /\ sendTs' = IF sendTs = 0 THEN FirstDeadline(ts) ELSE sendTs
  /\ IF Ms(ts) >= sendTs'
     THEN pc' = "closeRf" /\ UNCHANGED lastTs
     ELSE pc' = "listen" /\ lastTs' = ts
  /\ UNCHANGED <<otherApVars, rfSock, uploadVars>>

\* The close after the loop; closing the socket -1 fails.
CloseAfterLoop ==
  /\ GoTo("closing", "stopped")
  /\ rfSock' \in IF rfSock = "open" THEN {"open", "closed"} ELSE {rfSock}
  /\ UNCHANGED <<otherApVars, uploadVars, ringVars>>

-----------------------------------------------------------------------------
(* Uploading. *)

CloseRf ==
  /\ \/ GoTo("closeRf", "checkRole") /\ rfSock' = "closed"
     \/ GoTo("closeRf", "stopped") /\ UNCHANGED rfSock
  /\ UNCHANGED <<otherApVars, uploadVars, ringVars>>

\* connectToAP has returned.  The server is the gateway of the first connection.
OpenTcp ==
  /\ \/ /\ pc = "connectedToAp"
        /\ sAddr' = IF sAddr = NoAddr THEN gatewayIP ELSE sAddr
        /\ \/ pc' = "tcpConnect" /\ tcpSock' = "open"
           \/ pc' = "stopped" /\ UNCHANGED tcpSock
     \/ GoTo("connectFailed", "stopped") /\ UNCHANGED <<sAddr, tcpSock>>
  /\ UNCHANGED <<otherApVars, rfSock, sent, stream, ringVars>>

ConnectTcp ==
  /\ \/ GoTo("tcpConnect", "send") /\ tcpSock' = "connected" /\ sent' = 0 /\ stream' = <<>>
     \/ GoTo("tcpConnect", "stopped") /\ tcpSock' = "closed" /\ UNCHANGED <<sent, stream>>
  /\ UNCHANGED <<otherApVars, rfSock, sAddr, ringVars>>

\* sl_Send takes n slots, always from the start of Tx_data.
Send(n) ==
  /\ pc = "send" /\ sent + n <= NumReadings
  /\ sent' = sent + n
  /\ stream' = stream \o SubSeq(Ring, 1, n)
  /\ pc' = IF sent' < NumReadings THEN "send" ELSE "closeTcp"
  /\ UNCHANGED <<otherApVars, rfSock, tcpSock, sAddr, ringVars>>

SendError ==
  /\ GoTo("send", "closeTcp")
  /\ UNCHANGED <<otherApVars, syncVars>>

CloseTcp ==
  /\ \/ GoTo("closeTcp", "leave") /\ tcpSock' = "closed"
     \/ GoTo("closeTcp", "stopped") /\ UNCHANGED tcpSock
  /\ UNCHANGED <<otherApVars, rfSock, sAddr, sent, stream, ringVars>>

\* Mutant: the board goes back to its raw socket without disconnecting.
LeaveApConnected ==
  /\ GoTo("leave", "reenter")
  /\ UNCHANGED <<otherApVars, syncVars>>

LeaveAp ==
  /\ \/ GoTo("leave", "reenter") /\ WlanDisconnect
     \/ GoTo("leave", "stopped") /\ link = "down" /\ UNCHANGED <<link, events>>
  /\ UNCHANGED <<drops, statusVars, semVars, spawn, role, statusArg, heard, syncVars>>

\* Mutant: a continue where the loop ends, so that last_beac_ts is not set.
ReenterContinue ==
  /\ GoTo("reenter", "listen")
  /\ EnterTransceiverMode
  /\ sendTs' = sendTs + SendInterval
  /\ UNCHANGED <<otherApVars, uploadVars, slots, index, frameTs, lastTs>>

Reenter ==
  /\ GoTo("reenter", "listen")
  /\ EnterTransceiverMode
  /\ sendTs' = sendTs + SendInterval
  /\ lastTs' = frameTs
  /\ UNCHANGED <<otherApVars, uploadVars, slots, index, frameTs>>

-----------------------------------------------------------------------------
Listening ==
  Enter \/ ReceiveError \/ (\E ts \in Timestamps : ReceiveBeacon(ts)) \/ CloseAfterLoop

Uploading ==
  CloseRf \/ OpenTcp \/ ConnectTcp \/ (\E n \in 1..NumReadings : Send(n))
  \/ SendError \/ CloseTcp \/ LeaveAp \/ Reenter

\* connectToAP, the spawn thread and the NWP, which know nothing of the rest.
Connecting == (ConnectToAP \/ SpawnThread \/ Environment) /\ UNCHANGED syncVars

Done == pc = "stopped" /\ UNCHANGED vars

Next == Listening \/ Uploading \/ Connecting \/ Done

Spec == Init /\ [][Next]_vars

\* The threads are scheduled, every call returns, and the NWP answers.  Nothing
\* makes a beacon arrive.
Fairness ==
  /\ WF_vars(Uploading \/ (ConnectToAP /\ UNCHANGED syncVars))
  /\ WF_vars(SpawnThread /\ UNCHANGED syncVars)
  /\ WF_vars(Associate /\ UNCHANGED syncVars)
  /\ WF_vars(Lease /\ UNCHANGED syncVars)

FairSpec == Spec /\ Fairness

-----------------------------------------------------------------------------
(* Properties *)

SyncTypeOK ==
  /\ pc \in SyncPoints \cup ConnectPoints \cup ReturnPoints
  /\ rfSock \in {"closed", "open", "failed"}
  /\ tcpSock \in {"closed", "open", "connected"}
  /\ sAddr \in Gateways \cup {NoAddr}
  /\ slots \in [0..(NumReadings - 1) -> Timestamps \cup {Unset}]
  /\ index \in 0..(NumReadings - 1)
  /\ frameTs \in Timestamps /\ lastTs \in Timestamps
  /\ sendTs \in Nat
  /\ sent \in 0..NumReadings
  /\ stream \in Seq(Timestamps \cup {Unset})

TypeOK == ApTypeOK /\ SyncTypeOK

\* ap_connection.c:1427: in transceiver mode the device must be disconnected.  No
\* order of events, drops, timeouts and failed calls opens the raw socket while
\* the station has a link or is about to get one, or leaves a TCP socket behind.
RadioExclusive == rfSock = "open" => link = "down" /\ tcpSock = "closed"

\* The upload goes to an address: connectToAP returning 0 means that the gateway
\* was stored before.
ServerKnown == pc \in {"tcpConnect", "send"} => sAddr \in Gateways

\* Neighbouring readings differ: a beacon is never stored twice, not even the one
\* that started an upload when it is heard again after it.
ReadingsDistinct ==
  \A i \in 1..(NumReadings - 1) : Ring[i] = Ring[i + 1] => Ring[i] = Unset

\* As long as the timer of the access point goes forward, the ring is in order,
\* and the next deadline is at most an interval away from the last beacon.
WindowIncreasing ==
  ~TsfResets => \A i, j \in 1..NumReadings :
                  i < j /\ Ring[i] # Unset => Ring[j] # Unset /\ Ring[i] < Ring[j]

DeadlineNear ==
  ~TsfResets /\ pc = "listen" /\ sendTs # 0 => sendTs <= Ms(lastTs) + SendInterval

\* The ring and the deadline together, over any number of uploads.
RingInOrder == WindowIncreasing /\ DeadlineNear

\* The readings are the sliding window of the abstract recorder.
Mode == IF pc \in {"enter", "listen", "closing"} THEN "listening"
        ELSE IF pc = "stopped" THEN "stopped" ELSE "uploading"

Recorder == INSTANCE SyncRecorder WITH mode <- Mode, window <- Ring, due <- sendTs

RecordsWindow == Recorder!RecorderSpec

\* Every upload that is started ends: the board listens again or gives up.
UploadEnds == pc = "closeRf" ~> pc \in {"listen", "stopped"}

\* ap_connection.c:1016, "done sending time sync data and disconnected from AP":
\* when the board says so and sent_bytes says that every byte was sent, the server
\* has what ts_to_string wrote.
CountedMeansSent == pc = "reenter" /\ sent = NumReadings => stream = Ring

=============================================================================
