-------------------------- MODULE BeaconSyncProofs --------------------------
(***************************************************************************)
(* Proofs about ApConnect and about BeaconSync, which calls it, for every  *)
(* set of gateways, every size of the ring, interval and timestamp range:  *)
(* the status bits follow the link, connectToAP reports success only for a *)
(* link that has its address or whose loss is already on its way, the two  *)
(* uses of the radio exclude each other, and the ring implements the       *)
(* sliding window of SyncRecorder.                                         *)
(*                                                                         *)
(* The step lemmas about ApConnect speak of one action at a time and leave *)
(* pc out, so that connectToAP with its caller uses them as well.          *)
(***************************************************************************)
EXTENDS BeaconSync, SequenceTheorems, TLAPS

-----------------------------------------------------------------------------
(* ApConnect. *)

\* The inductive invariant.  StatusConverges says nothing while events are on
\* their way; EventsTrackLink carries it through the queue.
ApInv ==
  /\ ApTypeOK
  /\ EventsTrackLink
  /\ StatusConverges
  /\ ipAcquired => gatewayIP \in Gateways

\* What every action that raises no event and handles none leaves alone.
\* sl_WlanConnect may still take the link from down to joining.
ApQuiet ==
  /\ UNCHANGED <<events, drops, connected, ipAcquired, gatewayIP>>
  /\ link' = link \/ (link = "down" /\ link' = "joining")

\* A step that raises no event and handles none keeps the chain of events.
LEMMA QuietStep ==
  ASSUME ApInv, ApTypeOK', ApQuiet
  PROVE  ApInv'
BY DEF ApInv, ApQuiet, EventsTrackLink, StatusConverges, MayFollow,
       BitsBefore, LinkAfter, Associated

\* Raising an event the link is due keeps the queue in order.
LEMMA RaiseStep ==
  ASSUME ApInv, ApTypeOK', NEW e \in Events, Raise(e),
         UNCHANGED statusVars,
         LinkAfter(e)',
         e = "CONNECT" => ~Associated,
         e = "IPV4_ACQUIRED" => link = "associated",
         e = "DISCONNECT" => Associated
  PROVE  ApInv'
<1> USE DEF ApInv, ApTypeOK, Raise, statusVars, Associated
<1>1. events' # <<>> /\ events'[Len(events')] = e /\ Len(events') = Len(events) + 1
  OBVIOUS
<1>2. \A i \in 1..Len(events) : events'[i] = events[i]
  OBVIOUS
<1>3. ASSUME NEW i \in 1..(Len(events') - 1)
      PROVE  MayFollow(events'[i], events'[i + 1])
  <2>1. CASE i < Len(events)
    BY <1>1, <1>2, <2>1 DEF EventsTrackLink
  <2>2. CASE i = Len(events)
    <3>1. events # <<>> /\ events'[i] = events[Len(events)] /\ events'[i + 1] = e
      BY <1>1, <1>2, <2>2
    <3>2. LinkAfter(events[Len(events)]) /\ events[Len(events)] \in Events
      BY <3>1 DEF EventsTrackLink
    <3> QED BY <3>1, <3>2 DEF LinkAfter, MayFollow, Events
  <2> QED BY <1>1, <2>1, <2>2
<1>4. BitsBefore(Head(events))'
  <2>1. CASE events = <<>>
    BY <2>1, Head(events') = e DEF StatusConverges, BitsBefore
  <2>2. CASE events # <<>>
    BY <2>2, Head(events') = Head(events) DEF EventsTrackLink, BitsBefore
  <2> QED BY <2>1, <2>2
<1> QED BY <1>1, <1>3, <1>4 DEF EventsTrackLink, StatusConverges

\* What the tail of a queue holds.
LEMMA TailFacts ==
  ASSUME NEW S, NEW s \in Seq(S), s # <<>>
  PROVE  /\ Len(s) >= 1 /\ Head(s) = s[1] /\ Tail(s) \in Seq(S)
         /\ Len(Tail(s)) = Len(s) - 1
         /\ \A i \in 1..Len(Tail(s)) : Tail(s)[i] = s[i + 1]
         /\ Tail(s) = <<>> <=> Len(s) = 1
         /\ Tail(s) # <<>> => Head(Tail(s)) = s[2]
<1>1. /\ Len(s) >= 1 /\ Head(s) = s[1] /\ Tail(s) \in Seq(S)
      /\ Len(Tail(s)) = Len(s) - 1
      /\ \A i \in 1..Len(Tail(s)) : Tail(s)[i] = s[i + 1]
  OBVIOUS
<1>2. Tail(s) = <<>> <=> Len(Tail(s)) = 0
  BY <1>1, EmptySeq, SeqEqual
<1>3. Tail(s) # <<>> => Head(Tail(s)) = Tail(s)[1] /\ Len(Tail(s)) >= 1
  BY <1>1
<1> QED BY <1>1, <1>2, <1>3

\* Handling the first event takes the bits where that event left the link.
LEMMA HandleStep ==
  ASSUME ApInv, ApTypeOK', NEW e \in Events,
         events # <<>>, Head(events) = e, events' = Tail(events),
         UNCHANGED <<link, drops>>,
         e = "CONNECT" => connected' /\ UNCHANGED <<ipAcquired, gatewayIP>>,
         e = "IPV4_ACQUIRED" =>
           ipAcquired' /\ gatewayIP' \in Gateways /\ UNCHANGED connected,
         e = "DISCONNECT" => ~connected' /\ ~ipAcquired' /\ UNCHANGED gatewayIP
  PROVE  ApInv'
<1> USE DEF ApInv, ApTypeOK, Associated
<1>1. /\ Len(events) >= 1 /\ events[1] = e
      /\ Len(events') = Len(events) - 1
      /\ \A i \in 1..Len(events') : events'[i] = events[i + 1]
      /\ events' = <<>> <=> Len(events) = 1
      /\ events' # <<>> => Head(events') = events[2]
  BY TailFacts
<1>2. BitsBefore(e)
  BY DEF EventsTrackLink
<1>3. \A i \in 1..(Len(events') - 1) : MayFollow(events'[i], events'[i + 1])
  BY <1>1 DEF EventsTrackLink
<1>4. CASE Len(events) = 1
  <2>1. LinkAfter(e)
    BY <1>1, <1>4 DEF EventsTrackLink
  <2>2. StatusConverges'
    BY <1>2, <2>1 DEF StatusConverges, LinkAfter, BitsBefore, Events
  <2> QED BY <1>1, <1>2, <1>4, <2>2 DEF EventsTrackLink, BitsBefore, Events
<1>5. CASE Len(events) > 1
  <2>1. /\ events' # <<>> /\ Head(events') = events[2]
        /\ events'[Len(events')] = events[Len(events)]
    BY <1>1, <1>5
  <2>2. MayFollow(e, events[2])
    BY <1>1, <1>5 DEF EventsTrackLink
  <2>3. BitsBefore(Head(events))'
    BY <1>2, <2>1, <2>2 DEF MayFollow, BitsBefore, Events
  <2>4. LinkAfter(events[Len(events)])'
    BY <2>1 DEF EventsTrackLink, LinkAfter
  <2> QED BY <1>2, <1>3, <2>1, <2>3, <2>4 DEF EventsTrackLink, StatusConverges, BitsBefore, Events
<1> QED BY <1>1, <1>4, <1>5

\* Leaving the access point: an event if the station was associated.
LEMMA DisconnectStep ==
  ASSUME ApInv, ApTypeOK', WlanDisconnect, UNCHANGED <<drops, statusVars>>
  PROVE  ApInv'
<1>1. CASE Associated
  <2>1. Raise("DISCONNECT") /\ ~Associated'
    BY <1>1 DEF WlanDisconnect, Associated
  <2> QED BY <1>1, <2>1, RaiseStep DEF Events, LinkAfter, Associated
<1>2. CASE ~Associated
  BY <1>2 DEF WlanDisconnect, ApInv, EventsTrackLink, StatusConverges, MayFollow,
              BitsBefore, LinkAfter, Associated, statusVars
<1> QED BY <1>1, <1>2

-----------------------------------------------------------------------------
(* Type correctness, one thread at a time. *)

\* Steps of the NWP and the access point keep the types and the bound of the queue.
LEMMA EnvironmentType == ApTypeOK /\ Environment => ApTypeOK'
<1> SUFFICES ASSUME ApTypeOK, Environment PROVE ApTypeOK' OBVIOUS
<1>0. /\ "CONNECT" \in Events /\ "IPV4_ACQUIRED" \in Events /\ "DISCONNECT" \in Events
      /\ \A e \in Events : Room => /\ Append(events, e) \in Seq(Events)
                                   /\ Len(Append(events, e)) <= EventMax
  BY AppendProperties, ApConnectAssumption DEF Events, Room, ApTypeOK
<1> USE <1>0, ApConnectAssumption DEF ApTypeOK, LinkStates, Raise, mainVars, statusVars, semVars
<1>1. CASE Associate BY <1>1 DEF Associate
<1>2. CASE Lease BY <1>2 DEF Lease
<1>3. CASE Drop BY <1>3 DEF Drop
<1> QED BY <1>1, <1>2, <1>3 DEF Environment

\* Steps of the spawn thread and its handlers keep the types.
LEMMA SpawnType == ApTypeOK /\ SpawnThread => ApTypeOK'
<1> SUFFICES ASSUME ApTypeOK, SpawnThread PROVE ApTypeOK' OBVIOUS
<1> USE ApConnectAssumption DEF ApTypeOK, Handle, Post, SpawnPoints, nwpVars, mainVars, statusVars, semVars
<1>1. events # <<>> => Tail(events) \in Seq(Events) /\ Len(Tail(events)) <= EventMax
  BY TailFacts, LenProperties
<1>2. CASE HandleConnect BY <1>1, <1>2 DEF HandleConnect
<1>3. CASE PostConnect BY <1>3 DEF PostConnect
<1>4. CASE HandleIp4Acquired BY <1>1, <1>4 DEF HandleIp4Acquired
<1>5. CASE PostIp4 BY <1>5 DEF PostIp4
<1>6. CASE HandleDisconnect BY <1>1, <1>6 DEF HandleDisconnect
<1> QED BY <1>2, <1>3, <1>4, <1>5, <1>6 DEF SpawnThread

\* sl_WlanDisconnect finds room for its event.
LEMMA WlanDisconnectType ==
  ASSUME ApTypeOK, WlanDisconnect
  PROVE  link' \in LinkStates /\ events' \in Seq(Events) /\ Len(events') <= EventMax
<1>1. "DISCONNECT" \in Events
  BY DEF Events
<1>2. /\ Append(events, "DISCONNECT") \in Seq(Events)
      /\ Len(Append(events, "DISCONNECT")) <= EventMax
  BY <1>1, AppendProperties, LenProperties, ApConnectAssumption
     DEF ApTypeOK, WlanDisconnect, Room
<1> QED BY <1>2 DEF ApTypeOK, WlanDisconnect, Raise, LinkStates

\* Steps of connectToAP keep the types.
LEMMA ConnectType == ApTypeOK /\ ConnectToAP => ApTypeOK'
<1> SUFFICES ASSUME ApTypeOK, ConnectToAP PROVE ApTypeOK' OBVIOUS
<1> USE ApConnectAssumption DEF ApTypeOK, GoTo, nwpVars, statusVars, semVars
<1>1. CASE CheckRole BY <1>1 DEF CheckRole, Roles
<1>2. CASE Join BY <1>2 DEF Join, WlanConnect, LinkStates
<1>3. CASE CheckConnected BY <1>3 DEF CheckConnected
<1>4. CASE WaitConnect BY <1>4 DEF WaitConnect
<1>5. CASE WaitConnectTimeout BY <1>5 DEF WaitConnectTimeout
<1>6. CASE CopyStatus BY <1>6 DEF CopyStatus
<1>7. CASE HangUp BY <1>7, WlanDisconnectType DEF HangUp
<1>8. CASE Drain BY <1>8 DEF Drain
<1>9. CASE CheckIp BY <1>9 DEF CheckIp
<1>10. CASE WaitIp4 BY <1>10 DEF WaitIp4
<1> QED BY <1>1, <1>2, <1>3, <1>4, <1>5, <1>6, <1>7, <1>8, <1>9, <1>10 DEF ConnectToAP

-----------------------------------------------------------------------------
(* The inductive invariant, one thread at a time. *)

\* An event that is raised extends the chain at its end.
LEMMA EnvironmentStep == ApInv /\ Environment => ApInv'
<1> SUFFICES ASSUME ApInv, Environment PROVE ApInv' OBVIOUS
<1>0. ApTypeOK'
  BY EnvironmentType DEF ApInv
<1> USE DEF Events, LinkAfter, Associated, mainVars, statusVars, semVars
<1>1. CASE Associate BY <1>0, <1>1, RaiseStep DEF Associate
<1>2. CASE Lease BY <1>0, <1>2, RaiseStep DEF Lease
<1>3. CASE Drop BY <1>0, <1>3, RaiseStep DEF Drop
<1> QED BY <1>1, <1>2, <1>3 DEF Environment

\* An event that is handled leaves the chain at its front, and the bits follow it.
LEMMA SpawnStep == ApInv /\ SpawnThread => ApInv'
<1> SUFFICES ASSUME ApInv, SpawnThread PROVE ApInv' OBVIOUS
<1>0. ApTypeOK'
  BY SpawnType DEF ApInv
<1> USE DEF Events, mainVars, statusVars, semVars, nwpVars
<1>1. CASE HandleConnect BY <1>0, <1>1, HandleStep DEF HandleConnect, Handle
<1>2. CASE PostConnect BY <1>0, <1>2, QuietStep DEF PostConnect, ApQuiet
<1>3. CASE HandleIp4Acquired BY <1>0, <1>3, HandleStep DEF HandleIp4Acquired, Handle
<1>4. CASE PostIp4 BY <1>0, <1>4, QuietStep DEF PostIp4, ApQuiet
<1>5. CASE HandleDisconnect BY <1>0, <1>5, HandleStep DEF HandleDisconnect, Handle
<1> QED BY <1>1, <1>2, <1>3, <1>4, <1>5 DEF SpawnThread

\* connectToAP raises at most the event of hanging up.
LEMMA ConnectStep == ApInv /\ ConnectToAP => ApInv'
<1> SUFFICES ASSUME ApInv, ConnectToAP PROVE ApInv' OBVIOUS
<1>0. ApTypeOK'
  BY ConnectType DEF ApInv
<1> USE DEF ApQuiet, nwpVars, statusVars, semVars
<1>1. CASE CheckRole BY <1>0, <1>1, QuietStep DEF CheckRole
<1>2. CASE Join BY <1>0, <1>2, QuietStep DEF Join, WlanConnect
<1>3. CASE CheckConnected BY <1>0, <1>3, QuietStep DEF CheckConnected
<1>4. CASE WaitConnect BY <1>0, <1>4, QuietStep DEF WaitConnect
<1>5. CASE WaitConnectTimeout BY <1>0, <1>5, QuietStep DEF WaitConnectTimeout
<1>6. CASE CopyStatus BY <1>0, <1>6, QuietStep DEF CopyStatus
<1>7. CASE HangUp BY <1>0, <1>7, QuietStep, DisconnectStep DEF HangUp
<1>8. CASE Drain BY <1>0, <1>8, QuietStep DEF Drain
<1>9. CASE CheckIp BY <1>0, <1>9, QuietStep DEF CheckIp
<1>10. CASE WaitIp4 BY <1>0, <1>10, QuietStep DEF WaitIp4
<1> QED BY <1>1, <1>2, <1>3, <1>4, <1>5, <1>6, <1>7, <1>8, <1>9, <1>10 DEF ConnectToAP

\* The caller leaves the link and its history alone.
LEMMA CallerStep == ApInv /\ (Call \/ Leave \/ Exited) => ApInv'
<1> SUFFICES ASSUME ApInv, Call \/ Leave \/ Exited PROVE ApInv' OBVIOUS
<1> USE DEF ApQuiet, GoTo, nwpVars, statusVars, semVars
<1>1. CASE Call
  <2>1. ApTypeOK' BY <1>1 DEF Call, ApInv, ApTypeOK
  <2> QED BY <1>1, <2>1, QuietStep DEF Call
<1>2. CASE Leave
  <2>1. ApTypeOK' BY <1>2, WlanDisconnectType DEF Leave, ApInv, ApTypeOK
  <2> QED BY <1>2, <2>1, QuietStep, DisconnectStep DEF Leave
<1>3. CASE Exited
  <2>1. ApTypeOK' BY <1>3 DEF Exited, apVars, mainVars, ApInv, ApTypeOK
  <2> QED BY <1>3, <2>1, QuietStep DEF Exited, apVars
<1> QED BY <1>1, <1>2, <1>3

\* The invariant holds before the first call.
LEMMA InitInv == ApInit => ApInv
<1> SUFFICES ASSUME ApInit PROVE ApInv OBVIOUS
<1>1. events = <<>> /\ events \in Seq(Events) /\ Len(events) = 0
  BY EmptySeq DEF ApInit
<1>2. ApTypeOK
  <2>1. /\ Len(events) <= EventMax /\ 0 \in 0..SemMax /\ 0 \in 0..MaxDrops
    BY <1>1, ApConnectAssumption
  <2> QED BY <1>1, <2>1 DEF ApInit, ApTypeOK, LinkStates, SpawnPoints, Roles
<1>3. EventsTrackLink
  BY <1>1 DEF EventsTrackLink
<1> QED BY <1>2, <1>3 DEF ApInit, ApInv, StatusConverges, Associated

\* A stuttering step keeps the invariant.
LEMMA StutterStep == ApInv /\ UNCHANGED apVars => ApInv'
<1> SUFFICES ASSUME ApInv, UNCHANGED apVars PROVE ApInv' OBVIOUS
<1> USE DEF apVars, nwpVars, statusVars, semVars, mainVars
<1>1. ApTypeOK' BY DEF ApInv, ApTypeOK
<1> QED BY <1>1, QuietStep DEF ApQuiet

-----------------------------------------------------------------------------
(* The theorems about connectToAP on its own. *)

\* The inductive invariant holds of every behaviour of the two threads.
THEOREM ApInvariant == ApSpec => []ApInv
<1>1. ApInv /\ [ApNext]_apVars => ApInv'
  BY EnvironmentStep, SpawnStep, ConnectStep, CallerStep, StutterStep DEF ApNext
<1> QED BY <1>1, InitInv, PTL DEF ApSpec, ApStart

\* Every variable keeps its type: the status bits, semaphores and the event queue
\* within their bounds, and the main thread at a point of connectToAP.
THEOREM ConnectTypeCorrect == ApSpec => []ConnectTypeOK
<1>1. ApInit /\ pc = "idle" => ConnectTypeOK
  BY InitInv DEF ConnectTypeOK, ApInv
<1>2. ApInv /\ ConnectTypeOK /\ [ApNext]_apVars /\ ApInv' => ConnectTypeOK'
  <2> SUFFICES ASSUME ConnectTypeOK, [ApNext]_apVars, ApInv' PROVE ConnectTypeOK'
    OBVIOUS
  <2> USE DEF ConnectTypeOK, ApInv, ConnectPoints, ReturnPoints, GoTo, mainVars
  <2>1. CASE Environment BY <2>1 DEF Environment, Associate, Lease, Drop
  <2>2. CASE SpawnThread
    BY <2>2 DEF SpawnThread, Handle, HandleConnect, PostConnect, HandleIp4Acquired,
                PostIp4, HandleDisconnect
  <2>3. CASE ConnectToAP
    BY <2>3 DEF ConnectToAP, CheckRole, Join, CheckConnected, WaitConnect,
                WaitConnectTimeout, CopyStatus, HangUp, Drain, CheckIp, WaitIp4
  <2>4. CASE Call \/ Leave \/ Exited \/ UNCHANGED apVars
    BY <2>4 DEF Call, Leave, Exited, apVars
  <2> QED BY <2>1, <2>2, <2>3, <2>4 DEF ApNext
<1> QED BY <1>1, <1>2, ApInvariant, PTL DEF ApSpec, ApStart

\* With no event on its way, app_CB.Status is the state of the link.
THEOREM StatusFollowsLink == ApSpec => []StatusConverges
BY ApInvariant, PTL DEF ApInv

\* What the invariant says of the bits, whether events are on their way or not.
LEMMA LinkStatusOf == ApInv => LinkStatus
<1> SUFFICES ASSUME ApInv, ipAcquired PROVE connected /\ gatewayIP \in Gateways
  BY DEF LinkStatus, IpImpliesConnected, ApInv
<1>1. CASE events = <<>>
  BY <1>1 DEF ApInv, StatusConverges, Associated
<1>2. CASE events # <<>>
  <2>1. BitsBefore(Head(events)) /\ Head(events) \in Events
    BY <1>2, TailFacts, ElementOfSeq DEF ApInv, ApTypeOK, EventsTrackLink
  <2> QED BY <2>1 DEF BitsBefore, Events, ApInv
<1> QED BY <1>1, <1>2

\* An address that is believed belongs to a link that has it, or whose loss is queued.
LEMMA BelievedAddress ==
  ASSUME ApInv, ipAcquired
  PROVE  link = "leased" \/ LossPending
<1>1. CASE events = <<>>
  BY <1>1 DEF ApInv, StatusConverges
<1>2. CASE events # <<>>
  <2>1. /\ Len(events) >= 1 /\ Head(events) = events[1]
        /\ BitsBefore(Head(events)) /\ Head(events) \in Events
    BY <1>2, TailFacts, ElementOfSeq DEF ApInv, ApTypeOK, EventsTrackLink
  <2>2. events[1] = "DISCONNECT"
    BY <2>1 DEF BitsBefore, Events
  <2> QED BY <2>1, <2>2, LenProperties DEF LossPending, ApInv, ApTypeOK
<1> QED BY <1>1, <1>2

\* The step that returns 0 has seen the bit of the address.
LEMMA ReturnStep ==
  ASSUME ConnectToAP \/ SpawnThread \/ Environment, pc = "checkIp", pc' = "connectedToAp"
  PROVE  ipAcquired
BY DEF Environment, Associate, Lease, Drop, SpawnThread, Handle,
       HandleConnect, PostConnect, HandleIp4Acquired, PostIp4, HandleDisconnect,
       ConnectToAP, CheckRole, Join, CheckConnected, WaitConnect,
       WaitConnectTimeout, CopyStatus, HangUp, Drain, CheckIp, WaitIp4,
       GoTo, mainVars

\* Queue, bits and link are one history, and an acquired address comes with a
\* connection and a gateway.
THEOREM LinkStatusHolds == ApSpec => []LinkStatus
BY LinkStatusOf, ApInvariant, PTL

\* connectToAP returns 0 only for a leased link or one whose loss is pending.
THEOREM ConnectSuccess == ApSpec => SuccessMeansLeased
<1>1. ApInv /\ [ApNext]_apVars
        => [pc = "checkIp" /\ pc' = "connectedToAp" => link = "leased" \/ LossPending]_apVars
  <2> SUFFICES ASSUME ApInv, ApNext, pc = "checkIp", pc' = "connectedToAp"
               PROVE  link = "leased" \/ LossPending
    OBVIOUS
  <2>1. ConnectToAP \/ SpawnThread \/ Environment
    BY DEF ApNext, Call, Leave, Exited, GoTo, apVars, mainVars
  <2> QED BY <2>1, ReturnStep, BelievedAddress
<1> QED BY <1>1, ApInvariant, PTL DEF ApSpec, ApStart, SuccessMeansLeased

-----------------------------------------------------------------------------
(* BeaconSync. *)

\* Slot numbers stay below twice the size of the ring before they are wrapped.
LEMMA WrapOnce ==
  ASSUME NEW k \in 0..(NumReadings - 1), NEW i \in 1..NumReadings
  PROVE  (k + i - 1) % NumReadings
           = IF k + i - 1 < NumReadings THEN k + i - 1 ELSE (k + i - 1) - NumReadings
<1>0. NumReadings \in Nat \ {0}
  BY BeaconSyncAssumption
<1> DEFINE x == k + i - 1
<1>1. x \in Int /\ 0 <= x /\ x < 2 * NumReadings
  BY <1>0
<1> HIDE DEF x
<1>2. x % NumReadings = IF x < NumReadings THEN x ELSE x - NumReadings
  <2>1. CASE x < NumReadings
    BY <1>0, <1>1, <2>1
  <2>2. CASE x >= NumReadings
    <3>1. x - NumReadings \in 0..(NumReadings - 1)
      BY <1>0, <1>1, <2>2
    <3> QED BY <1>0, <1>1, <2>2, <3>1
  <2> QED BY <1>0, <1>1, <2>1, <2>2
<1> QED BY <1>2 DEF x

\* The index after the last slot is 0, and it is always that of a slot.
LEMMA NextIndexWraps ==
  ASSUME NEW k \in 0..(NumReadings - 1)
  PROVE  /\ NextIndex(k) = IF k + 1 < NumReadings THEN k + 1 ELSE 0
         /\ NextIndex(k) \in 0..(NumReadings - 1)
<1>0. NumReadings \in Nat \ {0}
  BY BeaconSyncAssumption
<1>1. CASE k + 1 < NumReadings
  BY <1>0, <1>1 DEF NextIndex
<1>2. CASE k + 1 = NumReadings
  BY <1>0, <1>2 DEF NextIndex
<1> QED BY <1>0, <1>1, <1>2

\* Storing a reading at the index and moving the index on pushes the reading in
\* at the young end of the ring and the oldest one out.
LEMMA RingPush ==
  ASSUME NEW V, slots \in [0..(NumReadings - 1) -> V], index \in 0..(NumReadings - 1),
         NEW ts \in V,
         slots' = [slots EXCEPT ![index] = ts],
         index' = NextIndex(index)
  PROVE  /\ Ring \in Seq(V) /\ Len(Ring) = NumReadings
         /\ Ring' = Append(Tail(Ring), ts)
         /\ Ring'[NumReadings] = ts
         /\ \A i \in 1..(NumReadings - 1) : Ring'[i] = Ring[i + 1]
<1> DEFINE N == NumReadings
           at(i, k) == IF k + i - 1 < N THEN k + i - 1 ELSE (k + i - 1) - N
<1>0. N \in Nat \ {0}
  BY BeaconSyncAssumption
<1>1. index' \in 0..(N - 1) /\ index' = IF index + 1 < N THEN index + 1 ELSE 0
  BY NextIndexWraps
<1>2. ASSUME NEW k \in 0..(N - 1), NEW i \in 1..N
      PROVE  (k + i - 1) % N = at(i, k) /\ at(i, k) \in 0..(N - 1)
  BY <1>0, WrapOnce
<1>3. Ring = [i \in 1..N |-> slots[at(i, index)]]
  BY <1>2 DEF Ring
<1>4. Ring' = [i \in 1..N |-> slots'[at(i, index')]]
  BY <1>1, <1>2 DEF Ring
<1>5. Ring \in Seq(V) /\ Len(Ring) = N
  BY <1>0, <1>2, <1>3
<1>6. /\ Tail(Ring) \in Seq(V) /\ Len(Tail(Ring)) = N - 1
      /\ \A i \in 1..(N - 1) : Tail(Ring)[i] = Ring[i + 1]
  BY <1>0, <1>5, TailFacts, EmptySeq
<1>7. ASSUME NEW i \in 1..(N - 1) PROVE Ring'[i] = Ring[i + 1]
  <2>1. at(i, index') = at(i + 1, index) /\ at(i, index') # index
    BY <1>0, <1>1
  <2> QED BY <1>0, <1>2, <1>3, <1>4, <2>1
<1>8. Ring'[N] = ts
  <2>1. at(N, index') = index
    BY <1>0, <1>1
  <2> QED BY <1>0, <1>4, <2>1
<1>9. Ring' \in Seq(V) /\ Len(Ring') = N
  BY <1>0, <1>1, <1>2, <1>4
<1>10. Append(Tail(Ring), ts) \in Seq(V) /\ Len(Append(Tail(Ring), ts)) = N
  BY <1>0, <1>6, AppendProperties
<1>11. \A i \in 1..N : Ring'[i] = Append(Tail(Ring), ts)[i]
  BY <1>0, <1>6, <1>7, <1>8, AppendProperties
<1> QED BY <1>5, <1>7, <1>8, <1>9, <1>10, <1>11, SeqEqual

-----------------------------------------------------------------------------
(* Type correctness. *)

Slots == Timestamps \cup {Unset}

\* The ring read from the index is a sequence of NumReadings slots.
LEMMA RingType ==
  ASSUME SyncTypeOK
  PROVE  Ring \in Seq(Slots) /\ Len(Ring) = NumReadings /\ Ring \in [1..NumReadings -> Slots]
<1>0. NumReadings \in Nat \ {0}
  BY BeaconSyncAssumption
<1>1. ASSUME NEW i \in 1..NumReadings
      PROVE  slots[(index + i - 1) % NumReadings] \in Slots
  BY <1>0 DEF SyncTypeOK, Slots
<1> QED BY <1>0, <1>1 DEF Ring

\* The board starts with every variable of its type.
LEMMA InitType == Init => TypeOK
<1> SUFFICES ASSUME Init PROVE TypeOK OBVIOUS
<1>1. ApTypeOK
  BY InitInv DEF Init, ApInv
<1>2. SyncTypeOK
  BY BeaconSyncAssumption, EmptySeq DEF Init, SyncTypeOK, SyncPoints, Timestamps
<1> QED BY <1>1, <1>2 DEF TypeOK

\* Steps on the raw socket keep the types.
LEMMA ListeningType == TypeOK /\ Listening => TypeOK'
<1> SUFFICES ASSUME TypeOK, Listening PROVE TypeOK' OBVIOUS
<1> USE BeaconSyncAssumption
    DEF TypeOK, SyncTypeOK, SyncPoints, GoTo, uploadVars, ringVars
<1>1. ApTypeOK'
  BY DEF Listening, Enter, ReceiveError, ReceiveBeacon, CloseAfterLoop, syncVars,
         otherApVars, nwpVars, statusVars, semVars, ApTypeOK
<1>2. CASE Enter BY <1>1, <1>2 DEF Enter, EnterTransceiverMode
<1>3. CASE ReceiveError BY <1>1, <1>3 DEF ReceiveError, syncVars
<1>4. ASSUME NEW ts \in Timestamps, ReceiveBeacon(ts) PROVE SyncTypeOK'
  <2>1. index' \in 0..(NumReadings - 1)
    BY <1>4, NextIndexWraps DEF ReceiveBeacon
  <2>2. Ms(ts) \in Nat /\ FirstDeadline(ts) \in Nat
    BY DEF Timestamps, Ms, FirstDeadline
  <2> QED BY <1>4, <2>1, <2>2 DEF ReceiveBeacon
<1>5. CASE CloseAfterLoop BY <1>1, <1>5 DEF CloseAfterLoop
<1> QED BY <1>1, <1>2, <1>3, <1>4, <1>5 DEF Listening

\* Steps of the upload over TCP keep the types.
LEMMA UploadingType == TypeOK /\ Uploading => TypeOK'
<1> SUFFICES ASSUME TypeOK, Uploading PROVE TypeOK' OBVIOUS
<1> USE BeaconSyncAssumption
    DEF TypeOK, SyncTypeOK, SyncPoints, GoTo, syncVars, uploadVars, ringVars
<1>1. ApTypeOK'
  <2>1. CASE LeaveAp
    BY <2>1, WlanDisconnectType DEF LeaveAp, nwpVars, statusVars, semVars, ApTypeOK
  <2>2. CASE ~LeaveAp
    BY <2>2 DEF Uploading, CloseRf, OpenTcp, ConnectTcp, Send, SendError, CloseTcp, Reenter,
            otherApVars, nwpVars, statusVars, semVars, ApTypeOK
  <2> QED BY <2>1, <2>2
<1>2. CASE CloseRf BY <1>1, <1>2 DEF CloseRf, ConnectPoints
<1>3. CASE OpenTcp BY <1>1, <1>3 DEF OpenTcp, ApTypeOK
<1>4. CASE ConnectTcp BY <1>1, <1>4, EmptySeq DEF ConnectTcp
<1>5. ASSUME NEW n \in 1..NumReadings, Send(n) PROVE SyncTypeOK'
  <2>1. SubSeq(Ring, 1, n) \in Seq(Slots)
    BY RingType, SubSeqProperties
  <2>2. stream' \in Seq(Slots)
    BY <1>5, <2>1, ConcatProperties DEF Send, Slots
  <2> QED BY <1>5, <2>2 DEF Send, Slots
<1>6. CASE SendError BY <1>1, <1>6 DEF SendError
<1>7. CASE CloseTcp BY <1>1, <1>7 DEF CloseTcp
<1>8. CASE LeaveAp BY <1>1, <1>8 DEF LeaveAp
<1>9. CASE Reenter BY <1>1, <1>9 DEF Reenter, EnterTransceiverMode
<1> QED BY <1>1, <1>2, <1>3, <1>4, <1>5, <1>6, <1>7, <1>8, <1>9 DEF Uploading

\* Steps of connectToAP, and of the actors beside it, keep the types.
LEMMA ConnectingType == TypeOK /\ Connecting => TypeOK'
<1> SUFFICES ASSUME TypeOK, Connecting PROVE TypeOK' OBVIOUS
<1>1. ApTypeOK'
  BY EnvironmentType, SpawnType, ConnectType DEF Connecting, TypeOK
<1>2. SyncTypeOK'
  <2> USE DEF TypeOK, SyncTypeOK, Connecting, syncVars, uploadVars, ringVars
  <2>1. CASE Environment \/ SpawnThread
    BY <2>1 DEF Environment, Associate, Lease, Drop, SpawnThread, Handle, HandleConnect,
           PostConnect, HandleIp4Acquired, PostIp4, HandleDisconnect, mainVars
  <2>2. CASE ConnectToAP
    BY <2>2 DEF ConnectToAP, CheckRole, Join, CheckConnected, WaitConnect,
           WaitConnectTimeout, CopyStatus, HangUp, Drain, CheckIp, WaitIp4, GoTo,
           ConnectPoints, ReturnPoints
  <2> QED BY <2>1, <2>2
<1> QED BY <1>1, <1>2 DEF TypeOK

-----------------------------------------------------------------------------
(* The inductive invariant. *)

\* RadioExclusive is not inductive: to open the raw socket safely the board has
\* to know that its link is down before it does.
RadioInv ==
  /\ rfSock = "open" => /\ pc \in {"listen", "closing", "closeRf", "stopped"}
                        /\ link = "down" /\ tcpSock = "closed"
  /\ pc \in {"enter", "listen", "closing", "closeRf", "reenter"} => link = "down"
  /\ tcpSock # "closed" => pc \in {"tcpConnect", "send", "closeTcp", "stopped"}

ServerInv ==
  /\ pc = "connectedToAp" => gatewayIP \in Gateways
  /\ pc \in {"tcpConnect", "send"} => sAddr \in Gateways

\* The youngest reading is the beacon the next one is compared with, or will be
\* after the upload.
NewestInv ==
  /\ Mode = "listening" =>
       /\ frameTs = lastTs
       /\ Ring[NumReadings] = lastTs \/ (Ring[NumReadings] = Unset /\ lastTs = 0)
  /\ Mode = "uploading" => Ring[NumReadings] = frameTs

SyncInv ==
  TypeOK /\ ApInv /\ RadioInv /\ ServerInv /\ NewestInv /\ ReadingsDistinct

\* A step that leaves the ring alone.
LEMMA SameRing ==
  ASSUME UNCHANGED <<slots, index>>
  PROVE  Ring' = Ring
BY DEF Ring

\* The invariant holds when the board starts.
LEMMA InitSyncInv == Init => SyncInv
<1> SUFFICES ASSUME Init PROVE SyncInv OBVIOUS
<1>0. NumReadings \in Nat \ {0}
  BY BeaconSyncAssumption
<1>1. TypeOK /\ ApInv
  BY InitType, InitInv DEF Init
<1>2. \A i \in 1..NumReadings : Ring[i] = Unset
  <2>1. \A i \in 1..NumReadings : (index + i - 1) % NumReadings \in 0..(NumReadings - 1)
    BY <1>0 DEF Init
  <2> QED BY <2>1 DEF Init, Ring
<1>3. RadioInv /\ ServerInv
  BY DEF Init, ApInit, RadioInv, ServerInv
<1>4. NewestInv
  BY <1>0, <1>2 DEF Init, NewestInv, Mode
<1>5. ReadingsDistinct
  BY <1>0, <1>2 DEF ReadingsDistinct
<1> QED BY <1>1, <1>3, <1>4, <1>5 DEF SyncInv

\* A beacon that is stored is new, becomes the last one of the ring and pushes the
\* first one out.
LEMMA ReceiveStep ==
  ASSUME SyncInv, NEW ts \in Timestamps, ReceiveBeacon(ts)
  PROVE  /\ Ring' = Append(Tail(Ring), ts) /\ ts # Ring[NumReadings]
         /\ RadioInv' /\ ServerInv' /\ NewestInv' /\ ReadingsDistinct'
<1>0. NumReadings \in Nat \ {0} /\ Unset \notin Timestamps
  BY BeaconSyncAssumption DEF Timestamps
<1>1. /\ Ring' = Append(Tail(Ring), ts)
      /\ Ring'[NumReadings] = ts
      /\ \A i \in 1..(NumReadings - 1) : Ring'[i] = Ring[i + 1]
  BY RingPush, ts \in Slots DEF ReceiveBeacon, SyncInv, TypeOK, SyncTypeOK, Slots
<1>2. ts # Ring[NumReadings]
  BY <1>0 DEF ReceiveBeacon, MayHear, SyncInv, NewestInv, Mode
<1>3. RadioInv' /\ ServerInv'
  BY DEF ReceiveBeacon, SyncInv, RadioInv, ServerInv, otherApVars, nwpVars, statusVars,
         uploadVars
<1>4. NewestInv'
  BY <1>1 DEF ReceiveBeacon, NewestInv, Mode
<1>5. ReadingsDistinct'
  <2> SUFFICES ASSUME NEW i \in 1..(NumReadings - 1), Ring'[i] = Ring'[i + 1]
               PROVE  Ring'[i] = Unset
    BY DEF ReadingsDistinct
  <2>1. CASE i + 1 = NumReadings
    BY <1>0, <1>1, <1>2, <2>1
  <2>2. CASE i + 1 < NumReadings
    <3>1. i + 1 \in 1..(NumReadings - 1)
      BY <1>0, <2>2
    <3>2. Ring'[i] = Ring[i + 1] /\ Ring'[i + 1] = Ring[(i + 1) + 1]
      BY <1>1, <3>1
    <3> QED BY <3>1, <3>2 DEF SyncInv, ReadingsDistinct
  <2> QED BY <1>0, <2>1, <2>2
<1> QED BY <1>1, <1>2, <1>3, <1>4, <1>5

\* Any other step of the loop: the ring stays as it is.
LEMMA OtherStep ==
  ASSUME SyncInv, UNCHANGED <<slots, index>>
  PROVE  /\ Ring' = Ring /\ ReadingsDistinct'
         /\ (Mode' = Mode \/ Mode' = "stopped") /\ UNCHANGED <<frameTs, lastTs>> => NewestInv'
<1>1. Ring' = Ring
  BY SameRing
<1>2. ReadingsDistinct'
  BY <1>1 DEF SyncInv, ReadingsDistinct
<1>3. ASSUME Mode' = Mode \/ Mode' = "stopped", UNCHANGED <<frameTs, lastTs>>
      PROVE  NewestInv'
  BY <1>1, <1>3 DEF SyncInv, NewestInv
<1> QED BY <1>1, <1>2, <1>3

SyncRest == RadioInv /\ ServerInv /\ NewestInv /\ ReadingsDistinct

\* Steps on the raw socket keep the invariant's parts beyond ApInv.
LEMMA ListeningStep == SyncInv /\ Listening => SyncRest'
<1> SUFFICES ASSUME SyncInv, Listening PROVE SyncRest' OBVIOUS
<1> USE DEF RadioInv, ServerInv, GoTo, Mode, otherApVars, nwpVars, statusVars, uploadVars,
            ringVars, syncVars
<1>1. CASE Enter
  BY <1>1, OtherStep DEF Enter, EnterTransceiverMode, SyncRest, SyncInv
<1>2. CASE ReceiveError
  BY <1>2, OtherStep DEF ReceiveError, SyncRest, SyncInv
<1>3. ASSUME NEW ts \in Timestamps, ReceiveBeacon(ts) PROVE SyncRest'
  BY <1>3, ReceiveStep DEF SyncRest
<1>4. CASE CloseAfterLoop
  BY <1>4, OtherStep DEF CloseAfterLoop, SyncRest, SyncInv
<1> QED BY <1>1, <1>2, <1>3, <1>4 DEF Listening

\* Steps of the upload keep the invariant's parts beyond ApInv.
LEMMA UploadingStep == SyncInv /\ Uploading => SyncRest'
<1> SUFFICES ASSUME SyncInv, Uploading PROVE SyncRest' OBVIOUS
<1> USE DEF RadioInv, ServerInv, GoTo, Mode, otherApVars, nwpVars, statusVars, uploadVars,
            ringVars, syncVars
<1>1. CASE CloseRf
  BY <1>1, OtherStep DEF CloseRf, SyncRest, SyncInv
<1>2. CASE OpenTcp
  BY <1>2, OtherStep DEF OpenTcp, SyncRest, SyncInv, TypeOK, SyncTypeOK
<1>3. CASE ConnectTcp
  BY <1>3, OtherStep DEF ConnectTcp, SyncRest, SyncInv
<1>4. ASSUME NEW n \in 1..NumReadings, Send(n) PROVE SyncRest'
  BY <1>4, OtherStep DEF Send, SyncRest, SyncInv
<1>5. CASE SendError
  BY <1>5, OtherStep DEF SendError, SyncRest, SyncInv
<1>6. CASE CloseTcp
  BY <1>6, OtherStep DEF CloseTcp, SyncRest, SyncInv
<1>7. CASE LeaveAp
  BY <1>7, OtherStep DEF LeaveAp, WlanDisconnect, SyncRest, SyncInv
<1>8. CASE Reenter
  <2>1. Ring' = Ring /\ ReadingsDistinct'
    BY <1>8, OtherStep DEF Reenter
  <2>2. NewestInv'
    BY <1>8, <2>1 DEF Reenter, NewestInv, SyncInv
  <2> QED BY <1>8, <2>1, <2>2 DEF Reenter, EnterTransceiverMode, SyncRest, SyncInv
<1> QED BY <1>1, <1>2, <1>3, <1>4, <1>5, <1>6, <1>7, <1>8 DEF Uploading

\* Steps of connectToAP keep the invariant's parts beyond ApInv.
LEMMA ConnectingStep == SyncInv /\ Connecting => SyncRest'
<1> SUFFICES ASSUME SyncInv, Connecting PROVE SyncRest' OBVIOUS
<1>0. /\ UNCHANGED <<slots, index, frameTs, lastTs, rfSock, tcpSock, sAddr>>
      /\ ApInv /\ RadioInv /\ ServerInv
  BY DEF Connecting, syncVars, uploadVars, ringVars, SyncInv
<1> USE DEF RadioInv, ServerInv, Mode
<1>1. CASE Environment
  <2>1. pc' = pc /\ gatewayIP' = gatewayIP /\ (link = "down" => link' = "down")
    BY <1>1 DEF Environment, Associate, Lease, Drop, Associated, mainVars, statusVars
  <2> QED BY <1>0, <2>1, OtherStep DEF SyncRest
<1>2. CASE SpawnThread
  <2>1. pc' = pc /\ link' = link /\ (gatewayIP' = gatewayIP \/ gatewayIP' \in Gateways)
    BY <1>2 DEF SpawnThread, Handle, HandleConnect, PostConnect, HandleIp4Acquired,
                PostIp4, HandleDisconnect, mainVars, statusVars, nwpVars
  <2> QED BY <1>0, <2>1, OtherStep DEF SyncRest
<1>3. CASE ConnectToAP
  <2>1. /\ pc \in ConnectPoints /\ pc' \in ConnectPoints \cup ReturnPoints
        /\ gatewayIP' = gatewayIP
        /\ pc' = "connectedToAp" => ipAcquired
    BY <1>3 DEF ConnectToAP, CheckRole, Join, CheckConnected, WaitConnect,
           WaitConnectTimeout, CopyStatus, HangUp, Drain, CheckIp, WaitIp4, GoTo,
           ConnectPoints, ReturnPoints, statusVars
  <2>2. pc' = "connectedToAp" => gatewayIP' \in Gateways
    BY <1>0, <2>1 DEF ApInv
  <2> QED BY <1>0, <2>1, <2>2, OtherStep DEF SyncRest, ConnectPoints, ReturnPoints
<1> QED BY <1>1, <1>2, <1>3 DEF Connecting

\* Steps on the raw socket leave the connection's invariant alone.
LEMMA ListeningApStep == SyncInv /\ Listening => ApInv'
<1> SUFFICES ASSUME SyncInv, Listening PROVE ApInv' OBVIOUS
<1>1. ApTypeOK'
  BY ListeningType DEF SyncInv, TypeOK
<1> QED BY <1>1, QuietStep DEF SyncInv, Listening, Enter, ReceiveError, ReceiveBeacon,
       CloseAfterLoop, ApQuiet, otherApVars, nwpVars, statusVars

\* Steps of the upload touch the link only to hang up.
LEMMA UploadingApStep == SyncInv /\ Uploading => ApInv'
<1> SUFFICES ASSUME SyncInv, Uploading PROVE ApInv' OBVIOUS
<1>1. ApTypeOK'
  BY UploadingType DEF SyncInv, TypeOK
<1>2. CASE LeaveAp
  BY <1>1, <1>2, QuietStep, DisconnectStep DEF LeaveAp, SyncInv, ApQuiet, statusVars
<1>3. CASE ~LeaveAp
  BY <1>1, <1>3, QuietStep DEF SyncInv, Uploading, CloseRf, OpenTcp, ConnectTcp, Send,
     SendError, CloseTcp, Reenter, ApQuiet, otherApVars, nwpVars, statusVars
<1> QED BY <1>2, <1>3

\* Neither the end of the program nor stuttering disturbs the invariant.
LEMMA DoneStep == SyncInv /\ (Done \/ UNCHANGED vars) => SyncInv'
<1> SUFFICES ASSUME SyncInv, UNCHANGED vars PROVE SyncInv'
  BY DEF Done
<1>1. ApInv' /\ ApTypeOK'
  BY StutterStep DEF SyncInv, vars, ApInv
<1>2. UNCHANGED <<link, pc, gatewayIP, rfSock, tcpSock, sAddr, slots, index, frameTs,
                  lastTs, sendTs, sent, stream>>
  BY DEF vars, apVars, nwpVars, mainVars, statusVars, syncVars, uploadVars, ringVars
<1>3. SyncTypeOK'
  BY <1>2 DEF SyncInv, TypeOK, SyncTypeOK
<1>4. RadioInv' /\ ServerInv'
  BY <1>2 DEF SyncInv, RadioInv, ServerInv
<1>5. NewestInv' /\ ReadingsDistinct'
  BY <1>2, OtherStep DEF Mode
<1> QED BY <1>1, <1>3, <1>4, <1>5 DEF SyncInv, TypeOK

\* Every step of the board program keeps the invariant.
LEMMA SyncStep == SyncInv /\ [Next]_vars => SyncInv'
<1> SUFFICES ASSUME SyncInv, [Next]_vars PROVE SyncInv' OBVIOUS
<1>1. CASE Listening
  BY <1>1, ListeningType, ListeningStep, ListeningApStep DEF SyncInv, SyncRest
<1>2. CASE Uploading
  BY <1>2, UploadingType, UploadingStep, UploadingApStep DEF SyncInv, SyncRest
<1>3. CASE Connecting
  BY <1>3, ConnectingType, ConnectingStep, EnvironmentStep, SpawnStep, ConnectStep
     DEF SyncInv, SyncRest, Connecting
<1>4. CASE Done \/ UNCHANGED vars
  BY <1>4, DoneStep
<1> QED BY <1>1, <1>2, <1>3, <1>4 DEF Next

-----------------------------------------------------------------------------
(* The theorems. *)

\* The inductive invariant holds of every behaviour of the board.
THEOREM SyncInvariant == Spec => []SyncInv
BY InitSyncInv, SyncStep, PTL DEF Spec

\* Every variable of the board keeps its type.
THEOREM TypeCorrect == Spec => []TypeOK
BY SyncInvariant, PTL DEF SyncInv

\* The raw socket is open only while the station has no link, is not getting one,
\* and has no TCP socket: the two uses of the radio never meet.
THEOREM RadioIsExclusive == Spec => []RadioExclusive
<1>1. SyncInv => RadioExclusive
  BY DEF SyncInv, RadioInv, RadioExclusive
<1> QED BY <1>1, SyncInvariant, PTL

\* The TCP connection goes to a gateway an access point has handed out.
THEOREM ServerIsKnown == Spec => []ServerKnown
<1>1. SyncInv => ServerKnown
  BY DEF SyncInv, ServerInv, ServerKnown
<1> QED BY <1>1, SyncInvariant, PTL

\* No beacon is stored twice in a row, whatever the timer of the access point does.
THEOREM NeighboursDiffer == Spec => []ReadingsDistinct
BY SyncInvariant, PTL DEF SyncInv

-----------------------------------------------------------------------------
(* The ring implements the sliding window. *)

\* The empty ring is the recorder's empty window.
LEMMA RecorderInitMaps == Init => Recorder!RecorderInit
<1> SUFFICES ASSUME Init PROVE Recorder!RecorderInit OBVIOUS
<1>0. NumReadings \in Nat \ {0}
  BY BeaconSyncAssumption
<1>1. \A i \in 1..NumReadings : (index + i - 1) % NumReadings \in 0..(NumReadings - 1)
  BY <1>0 DEF Init
<1>2. Ring = [i \in 1..NumReadings |-> Unset]
  BY <1>1 DEF Init, Ring
<1> QED BY <1>2 DEF Init, Mode, Recorder!RecorderInit

\* Every step of the board program is a step of the recorder or a stutter.
LEMMA RecorderStepMaps ==
  SyncInv /\ [Next]_vars => [Recorder!RecorderNext]_Recorder!recorderVars
<1> SUFFICES ASSUME SyncInv, [Next]_vars
             PROVE  [Recorder!RecorderNext]_Recorder!recorderVars
  OBVIOUS
<1> USE DEF Mode, GoTo, Recorder!recorderVars, Recorder!RecorderNext, Recorder!Stop,
            otherApVars, uploadVars, ringVars, syncVars
<1>1. ASSUME NEW ts \in Timestamps, ReceiveBeacon(ts)
      PROVE  Recorder!Record(ts) /\ ts \in Recorder!Timestamps
  <2>1. Ring' = Append(Tail(Ring), ts) /\ ts # Ring[NumReadings]
    BY <1>1, ReceiveStep
  <2>2. sendTs' = Recorder!Deadline(sendTs, ts)
    BY <1>1 DEF ReceiveBeacon, FirstDeadline, Ms, Recorder!Deadline, Recorder!Ms
  <2> QED BY <1>1, <2>1, <2>2
          DEF ReceiveBeacon, Recorder!Record, Recorder!Ms, Ms, Timestamps, Recorder!Timestamps
<1>2. CASE Enter \/ ReceiveError \/ CloseAfterLoop
  BY <1>2, SameRing DEF Enter, ReceiveError, CloseAfterLoop
<1>3. CASE CloseRf BY <1>3, SameRing DEF CloseRf
<1>4. CASE OpenTcp BY <1>4, SameRing DEF OpenTcp
<1>5. CASE ConnectTcp BY <1>5, SameRing DEF ConnectTcp
<1>6. ASSUME NEW n \in 1..NumReadings, Send(n)
      PROVE  UNCHANGED Recorder!recorderVars
  BY <1>6, SameRing DEF Send
<1>7. CASE SendError \/ CloseTcp BY <1>7, SameRing DEF SendError, CloseTcp
<1>8. CASE LeaveAp BY <1>8, SameRing DEF LeaveAp
<1>9. CASE Reenter BY <1>9, SameRing DEF Reenter, Recorder!Resume
<1>10. CASE Connecting
  <2>1. UNCHANGED <<slots, index, sendTs>>
    BY <1>10 DEF Connecting
  <2>2. Mode' = Mode
    BY <1>10 DEF Connecting, Environment, Associate, Lease, Drop, SpawnThread, Handle,
       HandleConnect, PostConnect, HandleIp4Acquired, PostIp4, HandleDisconnect,
       ConnectToAP, CheckRole, Join, CheckConnected, WaitConnect, WaitConnectTimeout,
       CopyStatus, HangUp, Drain, CheckIp, WaitIp4, mainVars
  <2> QED BY <2>1, <2>2, SameRing
<1>11. CASE Done \/ UNCHANGED vars
  BY <1>11, SameRing DEF Done, vars, apVars, mainVars
<1> QED
  BY <1>1, <1>2, <1>3, <1>4, <1>5, <1>6, <1>7, <1>8, <1>9, <1>10, <1>11
     DEF Next, Listening, Uploading

\* The ring of the board, read the way ts_to_string reads it, is at every moment
\* the abstract recorder's window of the last readings, oldest first.
THEOREM RingIsWindow == Spec => RecordsWindow
BY RecorderInitMaps, RecorderStepMaps, SyncInvariant, PTL
   DEF Spec, RecordsWindow, Recorder!RecorderSpec

-----------------------------------------------------------------------------
(* The connection as the board program drives it. *)

\* Queue, bits and link stay one history when the board connects and hangs up
\* again for every upload, not only when a caller like startConnection does it.
THEOREM BoardLinkStatus == Spec => []LinkStatus
<1>1. SyncInv => LinkStatus
  BY LinkStatusOf DEF SyncInv
<1> QED BY <1>1, SyncInvariant, PTL

\* In the board program too, connectToAP returns 0 only for a leased link or one
\* whose loss is pending.
THEOREM BoardConnectSuccess == Spec => SuccessMeansLeased
<1>1. SyncInv /\ [Next]_vars
        => [pc = "checkIp" /\ pc' = "connectedToAp" => link = "leased" \/ LossPending]_apVars
  <2> SUFFICES ASSUME SyncInv, Next, pc = "checkIp", pc' = "connectedToAp"
               PROVE  link = "leased" \/ LossPending
    BY DEF vars
  <2>1. Connecting
    BY DEF Next, Listening, Uploading, Done, vars, apVars, mainVars, Enter, ReceiveError,
           ReceiveBeacon, CloseAfterLoop, CloseRf, OpenTcp, ConnectTcp, Send, SendError,
           CloseTcp, LeaveAp, Reenter, GoTo
  <2> QED BY <2>1, ReturnStep, BelievedAddress DEF Connecting, SyncInv
<1> QED BY <1>1, SyncInvariant, PTL DEF Spec, SuccessMeansLeased

-----------------------------------------------------------------------------
(* The order of the ring. *)

\* A later timestamp is not an earlier millisecond.
LEMMA MsMonotone ==
  ASSUME NEW a \in Nat, NEW b \in Nat, a <= b
  PROVE  Ms(a) \in Nat /\ Ms(a) <= Ms(b)
<1> DEFINE d == TsPerMs  q == a \div d  r == b \div d
<1>0. d \in Nat /\ d > 0
  BY BeaconSyncAssumption
<1>1. /\ q \in Nat /\ d * q <= a /\ a < d * q + d
      /\ r \in Nat /\ d * r <= b /\ b < d * r + d
  BY <1>0
<1> HIDE DEF d, q, r
<1>2. ASSUME r < q PROVE FALSE
  <2>1. d * (r + 1) <= d * q
    BY <1>0, <1>1, <1>2
  <2>2. d * (r + 1) = d * r + d
    BY <1>0, <1>1
  <2> QED BY <1>0, <1>1, <2>1, <2>2
<1>3. q \in Nat /\ q <= r
  BY <1>1, <1>2
<1> QED BY <1>3 DEF q, r, d, Ms

\* The first deadline is at most an interval away.
LEMMA FirstDeadlineNear ==
  ASSUME NEW ts \in Nat
  PROVE  FirstDeadline(ts) \in Nat /\ FirstDeadline(ts) <= Ms(ts) + SendInterval
<1>1. Ms(ts) \in Nat /\ SendInterval \in Nat /\ SendInterval > 0
  BY BeaconSyncAssumption, MsMonotone
<1> DEFINE m == Ms(ts) % SendInterval
<1>2. m \in Nat /\ m <= Ms(ts)
  BY <1>1
<1> HIDE DEF m
<1> QED BY <1>1, <1>2 DEF FirstDeadline, m

\* DeadlineNear is not inductive: the deadline has to have passed when an upload
\* starts, and moves on by one interval when it ends.
DeadlineInv ==
  ~TsfResets =>
    /\ Mode = "listening" /\ sendTs # 0 => sendTs <= Ms(lastTs) + SendInterval
    /\ Mode = "uploading" => sendTs <= Ms(frameTs)

OrderInv == SyncInv /\ WindowIncreasing /\ DeadlineInv

\* A step other than a beacon or the return to the raw socket leaves ring and
\* deadline alone.
LEMMA QuietRing ==
  ASSUME SyncInv, [Next]_vars, \A ts \in Timestamps : ~ReceiveBeacon(ts), ~Reenter
  PROVE  /\ UNCHANGED <<slots, index, frameTs, lastTs, sendTs>>
         /\ Mode' = Mode \/ Mode' = "stopped"
<1> USE DEF Mode, GoTo, otherApVars, uploadVars, ringVars, syncVars
<1>1. CASE Listening
  BY <1>1 DEF Listening, Enter, ReceiveError, CloseAfterLoop
<1>2. CASE Uploading
  BY <1>2 DEF Uploading, CloseRf, OpenTcp, ConnectTcp, Send, SendError, CloseTcp, LeaveAp
<1>3. CASE Connecting
  BY <1>3 DEF Connecting, Environment, Associate, Lease, Drop, SpawnThread, Handle,
       HandleConnect, PostConnect, HandleIp4Acquired, PostIp4, HandleDisconnect,
       ConnectToAP, CheckRole, Join, CheckConnected, WaitConnect, WaitConnectTimeout,
       CopyStatus, HangUp, Drain, CheckIp, WaitIp4, mainVars
<1>4. CASE Done \/ UNCHANGED vars
  BY <1>4 DEF Done, vars, apVars, mainVars
<1> QED BY <1>1, <1>2, <1>3, <1>4 DEF Next

\* A beacon that is stored is younger than every reading of the ring.
LEMMA BeaconInOrder ==
  ASSUME OrderInv, NEW ts \in Timestamps, ReceiveBeacon(ts)
  PROVE  WindowIncreasing'
<1> SUFFICES ASSUME ~TsfResets, NEW i \in 1..NumReadings, NEW j \in 1..NumReadings,
                    i < j, Ring'[i] # Unset
             PROVE  Ring'[j] # Unset /\ Ring'[i] < Ring'[j]
  BY DEF WindowIncreasing
<1>0. /\ NumReadings \in Nat \ {0} /\ Unset \notin Timestamps
      /\ lastTs \in Timestamps /\ Timestamps \subseteq Int
  BY BeaconSyncAssumption DEF Timestamps, OrderInv, SyncInv, TypeOK, SyncTypeOK
<1>1. /\ Ring'[NumReadings] = ts
      /\ \A k \in 1..(NumReadings - 1) : Ring'[k] = Ring[k + 1]
  BY RingPush, ts \in Slots
     DEF ReceiveBeacon, OrderInv, SyncInv, TypeOK, SyncTypeOK, Slots
<1>2. lastTs < ts /\ (Ring[NumReadings] = lastTs \/ Ring[NumReadings] = Unset)
  BY DEF ReceiveBeacon, MayHear, OrderInv, SyncInv, NewestInv, Mode
<1>3. i + 1 \in 1..NumReadings /\ Ring'[i] = Ring[i + 1] /\ Ring[i + 1] # Unset
  BY <1>0, <1>1
<1>4. CASE j = NumReadings
  <2>1. CASE i + 1 = NumReadings
    BY <1>0, <1>1, <1>2, <1>3, <1>4, <2>1
  <2>2. CASE i + 1 < NumReadings
    <3>1. Ring[NumReadings] # Unset /\ Ring[i + 1] < Ring[NumReadings]
      BY <1>0, <1>3, <2>2 DEF OrderInv, WindowIncreasing
    <3>2. i + 1 \in 1..NumReadings /\ Ring \in Seq(Slots) /\ Len(Ring) = NumReadings
      BY <1>3, RingPush, ts \in Slots
         DEF ReceiveBeacon, OrderInv, SyncInv, TypeOK, SyncTypeOK, Slots
    <3>3. Ring[i + 1] \in Timestamps
      BY <1>3, <3>2 DEF Slots
    <3>4. Ring[i + 1] < lastTs /\ lastTs < ts
      BY <1>2, <3>1
    <3>5. Ring[i + 1] \in Int /\ lastTs \in Int /\ ts \in Int /\ ts # Unset
      BY <1>0, <3>3
    <3>6. Ring[i + 1] < ts
      BY <3>4, <3>5
    <3> QED BY <1>1, <1>3, <1>4, <3>5, <3>6
  <2> QED BY <1>0, <1>3, <2>1, <2>2
<1>5. CASE j < NumReadings
  <2>1. j + 1 \in 1..NumReadings /\ i + 1 < j + 1 /\ Ring'[j] = Ring[j + 1]
    BY <1>0, <1>1, <1>5
  <2> QED BY <1>3, <2>1 DEF OrderInv, WindowIncreasing
<1> QED BY <1>0, <1>4, <1>5

\* A beacon keeps the deadline near, or has reached it.
LEMMA BeaconDeadline ==
  ASSUME OrderInv, NEW ts \in Timestamps, ReceiveBeacon(ts)
  PROVE  DeadlineInv'
<1> SUFFICES ASSUME ~TsfResets PROVE DeadlineInv' BY DEF DeadlineInv
<1>0. /\ ts \in Nat /\ lastTs \in Nat /\ lastTs < ts /\ sendTs \in Nat
      /\ SendInterval \in Nat
  BY BeaconSyncAssumption DEF Timestamps, ReceiveBeacon, MayHear, OrderInv, SyncInv, TypeOK,
     SyncTypeOK
<1>1. Ms(lastTs) <= Ms(ts) /\ Ms(lastTs) \in Nat /\ Ms(ts) \in Nat
  BY <1>0, MsMonotone
<1>2. sendTs' \in Nat /\ sendTs' <= Ms(ts) + SendInterval
  <2>1. CASE sendTs = 0
    BY <1>0, <2>1, FirstDeadlineNear DEF ReceiveBeacon
  <2>2. CASE sendTs # 0
    <3>1. sendTs <= Ms(lastTs) + SendInterval
      BY <2>2 DEF OrderInv, DeadlineInv, ReceiveBeacon, Mode
    <3> QED BY <1>0, <1>1, <2>2, <3>1 DEF ReceiveBeacon
  <2> QED BY <2>1, <2>2
<1>3. CASE Ms(ts) >= sendTs'
  BY <1>1, <1>2, <1>3 DEF ReceiveBeacon, DeadlineInv, Mode
<1>4. CASE ~(Ms(ts) >= sendTs')
  BY <1>2, <1>4 DEF ReceiveBeacon, DeadlineInv, Mode
<1> QED BY <1>3, <1>4

\* Every step keeps the order of the ring and the deadline.
LEMMA OrderStep == OrderInv /\ [Next]_vars => OrderInv'
<1> SUFFICES ASSUME OrderInv, [Next]_vars PROVE OrderInv' OBVIOUS
<1>0. SyncInv'
  BY SyncStep DEF OrderInv
<1>1. ASSUME NEW ts \in Timestamps, ReceiveBeacon(ts) PROVE WindowIncreasing' /\ DeadlineInv'
  BY <1>1, BeaconInOrder, BeaconDeadline
<1>2. CASE Reenter
  <2>1. Ring' = Ring
    BY <1>2, SameRing DEF Reenter
  <2>2. sendTs <= Ms(frameTs) \/ TsfResets
    BY <1>2 DEF Reenter, GoTo, OrderInv, DeadlineInv, Mode
  <2>3. sendTs \in Nat /\ Ms(frameTs) \in Nat /\ SendInterval \in Nat
    BY BeaconSyncAssumption, MsMonotone
       DEF Timestamps, OrderInv, SyncInv, TypeOK, SyncTypeOK
  <2>4. DeadlineInv'
    BY <1>2, <2>2, <2>3 DEF Reenter, GoTo, DeadlineInv, Mode, Ms
  <2>5. WindowIncreasing'
    BY <2>1 DEF OrderInv, WindowIncreasing
  <2> QED BY <1>0, <2>4, <2>5 DEF OrderInv
<1>3. CASE (\A ts \in Timestamps : ~ReceiveBeacon(ts)) /\ ~Reenter
  <2>1. /\ UNCHANGED <<slots, index, frameTs, lastTs, sendTs>>
        /\ Mode' = Mode \/ Mode' = "stopped"
    BY <1>3, QuietRing DEF OrderInv
  <2>2. Ring' = Ring
    BY <2>1, SameRing
  <2>3. WindowIncreasing'
    BY <2>2 DEF OrderInv, WindowIncreasing
  <2>4. DeadlineInv'
    BY <2>1 DEF OrderInv, DeadlineInv, Ms
  <2> QED BY <1>0, <2>3, <2>4 DEF OrderInv
<1> QED BY <1>0, <1>1, <1>2, <1>3 DEF OrderInv

\* As long as the timer of the access point goes forward the ring is strictly
\* increasing and the next deadline at most an interval away from the last beacon,
\* for every size of the ring, interval and scale of the timestamps.
THEOREM RingIsInOrder == Spec => []RingInOrder
<1>1. Init => OrderInv
  <2> SUFFICES ASSUME Init PROVE OrderInv OBVIOUS
  <2>1. SyncInv
    BY InitSyncInv
  <2>2. \A i \in 1..NumReadings : Ring[i] = Unset
    BY BeaconSyncAssumption, \A i \in 1..NumReadings :
         (index + i - 1) % NumReadings \in 0..(NumReadings - 1) DEF Init, Ring
  <2>3. WindowIncreasing
    BY <2>2 DEF WindowIncreasing
  <2>4. DeadlineInv
    BY DEF Init, DeadlineInv, Mode
  <2> QED BY <2>1, <2>3, <2>4 DEF OrderInv
<1>2. OrderInv => RingInOrder
  BY DEF OrderInv, DeadlineInv, RingInOrder, DeadlineNear, Mode
<1> QED BY <1>1, <1>2, OrderStep, PTL DEF Spec

=============================================================================
