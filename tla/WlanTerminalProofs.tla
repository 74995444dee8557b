------------------------- MODULE WlanTerminalProofs -------------------------
(***************************************************************************)
(* Proofs about WlanTerminal, for every bound of semaphores, events,       *)
(* commands and trials: app_CB.Role and the connection bit agree with the  *)
(* device in every session, and a ping on its way can be woken.            *)
(*                                                                         *)
(* Nine commands restart the device; all other steps leave its role alone. *)
(* The invariant follows that: RestartOutcomes says what a restart may     *)
(* leave, RestartStep what all of them have in common, and the other steps *)
(* are taken by what they raise or handle.                                 *)
(***************************************************************************)
EXTENDS WlanTerminal, TLAPS

-----------------------------------------------------------------------------
(* The inductive invariant. *)

\* The type invariant in parts, each about variables that change together.
NwpStates == [role : Roles \union {"stopped"}, mode : Roles, link : Links,
              pinging : BOOLEAN]

QueueType == events \in Seq(Events) /\ Len(events) <= EventMax

BitsType ==
  /\ status \subseteq Bits /\ copy \in [{"main", "p2p"} -> SUBSET Bits]
  /\ lost \in BOOLEAN

SemType == sem \in [Sems -> 0..SemMax]

RoleType == role \in Roles \union {"RESERVED"}

HandlerType == spawn \in Sems \union {"idle"} /\ peer \in BOOLEAN /\ attempts \in 0..1

PlaceType ==
  /\ at \in MainPoints /\ p2p \in P2pPoints /\ cancelled \in BOOLEAN
  /\ count \in [typed : 0..MaxCommands, trials : 0..MaxScanTrails]

\* The parts are the type invariant.
LEMMA TypeParts ==
  TypeOK <=> /\ nwp \in NwpStates /\ QueueType /\ BitsType /\ SemType /\ RoleType
             /\ HandlerType /\ PlaceType
BY DEF TypeOK, NwpStates, QueueType, BitsType, SemType, RoleType, HandlerType,
       PlaceType

Live == p2p \notin {"none", "ended"}

\* Where p2pstart is while its thread may run.
PeerPoints == {"p2pCheck", "p2pGetCmd", "p2pJoin", "p2pAbort"}

\* RoleSound is not inductive: that the thread runs in the P2P role needs that no
\* other command is under way, and p2pstop needs the role it found to find its end.
RoleInv ==
  /\ StationIsStation
  /\ Live => at \in PeerPoints /\ nwp.role = "P2P" /\ role = "P2P"
  /\ at = "p2pCreate" => nwp.role = "P2P" /\ role = "P2P"
  /\ at = "p2pRestart" => role = "P2P"

\* The events whose handlers change the connection bit.
LinkEvents == {"CONNECT", "DISCONNECT", "P2P_DISCONNECT", "P2P_CLIENT_REMOVED"}

NoneAfter(i) == \A j \in (i + 1)..Len(events) : events[j] \notin LinkEvents

\* BitFollowsLink is about an empty queue.  Until then the last event of the link that
\* is queued says where the link is; without one, the bit does.
LastEventIsLink ==
  nwp.role = "STA" =>
    \A i \in 1..Len(events) :
      events[i] \in LinkEvents /\ NoneAfter(i) => (events[i] = "CONNECT" <=> Linked)

BitIsLink ==
  nwp.role = "STA" /\ ~lost /\ NoneAfter(0) => (Connected <=> Linked)

LinkInv ==
  /\ LastEventIsLink /\ BitIsLink
  /\ at = "apClear" => nwp.link = "down"

TerminalInv == TypeOK /\ RoleInv /\ LinkInv /\ PingMarked

-----------------------------------------------------------------------------
(* Restarts of the device. *)

\* sl_Stop and sl_Start: all or nothing, or a device that is stopped.
LEMMA RestartOutcomes ==
  ASSUME NEW n \in NwpStates, NEW r \in Restarts(n)
  PROVE /\ r.nwp \in NwpStates /\ r.ok \in BOOLEAN /\ r.stops \in BOOLEAN
        /\ r.ok => r.stops /\ r.nwp.role = n.mode
        /\ r.stops => r.nwp.link = "down" /\ r.nwp.role \in {"stopped", n.mode}
        /\ ~r.stops => r.nwp = n
<1> DEFINE off == Stopped(n)
           on == Started(n)
<1>1. /\ off \in NwpStates /\ off.link = "down" /\ off.role = "stopped"
      /\ on \in NwpStates /\ on.link = "down" /\ on.role = n.mode
  BY DEF Started, Stopped, NwpStates, Roles, Links
<1> HIDE DEF off, on
<1>2. CASE r = [ok |-> FALSE, nwp |-> n, stops |-> FALSE]
  BY <1>2
<1>3. CASE r = [ok |-> FALSE, nwp |-> off, stops |-> TRUE]
  BY <1>1, <1>3
<1>4. CASE r = [ok |-> TRUE, nwp |-> on, stops |-> TRUE]
  BY <1>1, <1>4
<1> QED BY <1>2, <1>3, <1>4 DEF Restarts, off, on

\* A restart that fails leaves the device in its role, or stopped.
LEMMA RestartFails ==
  ASSUME NEW n \in NwpStates, NEW r \in Restarts(n), ~r.ok
  PROVE r.nwp.role \in {"stopped", n.role}
<1>1. Stopped(n).role = "stopped"
  BY DEF Stopped, NwpStates
<1>2. r.nwp = n \/ r.nwp = Stopped(n)
  BY DEF Restarts
<1> QED BY <1>1, <1>2

\* What a device is that will start in another role.
LEMMA OtherMode ==
  ASSUME nwp \in NwpStates, NEW m \in Roles
  PROVE LET n == [nwp EXCEPT !.mode = m] IN
        n \in NwpStates /\ n.mode = m /\ n.role = nwp.role /\ n.link = nwp.link
BY DEF NwpStates

\* A device that will start in the role it has stored.
LEMMA SameMode ==
  ASSUME nwp \in NwpStates
  PROVE nwp.mode \in Roles /\ [nwp EXCEPT !.mode = nwp.mode] = nwp
BY DEF NwpStates

\* A restart to a mode m: the device afterwards, and the role app_CB takes from it.
Restarting(m, r) ==
  /\ r \in Restarts([nwp EXCEPT !.mode = m])
  /\ Restarted(r)
  /\ UNCHANGED <<spawn, attempts, p2p, cancelled, copy>>
  /\ peer' = peer \/ peer' = FALSE
  /\ role' = role \/ (r.ok /\ role' = r.nwp.role)
  /\ role' = "STA" => (role = "STA" /\ ~r.ok) \/ (r.ok /\ r.nwp.role = "STA")

RestartPoints == {"start", "prompt", "station", "join", "apRestart", "p2pParams", "p2pRestart"}
AfterRestart  == {"prompt", "exited", "join", "connect", "p2pCreate"}

\* Where a command may be when it restarts the device and after, and its count.
Between(r) ==
  /\ at \in RestartPoints /\ at' \in AfterRestart
  /\ at' = "p2pCreate" => r.ok /\ r.nwp.role = "P2P" /\ role' = "P2P"
  /\ count' = count \/ (count.typed < MaxCommands
                         /\ count' = [typed |-> count.typed + 1, trials |-> 0])

RestartSteps ==
  \/ mainThread \/ EnterStation \/ setStaticIPConfig \/ RestartAp \/ cmdWlanStopAp
  \/ Configure \/ setP2Pparams \/ StopP2p

\* The nine commands that restart the device have this in common.
LEMMA RestartForms ==
  ASSUME TypeOK, RoleInv, RestartSteps
  PROVE \E m \in Roles : \E r : Restarting(m, r) /\ Between(r)
<1>0. nwp \in NwpStates /\ RoleType
  BY TypeParts
<1>m. nwp.mode \in Roles /\ [nwp EXCEPT !.mode = nwp.mode] = nwp
  BY <1>0, SameMode
<1>o. ASSUME NEW m \in Roles, NEW r \in Restarts([nwp EXCEPT !.mode = m])
      PROVE r.ok \in BOOLEAN /\ (r.ok => r.nwp.role = m)
  BY <1>0, OtherMode, RestartOutcomes
<1> USE DEF Restarting, Between, RestartPoints, AfterRestart, Steps, Command, Goes,
            p2pVars, TakesRole
<1>1. CASE mainThread
  <2>1. PICK to \in {"prompt", "exited"}, r \in Restarts(nwp) :
          /\ Steps("start", to) /\ (to = "prompt" => r.ok)
          /\ Restarted(r) /\ TakesRole(r)
    BY <1>1 DEF mainThread
  <2> QED BY <1>1, <2>1, <1>m, <1>o DEF mainThread
<1>2. CASE EnterStation
  <2>1. PICK r \in Restarts([nwp EXCEPT !.mode = "STA"]) :
          /\ Steps("station", IF r.ok THEN "join" ELSE "prompt")
          /\ Restarted(r) /\ TakesRole(r)
    BY <1>2 DEF EnterStation
  <2> QED BY <1>2, <2>1, <1>o DEF EnterStation, Roles
<1>3. CASE setStaticIPConfig
  <2>1. PICK r \in Restarts(nwp) :
          /\ Steps("join", IF r.ok THEN "connect" ELSE "prompt")
          /\ Restarted(r) /\ TakesRole(r)
    BY <1>3 DEF setStaticIPConfig
  <2> QED BY <1>3, <2>1, <1>m, <1>o DEF setStaticIPConfig
<1>4. CASE RestartAp
  <2> DEFINE m == IF role = "AP" THEN nwp.mode ELSE "AP"
  <2>1. PICK r \in Restarts([nwp EXCEPT !.mode = m]) :
          /\ Steps("apRestart", "prompt") /\ Restarted(r)
          /\ role' = IF r.ok /\ r.nwp.role = "AP" THEN "AP" ELSE role
    BY <1>4 DEF RestartAp
  <2>2. m \in Roles /\ (role = "STA" => m = "AP")
    BY <1>m DEF Roles
  <2>3. r.ok \in BOOLEAN /\ (r.ok => r.nwp.role = m)
    BY <2>1, <2>2, <1>o
  <2> HIDE DEF m
  <2>4. /\ role' = role \/ (r.ok /\ role' = r.nwp.role)
        /\ role' = "STA" => role = "STA" /\ ~r.ok
    BY <2>1, <2>2, <2>3
  <2>5. Restarting(m, r) /\ Between(r)
    BY <1>4, <2>1, <2>4 DEF RestartAp
  <2> QED BY <2>2, <2>5
<1>5. CASE cmdWlanStopAp
  <2>1. PICK r \in Restarts([nwp EXCEPT !.mode = "STA"]) :
          /\ Restarted(r)
          /\ role' = IF r.ok /\ r.nwp.role = "STA" THEN "STA" ELSE role
    BY <1>5 DEF cmdWlanStopAp
  <2> QED BY <1>5, <2>1, <1>o DEF cmdWlanStopAp, Roles
<1>6. CASE Configure
  <2>1. PICK r \in Restarts(nwp) : Restarted(r) /\ TakesRole(r)
    BY <1>6 DEF Configure
  <2> QED BY <1>6, <2>1, <1>m, <1>o DEF Configure
<1>8. CASE setP2Pparams
  <2>1. PICK r \in Restarts([nwp EXCEPT !.mode = "P2P"]) :
          /\ Steps("p2pParams", IF r.ok THEN "p2pCreate" ELSE "prompt")
          /\ Restarted(r) /\ TakesRole(r)
    BY <1>8 DEF setP2Pparams
  <2> QED BY <1>8, <2>1, <1>o DEF setP2Pparams, Roles
<1>9. CASE StopP2p
  <2>0. PICK m \in {nwp.mode, "STA"} : \E r \in Restarts([nwp EXCEPT !.mode = m]) :
          /\ Restarted(r) /\ peer' = (peer /\ ~r.stops)
    BY <1>9 DEF StopP2p
  <2>1. PICK r \in Restarts([nwp EXCEPT !.mode = m]) :
          /\ Restarted(r) /\ peer' = (peer /\ ~r.stops)
    BY <2>0
  <2>2. m \in Roles
    BY <1>m, <2>0 DEF Roles
  <2>3. role = "P2P" /\ role' = role
    BY <1>9 DEF StopP2p, RoleInv
  <2>4. peer' = peer \/ peer' = FALSE
    <3>1. peer \in BOOLEAN
      BY TypeParts DEF HandlerType
    <3> QED BY <2>1, <3>1
  <2>5. Restarting(m, r) /\ Between(r)
    BY <1>9, <2>1, <2>3, <2>4 DEF StopP2p
  <2> QED BY <2>2, <2>5
<1> QED BY <1>1, <1>2, <1>3, <1>4, <1>5, <1>6, <1>8, <1>9 DEF RestartSteps

\* A restart keeps the invariant: it empties the queue, takes the link, and remembers in
\* lost whether the bit has outlived it.
LEMMA RestartStep ==
  ASSUME TerminalInv, RestartSteps
  PROVE TerminalInv'
<1>a. PICK m \in Roles : \E r : Restarting(m, r) /\ Between(r)
  BY RestartForms DEF TerminalInv
<1>1. PICK r : Restarting(m, r) /\ Between(r)
  BY <1>a
<1>2. Restarted(r)
  BY <1>1 DEF Restarting
<1> DEFINE n == [nwp EXCEPT !.mode = m]
<1>0. /\ nwp \in NwpStates /\ QueueType /\ BitsType /\ SemType /\ RoleType
      /\ HandlerType /\ PlaceType
  BY TypeParts DEF TerminalInv
<1>3. n \in NwpStates /\ n.mode = m /\ n.role = nwp.role /\ n.link = nwp.link
  BY <1>0, OtherMode
<1>4. r \in Restarts(n)
  BY <1>1 DEF Restarting
<1> HIDE DEF n
<1>5. /\ r.nwp \in NwpStates /\ r.ok \in BOOLEAN /\ r.stops \in BOOLEAN
      /\ r.ok => r.stops /\ r.nwp.role = m
      /\ r.stops => r.nwp.link = "down" /\ r.nwp.role \in {"stopped", m}
      /\ ~r.stops => r.nwp = n
  BY <1>3, <1>4, RestartOutcomes
<1>6. /\ nwp' = r.nwp /\ status' = status /\ sem' = sem
      /\ r.stops => events' = <<>> /\ lost' = Connected
      /\ ~r.stops => events' = events /\ lost' = lost
  BY <1>2, <1>5 DEF Restarted
<1>7. TypeOK'
  <2>1. nwp' \in NwpStates
    BY <1>5, <1>6
  <2>2. QueueType'
    <3>1. EventMax \in Nat
      BY TerminalAssumption
    <3>2. CASE r.stops
      BY <1>6, <3>1, <3>2 DEF QueueType
    <3>3. CASE ~r.stops
      BY <1>0, <1>6, <3>3 DEF QueueType
    <3> QED BY <1>5, <3>2, <3>3
  <2>3. BitsType' /\ SemType'
    <3>1. copy' = copy
      BY <1>1 DEF Restarting
    <3>3. lost' \in BOOLEAN
      <4>1. CASE r.stops
        <5>1. lost' = ("CONNECTION" \in status)
          BY <1>6, <4>1 DEF Connected
        <5> QED BY <5>1
      <4>2. CASE ~r.stops
        BY <1>0, <1>6, <4>2 DEF BitsType
      <4> QED BY <1>5, <4>1, <4>2
    <3> QED BY <1>0, <1>6, <3>1, <3>3 DEF BitsType, SemType
  <2>4. RoleType' /\ HandlerType'
    BY <1>0, <1>1, <1>3, <1>5 DEF RoleType, HandlerType, Restarting
  <2>6. PlaceType'
    <3>1. at' \in MainPoints /\ p2p' \in P2pPoints /\ cancelled' \in BOOLEAN
      BY <1>0, <1>1 DEF PlaceType, Between, Restarting, AfterRestart, MainPoints
    <3>2. count' \in [typed : 0..MaxCommands, trials : 0..MaxScanTrails]
      BY <1>0, <1>1, TerminalAssumption DEF PlaceType, Between
    <3> QED BY <3>1, <3>2 DEF PlaceType
  <2> QED BY <2>1, <2>2, <2>3, <2>4, <2>6
          DEF TypeOK, NwpStates, QueueType, BitsType, SemType, RoleType, HandlerType, PlaceType
<1>8. RoleInv'
  <2>1. StationIsStation'
    <3>1. role' = "STA" => (role = "STA" /\ ~r.ok) \/ (r.ok /\ r.nwp.role = "STA")
      BY <1>1 DEF Restarting
    <3>2. role = "STA" => nwp.role \in {"STA", "stopped"}
      BY DEF TerminalInv, RoleInv, StationIsStation
    <3>3. ~r.ok => r.nwp.role = "stopped" \/ r.nwp.role = nwp.role
      BY <1>3, <1>4, <1>5, RestartFails
    <3> QED BY <1>6, <3>1, <3>2, <3>3 DEF StationIsStation
  <2>2. ~Live'
    BY <1>1 DEF TerminalInv, RoleInv, Live, PeerPoints, Between, RestartPoints, Restarting
  <2>3. /\ at' = "p2pCreate" => nwp'.role = "P2P" /\ role' = "P2P"
        /\ at' # "p2pRestart"
    BY <1>1, <1>6 DEF Between, AfterRestart
  <2> QED BY <2>1, <2>2, <2>3 DEF RoleInv
<1>9. LinkInv'
  <2>1. at' # "apClear"
    BY <1>1 DEF Between, AfterRestart
  <2>2. CASE r.stops
    <3>1. events' = <<>> /\ ~Linked' /\ lost' = Connected /\ Connected' = Connected
      BY <1>5, <1>6, <2>2 DEF Linked, Connected
    <3> QED BY <2>1, <3>1 DEF LinkInv, LastEventIsLink, BitIsLink, NoneAfter
  <2>3. CASE ~r.stops
    <3>1. /\ events' = events /\ lost' = lost /\ status' = status
          /\ nwp'.role = nwp.role /\ nwp'.link = nwp.link
      BY <1>3, <1>5, <1>6, <2>3
    <3> QED BY <2>1, <3>1 DEF TerminalInv, LinkInv, LastEventIsLink, BitIsLink, NoneAfter,
                             Linked, Connected
  <2> QED BY <1>5, <2>2, <2>3
<1>10. PingMarked'
  BY <1>1 DEF Between, AfterRestart, PingMarked
<1> QED BY <1>7, <1>8, <1>9, <1>10 DEF TerminalInv

-----------------------------------------------------------------------------
(* What a step does to the link and to the bit.  Each lemma gives LinkInv  *)
(* after one kind of step.                                                 *)

\* Nothing is said of a device that is not a station.
LEMMA LinkOther ==
  ASSUME nwp'.role # "STA", at' = "apClear" => nwp'.link = "down"
  PROVE LinkInv'
BY DEF LinkInv, LastEventIsLink, BitIsLink

\* A step that raises and handles nothing keeps the link and the bit, or gives the bit up.
LEMMA LinkKept ==
  ASSUME LinkInv, nwp'.role = nwp.role, Linked' = Linked, events' = events,
         lost' \/ (~lost /\ Connected' = Connected),
         at' = "apClear" => nwp'.link = "down"
  PROVE LinkInv'
BY DEF LinkInv, LastEventIsLink, BitIsLink, NoneAfter

\* An event of the link is raised with the link it tells of, another with the link as it is.
LEMMA LinkRaised ==
  ASSUME LinkInv, QueueType, NEW e \in Events, events' = Append(events, e),
         nwp'.role = nwp.role, status' = status, lost' = lost,
         nwp.role = "STA" =>
           IF e \in LinkEvents THEN e = "CONNECT" <=> Linked' ELSE Linked' = Linked,
         at' = "apClear" => nwp'.link = "down"
  PROVE LinkInv'
<1>1. SUFFICES ASSUME nwp'.role = "STA"
               PROVE LinkInv'
  BY LinkOther
<1>2. /\ Len(events') = Len(events) + 1 /\ Len(events) \in Nat
      /\ \A i \in 1..Len(events) : events'[i] = events[i]
      /\ events'[Len(events) + 1] = e
  BY DEF QueueType
<1>3. CASE e \in LinkEvents
  <2>1. LastEventIsLink'
    <3>1. SUFFICES ASSUME NEW i \in 1..Len(events'), events'[i] \in LinkEvents, NoneAfter(i)'
                   PROVE events'[i] = "CONNECT" <=> Linked'
      BY DEF LastEventIsLink
    <3>2. i = Len(events')
      BY <1>2, <1>3, <3>1 DEF NoneAfter
    <3> QED BY <1>1, <1>2, <1>3, <3>2
  <2>2. BitIsLink'
    BY <1>2, <1>3 DEF BitIsLink, NoneAfter
  <2> QED BY <2>1, <2>2 DEF LinkInv
<1>4. CASE e \notin LinkEvents
  <2>1. Linked' = Linked
    BY <1>1, <1>4
  <2>2. \A i \in 0..Len(events) : NoneAfter(i)' => NoneAfter(i)
    BY <1>2 DEF NoneAfter
  <2>3. LastEventIsLink'
    <3>1. SUFFICES ASSUME NEW i \in 1..Len(events'), events'[i] \in LinkEvents, NoneAfter(i)'
                   PROVE events'[i] = "CONNECT" <=> Linked'
      BY DEF LastEventIsLink
    <3>2. i \in 1..Len(events) /\ events'[i] = events[i]
      BY <1>2, <1>4, <3>1
    <3> QED BY <1>1, <2>1, <2>2, <3>1, <3>2 DEF LinkInv, LastEventIsLink
  <2>4. BitIsLink'
    BY <1>1, <1>2, <2>1, <2>2 DEF LinkInv, BitIsLink, Connected
  <2> QED BY <2>3, <2>4 DEF LinkInv
<1> QED BY <1>3, <1>4

\* A handler takes the first event: the bit becomes what an event of the link says.
LEMMA LinkHandled ==
  ASSUME LinkInv, QueueType, events # <<>>, events' = Tail(events), nwp' = nwp, at' = at,
         IF Head(events) \in LinkEvents
         THEN Connected' <=> Head(events) = "CONNECT"
         ELSE Connected' = Connected /\ (lost => lost')
  PROVE LinkInv'
<1>0. /\ Len(events) \in Nat \ {0} /\ Len(events') = Len(events) - 1
      /\ \A i \in 1..Len(events') : events'[i] = events[i + 1]
      /\ Head(events) = events[1]
  BY DEF QueueType
<1>1. Linked' = Linked
  BY DEF Linked
<1>2. \A i \in 0..Len(events') : NoneAfter(i)' => NoneAfter(i + 1)
  <2>1. SUFFICES ASSUME NEW i \in 0..Len(events'), NoneAfter(i)',
                        NEW j \in (i + 2)..Len(events)
                 PROVE events[j] \notin LinkEvents
    BY DEF NoneAfter
  <2>2. j - 1 \in (i + 1)..Len(events') /\ events'[j - 1] = events[j]
    BY <1>0, <2>1
  <2> QED BY <2>1, <2>2 DEF NoneAfter
<1>3. LastEventIsLink'
  <2>1. SUFFICES ASSUME nwp.role = "STA", NEW i \in 1..Len(events'),
                        events'[i] \in LinkEvents, NoneAfter(i)'
                 PROVE events'[i] = "CONNECT" <=> Linked
    BY <1>1 DEF LastEventIsLink
  <2>2. i + 1 \in 1..Len(events) /\ events'[i] = events[i + 1] /\ NoneAfter(i + 1)
    BY <1>0, <1>2, <2>1
  <2> QED BY <2>1, <2>2 DEF LinkInv, LastEventIsLink
<1>4. BitIsLink'
  <2>1. SUFFICES ASSUME nwp.role = "STA", ~lost', NoneAfter(0)'
                 PROVE Connected' <=> Linked
    BY <1>1 DEF BitIsLink
  <2>2. NoneAfter(1)
    BY <1>0, <1>2, <2>1
  <2>3. CASE Head(events) \in LinkEvents
    <3>1. 1 \in 1..Len(events) /\ events[1] \in LinkEvents
      BY <1>0, <2>3
    <3>2. events[1] = "CONNECT" <=> Linked
      BY <2>1, <2>2, <3>1 DEF LinkInv, LastEventIsLink
    <3> QED BY <1>0, <2>3, <3>2
  <2>4. CASE Head(events) \notin LinkEvents
    <3>1. NoneAfter(0)
      BY <1>0, <2>2, <2>4 DEF NoneAfter
    <3>2. ~lost /\ Connected' = Connected
      BY <2>1, <2>4
    <3> QED BY <2>1, <3>1, <3>2 DEF LinkInv, BitIsLink
  <2> QED BY <2>3, <2>4
<1> QED BY <1>3, <1>4 DEF LinkInv

-----------------------------------------------------------------------------
(* The network processor and the event handlers. *)

\* A step that leaves the role of the device, the commands and the threads alone.
LEMMA Elsewhere ==
  ASSUME RoleInv, nwp'.role = nwp.role, UNCHANGED <<role, at, p2p>>
  PROVE RoleInv'
BY DEF RoleInv, StationIsStation, Live

\* An event that the NWP raises, and what it tells of the link.
LEMMA RaiseStep ==
  ASSUME TerminalInv, NEW e \in Events, NEW n \in NwpStates, Raises(e, n), n.role = nwp.role,
         nwp.role = "STA" =>
           IF e \in LinkEvents THEN e = "CONNECT" <=> n.link \in {"up", "leased"}
                               ELSE n.link \in {"up", "leased"} <=> Linked,
         nwp.link = "down" => n.link = "down"
  PROVE TerminalInv'
<1>0. /\ nwp \in NwpStates /\ QueueType /\ BitsType /\ SemType /\ RoleType
      /\ HandlerType /\ PlaceType
  BY TypeParts DEF TerminalInv
<1>1. /\ nwp' = n /\ events' = Append(events, e) /\ Len(events) < EventMax
      /\ UNCHANGED <<appVars, spawn, mainVars, p2pVars, lost>>
  BY DEF Raises
<1>2. TypeOK'
  <2>1. QueueType'
    BY <1>0, <1>1, TerminalAssumption DEF QueueType
  <2> QED BY <1>0, <1>1, <2>1
          DEF TypeOK, NwpStates, QueueType, BitsType, SemType, RoleType, HandlerType,
              PlaceType, appVars, mainVars, p2pVars
<1>3. RoleInv'
  BY <1>1, Elsewhere DEF TerminalInv, appVars, mainVars, p2pVars
<1>4. LinkInv'
  <2>1. Linked' <=> n.link \in {"up", "leased"}
    BY <1>1 DEF Linked
  <2>3. status' = status /\ lost' = lost /\ at' = at
    BY <1>1 DEF appVars, mainVars
  <2>4. at' = "apClear" => nwp'.link = "down"
    BY <1>1, <2>3 DEF TerminalInv, LinkInv
  <2>5. LinkInv
    BY DEF TerminalInv
  <2>6. nwp.role = "STA" =>
          IF e \in LinkEvents THEN e = "CONNECT" <=> Linked' ELSE Linked' = Linked
    BY <2>1 DEF Linked
  <2> QED BY <1>0, <1>1, <2>3, <2>4, <2>5, <2>6, LinkRaised
<1>5. PingMarked'
  BY <1>1 DEF TerminalInv, PingMarked, mainVars, appVars
<1> QED BY <1>2, <1>3, <1>4, <1>5 DEF TerminalInv

\* The NWP keeps the invariant: an event of the link comes with the link it tells of.
LEMMA NwpStep ==
  ASSUME TerminalInv, Nwp
  PROVE TerminalInv'
<1>0. nwp \in NwpStates
  BY TypeParts DEF TerminalInv
<1>1. CASE Associate
  <2> DEFINE n == [nwp EXCEPT !.link = "up"]
             e == IF nwp.role = "STA" THEN "CONNECT" ELSE "P2P_CONNECT"
  <2>1. n \in NwpStates /\ n.role = nwp.role /\ n.link = "up"
    BY <1>0 DEF NwpStates, Links
  <2>2. e \in Events /\ (nwp.role = "STA" => e = "CONNECT") /\ "CONNECT" \in LinkEvents
    BY DEF Events, LinkEvents
  <2>3. Raises(e, n) /\ nwp.link # "down"
    BY <1>1 DEF Associate
  <2> QED BY <2>1, <2>2, <2>3, RaiseStep
<1>2. CASE Lease
  <2> DEFINE n == [nwp EXCEPT !.link = "leased"]
  <2>1. n \in NwpStates /\ n.role = nwp.role /\ n.link = "leased"
    BY <1>0 DEF NwpStates, Links
  <2>2. Raises("IPV4_ACQUIRED", n) /\ nwp.link = "up"
    BY <1>2 DEF Lease
  <2>3. "IPV4_ACQUIRED" \in Events \ LinkEvents
    BY DEF Events, LinkEvents
  <2> QED BY <2>1, <2>2, <2>3, RaiseStep DEF Linked
<1>3. CASE Drop
  <2> DEFINE n == [nwp EXCEPT !.link = "down", !.pinging = FALSE]
  <2>1. n \in NwpStates /\ n.role = nwp.role /\ n.link = "down"
    BY <1>0 DEF NwpStates, Links
  <2>2. PICK e \in IF nwp.role = "STA" THEN {"DISCONNECT"}
                   ELSE {"P2P_DISCONNECT", "P2P_CLIENT_REMOVED"} : Raises(e, n)
    BY <1>3 DEF Drop
  <2>3. e \in Events /\ e \in LinkEvents /\ e # "CONNECT"
    BY <2>2 DEF Events, LinkEvents
  <2> QED BY <2>1, <2>2, <2>3, RaiseStep
<1>4. CASE FindPeer
  <2>1. PICK e \in {"P2P_DEVFOUND", "P2P_REQUEST"} : Raises(e, nwp)
    BY <1>4 DEF FindPeer
  <2>2. e \in Events \ LinkEvents
    BY <2>1 DEF Events, LinkEvents
  <2> QED BY <1>0, <2>1, <2>2, RaiseStep DEF Linked
<1>5. CASE StationJoins
  <2>1. "DHCPV4_LEASED" \in Events \ LinkEvents
    BY DEF Events, LinkEvents
  <2> QED BY <1>0, <1>5, <2>1, RaiseStep DEF StationJoins, Linked
<1>6. CASE ReportPing
  <2> DEFINE n == [nwp EXCEPT !.pinging = FALSE]
  <2>1. n \in NwpStates /\ n.role = nwp.role /\ n.link = nwp.link
    BY <1>0 DEF NwpStates
  <2>2. Raises("PING_REPORT", n) /\ "PING_REPORT" \in Events \ LinkEvents
    BY <1>6 DEF ReportPing, Events, LinkEvents
  <2> QED BY <2>1, <2>2, RaiseStep DEF Linked
<1> QED BY <1>1, <1>2, <1>3, <1>4, <1>5, <1>6 DEF Nwp

\* A handler keeps the invariant when it makes the connection bit what its event says, and
\* wakes the ping whose bit it clears.
LEMMA HandleStep ==
  ASSUME TerminalInv, NEW e \in Events, NEW sets \in SUBSET Bits, NEW clears,
         NEW posts \in Sems \union {"idle"},
         Handle(e, sets, clears, posts), peer' \in BOOLEAN, attempts' \in 0..1,
         e = "CONNECT" => "CONNECTION" \in sets,
         e # "CONNECT" => "CONNECTION" \notin sets,
         e # "CONNECT" /\ e \in LinkEvents => "CONNECTION" \in clears,
         e \notin LinkEvents => "CONNECTION" \notin clears,
         "PING_STARTED" \in clears => posts = "eventCompleted"
  PROVE TerminalInv'
<1>0. /\ nwp \in NwpStates /\ QueueType /\ BitsType /\ SemType /\ RoleType
      /\ HandlerType /\ PlaceType
  BY TypeParts DEF TerminalInv
<1>1. /\ events # <<>> /\ Head(events) = e /\ events' = Tail(events)
      /\ status' = (status \ clears) \union sets /\ spawn' = posts
      /\ lost' = (lost /\ "CONNECTION" \notin sets \union clears)
      /\ UNCHANGED <<nwp, sem, role, mainVars, p2pVars>>
  BY DEF Handle
<1>2. TypeOK'
  <2>1. QueueType'
    <3>1. Len(events) \in Nat /\ Tail(events) \in Seq(Events) /\ Len(Tail(events)) = Len(events) - 1
      BY <1>0, <1>1 DEF QueueType
    <3> QED BY <1>0, <1>1, <3>1, TerminalAssumption DEF QueueType
  <2>2. status' \subseteq Bits
    BY <1>0, <1>1 DEF BitsType
  <2>3. lost' \in BOOLEAN
    BY <1>1
  <2> QED BY <1>0, <1>1, <2>1, <2>2, <2>3
          DEF TypeOK, NwpStates, QueueType, BitsType, SemType, RoleType, HandlerType,
              PlaceType, mainVars, p2pVars
<1>3. RoleInv'
  BY <1>1, Elsewhere DEF TerminalInv, mainVars, p2pVars
<1>4. LinkInv'
  <2>1. e \in LinkEvents => (Connected' <=> e = "CONNECT")
    BY <1>1 DEF Connected
  <2>2. e \notin LinkEvents => Connected' = Connected /\ (lost => lost')
    <3>1. "CONNECT" \in LinkEvents
      BY DEF LinkEvents
    <3>2. SUFFICES ASSUME e \notin LinkEvents
                   PROVE Connected' = Connected /\ (lost => lost')
      OBVIOUS
    <3>3. "CONNECTION" \notin sets /\ "CONNECTION" \notin clears
      BY <3>1, <3>2
    <3>4. ("CONNECTION" \in status') <=> ("CONNECTION" \in status)
      BY <1>1, <3>3
    <3>5. lost => lost'
      BY <1>1, <3>3
    <3> QED BY <3>4, <3>5 DEF Connected
  <2>3. LinkInv /\ at' = at /\ nwp' = nwp
    BY <1>1 DEF TerminalInv, mainVars
  <2> QED BY <1>0, <1>1, <2>1, <2>2, <2>3, LinkHandled
<1>5. PingMarked'
  <2>1. spawn = "idle" /\ sem' = sem /\ at' = at
    BY <1>1 DEF Handle, mainVars
  <2>2. "PING_STARTED" \in status => "PING_STARTED" \in status' \/ spawn' = "eventCompleted"
    BY <1>1
  <2> QED BY <2>1, <2>2 DEF TerminalInv, PingMarked
<1> QED BY <1>2, <1>3, <1>4, <1>5 DEF TerminalInv

\* The semaphores stay within their maximum, and a post is there to be taken.
LEMMA SemPosted ==
  ASSUME SemType, NEW s \in Sems
  PROVE /\ Post(s) \in [Sems -> 0..SemMax] /\ Post(s)[s] > 0
        /\ \A t \in Sems : t # s => Post(s)[t] = sem[t]
        /\ sem[s] > 0 => Taken(s) \in [Sems -> 0..SemMax]
BY TerminalAssumption DEF SemType, Post, Taken, Raised

\* The handlers and their semaphores keep the invariant.
LEMMA SpawnStep ==
  ASSUME TerminalInv, Spawn
  PROVE TerminalInv'
<1>0. /\ nwp \in NwpStates /\ QueueType /\ BitsType /\ SemType /\ RoleType
      /\ HandlerType /\ PlaceType
  BY TypeParts DEF TerminalInv
<1> USE DEF Events, LinkEvents, Bits, Sems, HandleOnly, HandlerType
<1>1. CASE OnConnect
  BY <1>0, <1>1, HandleStep DEF OnConnect
<1>2. CASE OnDisconnect
  <2> DEFINE posts == IF "PING_STARTED" \in status THEN "eventCompleted" ELSE "idle"
  <2>1. posts \in Sems \union {"idle"}
    OBVIOUS
  <2>2. /\ Handle("DISCONNECT", {}, {"CONNECTION", "IP_ACQUIRED"}, posts)
        /\ UNCHANGED <<peer, attempts>>
    BY <1>2 DEF OnDisconnect
  <2> HIDE DEF posts
  <2> QED BY <1>0, <2>1, <2>2, HandleStep
<1>3. CASE OnDeviceFound
  BY <1>0, <1>3, HandleStep DEF OnDeviceFound
<1>4. CASE OnP2pRequest
  BY <1>0, <1>4, HandleStep DEF OnP2pRequest
<1>5. CASE OnP2pConnect
  BY <1>0, <1>5, HandleStep DEF OnP2pConnect
<1>6. CASE OnP2pDisconnect
  BY <1>0, <1>6, HandleStep DEF OnP2pDisconnect
<1>7. CASE OnP2pClientRemoved
  BY <1>0, <1>7, HandleStep DEF OnP2pClientRemoved
<1>8. CASE OnIpv4Acquired
  BY <1>0, <1>8, HandleStep DEF OnIpv4Acquired
<1>9. CASE OnDhcpLeased
  BY <1>0, <1>9, HandleStep DEF OnDhcpLeased
<1>10. CASE OnPingReport
  <2> DEFINE last == "PING_STARTED" \in status /\ attempts = 1
             clears == IF last THEN {"PING_STARTED"} ELSE {}
             posts == IF last THEN "eventCompleted" ELSE "idle"
  <2>1. /\ posts \in Sems \union {"idle"} /\ "CONNECTION" \notin clears
        /\ "PING_STARTED" \in clears => posts = "eventCompleted"
        /\ (IF last THEN 0 ELSE attempts) \in 0..1
    BY <1>0
  <2>2. /\ Handle("PING_REPORT", {}, clears, posts)
        /\ attempts' = IF last THEN 0 ELSE attempts
        /\ peer' = peer
    BY <1>10 DEF OnPingReport
  <2> HIDE DEF last, clears, posts
  <2> QED BY <1>0, <2>1, <2>2, HandleStep
<1>11. CASE PostSem
  <2>1. /\ spawn \in Sems /\ sem' = Post(spawn) /\ spawn' = "idle"
        /\ UNCHANGED <<nwp, events, status, role, peer, attempts, mainVars, p2pVars, lost>>
    BY <1>0, <1>11 DEF PostSem
  <2>2. sem' \in [Sems -> 0..SemMax]
    BY <1>0, <2>1, SemPosted
  <2>3. TypeOK'
    BY <1>0, <2>1, <2>2
       DEF TypeOK, NwpStates, QueueType, BitsType, SemType, RoleType, HandlerType,
           PlaceType, mainVars, p2pVars
  <2>4. RoleInv'
    BY <2>1, Elsewhere DEF TerminalInv, mainVars, p2pVars
  <2>5. LinkInv'
    BY <2>1 DEF TerminalInv, LinkInv, LastEventIsLink, BitIsLink, NoneAfter, Linked, Connected,
                mainVars
  <2>6. PingMarked'
    <3>1. sem'[spawn] > 0 /\ \A t \in Sems : t # spawn => sem'[t] = sem[t]
      BY <1>0, <2>1, SemPosted
    <3>2. "eventCompleted" \in Sems
      OBVIOUS
    <3> QED BY <2>1, <3>1, <3>2 DEF TerminalInv, PingMarked, mainVars
  <2> QED BY <2>3, <2>4, <2>5, <2>6 DEF TerminalInv
<1> QED BY <1>1, <1>2, <1>3, <1>4, <1>5, <1>6, <1>7, <1>8, <1>9, <1>10, <1>11 DEF Spawn

-----------------------------------------------------------------------------
(* The commands. *)

\* A step of a command that leaves the device, the bits and the roles alone: it moves on,
\* takes a semaphore, or makes or joins the thread of p2pstart.
Calm ==
  /\ UNCHANGED <<nwpVars, status, role, peer, spawn, attempts>>
  /\ SemType' /\ PlaceType' /\ copy' \in [{"main", "p2p"} -> SUBSET Bits]
  /\ at' \notin {"apClear", "p2pCreate", "p2pRestart", "pingSend", "pingWait"}
  /\ Live' => at' \in PeerPoints /\ nwp.role = "P2P" /\ role = "P2P"

CalmSteps ==
  \/ Refuse \/ cmdWlanConnect \/ cmdScan \/ cmdPing \/ cmdP2PMode \/ cmdP2PStop
  \/ CheckConnected \/ WaitConnect \/ CheckIp \/ WaitIp \/ ScanAgain \/ ScanReturns
  \/ WaitPing \/ CreateThread \/ CheckPeer \/ JoinThread \/ User \/ ApModeFails

\* The count of commands stays in its bound.
LEMMA Counted ==
  ASSUME PlaceType
  PROVE /\ count.typed < MaxCommands =>
             [typed |-> count.typed + 1, trials |-> 0]
               \in [typed : 0..MaxCommands, trials : 0..MaxScanTrails]
        /\ count.trials < MaxScanTrails =>
             [count EXCEPT !.trials = @ + 1]
               \in [typed : 0..MaxCommands, trials : 0..MaxScanTrails]
BY TerminalAssumption DEF PlaceType

\* These steps are calm.
LEMMA CalmForms ==
  ASSUME TerminalInv, CalmSteps
  PROVE Calm
<1>0. /\ BitsType /\ SemType /\ PlaceType /\ RoleInv
  BY TypeParts DEF TerminalInv
<1>c. \A s \in Sems : sem[s] > 0 => Taken(s) \in [Sems -> 0..SemMax]
  BY <1>0, SemPosted
<1> USE DEF Calm, Command, Steps, Goes, nwpVars, appVars, p2pVars, SemType, PlaceType,
            MainPoints, Live, PeerPoints, RoleInv, BitsType
<1>1. CASE Refuse
  BY <1>0, <1>1, Counted DEF Refuse
<1>2. CASE cmdWlanConnect
  BY <1>0, <1>2, Counted DEF cmdWlanConnect
<1>3. CASE cmdScan
  BY <1>0, <1>3, Counted DEF cmdScan
<1>4. CASE cmdPing
  <2>1. sem' \in [Sems -> 0..SemMax]
    <3>1. sem["eventCompleted"] \in 0..SemMax /\ SemMax \in Nat
      BY <1>0, TerminalAssumption DEF Sems
    <3> DEFINE left == IF sem["eventCompleted"] > 0 THEN sem["eventCompleted"] - 1 ELSE 0
    <3>2. left \in 0..SemMax
      BY <3>1
    <3>3. sem' = [sem EXCEPT !["eventCompleted"] = left]
      BY <1>4 DEF cmdPing
    <3> HIDE DEF left
    <3> QED BY <1>0, <3>2, <3>3
  <2>2. copy' \in [{"main", "p2p"} -> SUBSET Bits]
    BY <1>0, <1>4 DEF cmdPing
  <2> QED BY <1>0, <1>4, <2>1, <2>2, Counted DEF cmdPing
<1>5. CASE cmdP2PMode
  BY <1>0, <1>5, Counted DEF cmdP2PMode
<1>6. CASE cmdP2PStop
  BY <1>0, <1>6, Counted DEF cmdP2PStop
<1>7. CASE CheckConnected
  BY <1>0, <1>7 DEF CheckConnected
<1>8. CASE WaitConnect
  BY <1>0, <1>8, <1>c DEF WaitConnect, WaitTimed, Sems
<1>9. CASE CheckIp
  BY <1>0, <1>9 DEF CheckIp
<1>10. CASE WaitIp
  BY <1>0, <1>10, <1>c DEF WaitIp, WaitTimed, Sems
<1>11. CASE ScanAgain
  BY <1>0, <1>11, Counted DEF ScanAgain
<1>12. CASE ScanReturns
  BY <1>0, <1>12 DEF ScanReturns
<1>13. CASE WaitPing
  BY <1>0, <1>13, <1>c DEF WaitPing, Sems
<1>14. CASE CreateThread
  BY <1>0, <1>14 DEF CreateThread, P2pPoints
<1>15. CASE CheckPeer
  BY <1>0, <1>15 DEF CheckPeer
<1>16. CASE JoinThread
  BY <1>0, <1>16 DEF JoinThread, P2pPoints
<1>17. CASE TypesOther
  BY <1>0, <1>17 DEF TypesOther
<1>18. CASE TypesP2pStop
  BY <1>0, <1>18 DEF TypesP2pStop
<1>19. CASE ApModeFails
  BY <1>0, <1>19 DEF ApModeFails
<1> QED BY <1>1, <1>2, <1>3, <1>4, <1>5, <1>6, <1>7, <1>8, <1>9, <1>10, <1>11, <1>12, <1>13,
           <1>14, <1>15, <1>16, <1>17, <1>18, <1>19 DEF CalmSteps, User

\* A calm step keeps the invariant.
LEMMA CalmStep ==
  ASSUME TerminalInv, CalmSteps
  PROVE TerminalInv'
<1>0. /\ nwp \in NwpStates /\ QueueType /\ BitsType /\ RoleType /\ HandlerType
  BY TypeParts DEF TerminalInv
<1>1. Calm
  BY CalmForms
<1>2. /\ nwp' = nwp /\ events' = events /\ lost' = lost
      /\ status' = status /\ role' = role /\ peer' = peer /\ spawn' = spawn
      /\ attempts' = attempts
  BY <1>1 DEF Calm, nwpVars
<1>3. TypeOK'
  BY <1>0, <1>1, <1>2
     DEF TypeOK, NwpStates, QueueType, BitsType, SemType, RoleType, HandlerType,
         PlaceType, Calm
<1>4. RoleInv'
  BY <1>1, <1>2 DEF TerminalInv, RoleInv, StationIsStation, Calm
<1>5. LinkInv'
  <2>1. /\ Linked' = Linked /\ Connected' = Connected /\ lost \in BOOLEAN /\ LinkInv
        /\ at' # "apClear" /\ nwp'.role = nwp.role
    BY <1>0, <1>1, <1>2 DEF Linked, Connected, BitsType, TerminalInv, Calm
  <2> QED BY <1>2, <2>1, LinkKept
<1>6. PingMarked'
  BY <1>1 DEF Calm, PingMarked
<1> QED BY <1>3, <1>4, <1>5, <1>6 DEF TerminalInv

\* sl_WlanDisconnect takes the link; if there was one, the event that says so is queued.
LEMMA LinkLeft ==
  ASSUME TerminalInv, Leaves, status' = status, lost' = lost
  PROVE nwp' \in NwpStates /\ nwp'.role = nwp.role /\ nwp'.link = "down" /\ QueueType' /\ LinkInv'
<1>0. nwp \in NwpStates /\ QueueType /\ LinkInv /\ BitsType
  BY TypeParts DEF TerminalInv
<1>1. /\ nwp' \in NwpStates /\ nwp'.role = nwp.role /\ nwp'.link = "down" /\ ~Linked'
      /\ Len(events) < EventMax
  BY <1>0 DEF Leaves, NwpStates, Links, Linked
<1>2. CASE Linked
  <2> DEFINE e == IF nwp.role = "STA" THEN "DISCONNECT" ELSE "P2P_DISCONNECT"
  <2>1. e \in Events /\ e \in LinkEvents /\ e # "CONNECT"
    BY DEF Events, LinkEvents
  <2>2. events' = Append(events, e)
    BY <1>2 DEF Leaves
  <2> HIDE DEF e
  <2>3. QueueType'
    BY <1>0, <1>1, <2>1, <2>2, TerminalAssumption DEF QueueType
  <2> QED BY <1>0, <1>1, <2>1, <2>2, <2>3, LinkRaised
<1>3. CASE ~Linked
  <2>1. events' = events /\ Linked' = Linked /\ Connected' = Connected /\ lost \in BOOLEAN
    BY <1>0, <1>1, <1>3 DEF Leaves, Connected, BitsType, Linked
  <2> QED BY <1>0, <1>1, <2>1, LinkKept DEF QueueType
<1> QED BY <1>1, <1>2, <1>3

LinkSteps ==
  \/ Join \/ SendPing \/ StopPing \/ cmdWlanDisconnect \/ cmdWlanStartAp \/ ClearBits
  \/ SetPingBit \/ LeavePeer

\* What these steps have in common: they change neither role nor semaphores,
\* and no thread of p2pstart is running.
LEMMA LinkForms ==
  ASSUME TerminalInv, LinkSteps
  PROVE /\ UNCHANGED <<role, peer, spawn, sem, p2p, cancelled>>
        /\ ~Live /\ PlaceType' /\ attempts' \in 0..1
        /\ at' # "p2pCreate" /\ (at' = "p2pRestart" => role = "P2P")
        /\ at' \in {"pingSend", "pingWait"} =>
             "PING_STARTED" \in status' \/ (at = "pingSend" /\ status' = status)
<1>0. PlaceType /\ HandlerType /\ RoleInv
  BY TypeParts DEF TerminalInv
<1> USE DEF Command, Steps, Goes, p2pVars, appVars, PlaceType, HandlerType, MainPoints,
            RoleInv, PeerPoints
<1>1. CASE Join
  BY <1>0, <1>1 DEF Join
<1>2. CASE SendPing
  BY <1>0, <1>2 DEF SendPing
<1>3. CASE StopPing
  BY <1>0, <1>3 DEF StopPing
<1>4. CASE cmdWlanDisconnect
  BY <1>0, <1>4, Counted DEF cmdWlanDisconnect
<1>5. CASE cmdWlanStartAp
  BY <1>0, <1>5, Counted DEF cmdWlanStartAp
<1>6. CASE ClearBits
  BY <1>0, <1>6 DEF ClearBits
<1>7. CASE SetPingBit
  BY <1>0, <1>7 DEF SetPingBit
<1>8. CASE LeavePeer
  BY <1>0, <1>8 DEF LeavePeer
<1> QED BY <1>1, <1>2, <1>3, <1>4, <1>5, <1>6, <1>7, <1>8 DEF LinkSteps

\* The device, the queue and the bits after each of them.
LEMMA LinkEffects ==
  ASSUME TerminalInv, LinkSteps
  PROVE nwp' \in NwpStates /\ nwp'.role = nwp.role /\ QueueType' /\ BitsType' /\ LinkInv'
<1>0. nwp \in NwpStates /\ QueueType /\ BitsType /\ LinkInv
  BY TypeParts DEF TerminalInv
<1>q. ASSUME nwp' \in NwpStates, nwp'.role = nwp.role, Linked' = Linked, events' = events,
             status' = status, lost' = lost, at' # "apClear", copy' = copy
      PROVE QueueType' /\ BitsType' /\ LinkInv'
  <2>1. Connected' = Connected /\ lost \in BOOLEAN
    BY <1>0, <1>q DEF Connected, BitsType
  <2>2. LinkInv'
    BY <1>0, <1>q, <2>1, LinkKept
  <2> QED BY <1>0, <1>q, <2>2 DEF QueueType, BitsType
<1>1. CASE Join
  <2>1. nwp' \in NwpStates /\ nwp'.role = nwp.role /\ Linked' = Linked
    BY <1>0, <1>1 DEF Join, NwpStates, Links, Linked
  <2> QED BY <1>1, <1>q, <2>1 DEF Join, Steps, Goes, p2pVars
<1>2. CASE SendPing
  <2>1. nwp' \in NwpStates /\ nwp'.role = nwp.role /\ Linked' = Linked
    BY <1>0, <1>2 DEF SendPing, NwpStates, Linked
  <2> QED BY <1>2, <1>q, <2>1 DEF SendPing, Goes, p2pVars
<1>3. CASE StopPing
  <2>1. nwp' \in NwpStates /\ nwp'.role = nwp.role /\ Linked' = Linked
    BY <1>0, <1>3 DEF StopPing, NwpStates, Linked
  <2> QED BY <1>3, <1>q, <2>1 DEF StopPing, Steps, Goes, p2pVars
<1>4. CASE cmdWlanDisconnect
  <2>1. Leaves /\ status' = status /\ lost' = lost /\ copy' = copy
    BY <1>4 DEF cmdWlanDisconnect, Command, p2pVars
  <2> QED BY <1>0, <2>1, LinkLeft DEF BitsType
<1>5. CASE cmdWlanStartAp
  <2>1. CASE role # "AP" /\ Connected
    <3>1. /\ Leaves /\ status' = status /\ lost' = lost
          /\ copy' = [copy EXCEPT !.main = status]
      BY <1>5, <2>1 DEF cmdWlanStartAp
    <3>2. BitsType'
      BY <1>0, <3>1 DEF BitsType
    <3> QED BY <3>1, <3>2, LinkLeft
  <2>2. CASE ~(role # "AP" /\ Connected)
    BY <1>0, <1>5, <1>q, <2>2 DEF cmdWlanStartAp, Goes, Linked
  <2> QED BY <2>1, <2>2
<1>6. CASE ClearBits
  <2>1. /\ nwp' = nwp /\ events' = events /\ at = "apClear" /\ at' = "apRestart" /\ lost' = FALSE
        /\ status' = copy.main \ {"CONNECTION", "IP_ACQUIRED"}
        /\ copy' = [copy EXCEPT !.main = {}]
    BY <1>6 DEF ClearBits, Goes
  <2>2. BitsType'
    BY <1>0, <2>1 DEF BitsType
  <2>3. nwp.link = "down" /\ ~Linked /\ ~Linked' /\ ~Connected'
    BY <1>0, <2>1 DEF LinkInv, Linked, Connected
  <2>4. LinkInv'
    BY <1>0, <2>1, <2>3 DEF LinkInv, LastEventIsLink, BitIsLink, NoneAfter
  <2> QED BY <1>0, <2>1, <2>2, <2>4 DEF QueueType
<1>7. CASE SetPingBit
  <2>1. /\ nwp' = nwp /\ events' = events /\ at' = "pingSend"
        /\ status' = copy.main \union {"PING_STARTED"}
        /\ lost' = (lost \/ copy.main # status)
        /\ copy' = [copy EXCEPT !.main = {}]
    BY <1>7 DEF SetPingBit, Goes
  <2>2. BitsType'
    <3>1. status' \subseteq Bits /\ copy' \in [{"main", "p2p"} -> SUBSET Bits]
      BY <1>0, <2>1 DEF BitsType, Bits
    <3>2. lost' \in BOOLEAN
      BY <2>1
    <3> QED BY <3>1, <3>2 DEF BitsType
  <2>3. Linked' = Linked
    BY <2>1 DEF Linked
  <2>4. lost' \/ (~lost /\ Connected' = Connected)
    <3>1. CASE lost \/ copy.main # status
      BY <2>1, <3>1
    <3>2. CASE ~(lost \/ copy.main # status)
      <4>1. ("CONNECTION" \in status') <=> ("CONNECTION" \in status)
        BY <2>1, <3>2
      <4> QED BY <3>2, <4>1 DEF Connected
    <3> QED BY <3>1, <3>2
  <2>5. LinkInv'
    BY <1>0, <2>1, <2>3, <2>4, LinkKept
  <2> QED BY <1>0, <2>1, <2>2, <2>5 DEF QueueType
<1>8. CASE LeavePeer
  <2>0. status' = status /\ lost' = lost /\ copy' = copy /\ at' # "apClear"
    BY <1>8 DEF LeavePeer, Steps, Goes, p2pVars
  <2>1. CASE Leaves
    BY <1>0, <2>0, <2>1, LinkLeft DEF BitsType
  <2>2. CASE UNCHANGED <<nwp, events>>
    BY <1>0, <1>q, <2>0, <2>2 DEF Linked
  <2> QED BY <1>8, <2>1, <2>2 DEF LeavePeer
<1> QED BY <1>1, <1>2, <1>3, <1>4, <1>5, <1>6, <1>7, <1>8 DEF LinkSteps

\* These steps keep the invariant.
LEMMA LinkStep ==
  ASSUME TerminalInv, LinkSteps
  PROVE TerminalInv'
<1>0. SemType /\ RoleType /\ HandlerType
  BY TypeParts DEF TerminalInv
<1>1. /\ UNCHANGED <<role, peer, spawn, sem, p2p, cancelled>>
      /\ ~Live /\ PlaceType' /\ attempts' \in 0..1
      /\ at' # "p2pCreate" /\ (at' = "p2pRestart" => role = "P2P")
      /\ at' \in {"pingSend", "pingWait"} =>
           "PING_STARTED" \in status' \/ (at = "pingSend" /\ status' = status)
  BY LinkForms
<1>2. nwp' \in NwpStates /\ nwp'.role = nwp.role /\ QueueType' /\ BitsType' /\ LinkInv'
  BY LinkEffects
<1>3. TypeOK'
  BY <1>0, <1>1, <1>2
     DEF TypeOK, NwpStates, QueueType, BitsType, SemType, RoleType, HandlerType,
         PlaceType
<1>4. RoleInv'
  BY <1>1, <1>2 DEF TerminalInv, RoleInv, StationIsStation, Live
<1>5. PingMarked'
  BY <1>1 DEF TerminalInv, PingMarked
<1> QED BY <1>2, <1>3, <1>4, <1>5 DEF TerminalInv

-----------------------------------------------------------------------------
(* The thread p2pConnect. *)

\* A step of the thread: it is in a device in the P2P role, of which nothing is said about the
\* link, and it leaves the role, the queue and the commands alone.
LEMMA PeerForms ==
  ASSUME TerminalInv, p2pConnect
  PROVE /\ Live /\ p2p' \in P2pPoints
        /\ nwp' \in NwpStates /\ nwp'.role = nwp.role
        /\ BitsType' /\ SemType'
        /\ UNCHANGED <<events, role, peer, attempts, spawn, mainVars, cancelled>>
<1>0. nwp \in NwpStates /\ BitsType /\ SemType /\ PlaceType
  BY TypeParts DEF TerminalInv
<1>t. \A from, to : Thread(from, to) =>
        /\ p2p = from /\ p2p' = to /\ UNCHANGED <<status, lost, copy>>
        /\ UNCHANGED <<events, role, peer, attempts, spawn, mainVars, cancelled>>
  BY DEF Thread
<1> USE DEF Live, P2pPoints
<1>1. CASE PeerCalls
  <2>1. BitsType'
    BY <1>0, <1>1, <1>t DEF PeerCalls, BitsType
  <2>2. nwp' \in NwpStates /\ nwp'.role = nwp.role
    BY <1>0, <1>1 DEF PeerCalls, NwpStates, Links
  <2> QED BY <1>0, <1>1, <1>t, <2>1, <2>2 DEF PeerCalls, SemType
<1>2. CASE PeerWaits
  <2>1. PICK s \in Sems, from \in P2pPoints \ {"none", "ended"}, to \in P2pPoints :
          PeerWait(s, from, to)
    BY <1>2 DEF PeerWaits, Sems
  <2>2. Thread(from, to) /\ sem' = Taken(s) /\ sem[s] > 0 /\ nwp' = nwp
    BY <2>1 DEF PeerWait
  <2>3. sem' \in [Sems -> 0..SemMax]
    BY <1>0, <2>2, SemPosted
  <2> QED BY <1>0, <1>t, <2>1, <2>2, <2>3 DEF BitsType, SemType
<1>3. CASE ReadStatus
  BY <1>0, <1>3 DEF ReadStatus, BitsType, SemType, nwpVars, appVars
<1>4. CASE SetConnectionBit
  <2>1. status' \subseteq Bits /\ copy' \in [{"main", "p2p"} -> SUBSET Bits]
    BY <1>0, <1>4 DEF SetConnectionBit, BitsType, Bits
  <2>2. lost' \in BOOLEAN
    BY <1>4 DEF SetConnectionBit
  <2> QED BY <1>0, <1>4, <2>1, <2>2 DEF SetConnectionBit, BitsType, SemType
<1>5. CASE Cancel
  BY <1>0, <1>5 DEF Cancel, BitsType, SemType, nwpVars, appVars
<1> QED BY <1>1, <1>2, <1>3, <1>4, <1>5 DEF p2pConnect

\* The thread keeps the invariant.
LEMMA PeerStep ==
  ASSUME TerminalInv, p2pConnect
  PROVE TerminalInv'
<1>0. QueueType /\ RoleType /\ HandlerType /\ PlaceType
  BY TypeParts DEF TerminalInv
<1>1. /\ Live /\ p2p' \in P2pPoints
      /\ nwp' \in NwpStates /\ nwp'.role = nwp.role
      /\ BitsType' /\ SemType'
      /\ UNCHANGED <<events, role, peer, attempts, spawn, mainVars, cancelled>>
  BY PeerForms
<1>2. TypeOK'
  BY <1>0, <1>1
     DEF TypeOK, NwpStates, QueueType, BitsType, SemType, RoleType, HandlerType,
         PlaceType, mainVars
<1>3. at \in PeerPoints /\ nwp.role = "P2P" /\ role = "P2P"
  BY <1>1 DEF TerminalInv, RoleInv
<1>4. RoleInv'
  BY <1>1, <1>3 DEF TerminalInv, RoleInv, StationIsStation, PeerPoints, mainVars
<1>5. LinkInv'
  BY <1>1, <1>3, LinkOther DEF PeerPoints, mainVars
<1>6. PingMarked'
  BY <1>1, <1>3 DEF PingMarked, PeerPoints, mainVars
<1> QED BY <1>2, <1>4, <1>5, <1>6 DEF TerminalInv

-----------------------------------------------------------------------------
(* The theorems. *)

\* The terminal starts in the invariant.
LEMMA TerminalInit == Init => TerminalInv
<1> SUFFICES ASSUME Init
             PROVE TerminalInv
  OBVIOUS
<1>1. TypeOK
  <2>1. {SemMax, EventMax, MaxCommands, MaxScanTrails} \subseteq Nat
    BY TerminalAssumption
  <2>2. events \in Seq(Events) /\ Len(events) <= EventMax
    BY <2>1 DEF Init
  <2>3. sem \in [Sems -> 0..SemMax]
    BY <2>1 DEF Init
  <2>4. count \in [typed : 0..MaxCommands, trials : 0..MaxScanTrails]
    BY <2>1 DEF Init
  <2>5. copy \in [{"main", "p2p"} -> SUBSET Bits]
    <3>1. copy = [main |-> {}, p2p |-> {}]
      BY DEF Init
    <3> QED BY <3>1
  <2>6. nwp \in NwpStates
    BY DEF Init, NwpStates, Roles, Links
  <2>7. /\ status = {} /\ lost = FALSE /\ role = "RESERVED" /\ spawn = "idle" /\ peer = FALSE
        /\ attempts = 0 /\ at = "start" /\ p2p = "none"
        /\ cancelled = FALSE
    BY DEF Init
  <2>8. QueueType /\ BitsType /\ SemType
    BY <2>2, <2>3, <2>5, <2>7 DEF QueueType, BitsType, SemType
  <2>9. RoleType /\ HandlerType
    <3>1. peer \in BOOLEAN
      BY <2>7
    <3>2. attempts \in 0..1 /\ spawn \in Sems \union {"idle"}
      BY <2>7
    <3> QED BY <2>7, <3>1, <3>2 DEF RoleType, HandlerType
  <2>10. PlaceType
    BY <2>4, <2>7 DEF PlaceType, MainPoints, P2pPoints
  <2> QED BY <2>6, <2>8, <2>9, <2>10, TypeParts
<1>2. RoleInv
  BY DEF Init, RoleInv, StationIsStation, Live
<1>3. LinkInv
  BY DEF Init, LinkInv, LastEventIsLink, BitIsLink
<1>4. PingMarked
  BY DEF Init, PingMarked
<1> QED BY <1>1, <1>2, <1>3, <1>4 DEF TerminalInv

\* Every step keeps the invariant: it restarts the device, or it is one of the others.
LEMMA TerminalNext == TerminalInv /\ [Next]_vars => TerminalInv'
<1> SUFFICES ASSUME TerminalInv, [Next]_vars
             PROVE TerminalInv'
  OBVIOUS
<1>1. CASE RestartSteps
  BY <1>1, RestartStep
<1>2. CASE CalmSteps
  BY <1>2, CalmStep
<1>3. CASE LinkSteps
  BY <1>3, LinkStep
<1>4. CASE Nwp
  BY <1>4, NwpStep
<1>5. CASE Spawn
  BY <1>5, SpawnStep
<1>6. CASE p2pConnect
  BY <1>6, PeerStep
<1>7. CASE UNCHANGED vars
  BY <1>7 DEF vars, TerminalInv, TypeOK, RoleInv, StationIsStation, Live, LinkInv,
              LastEventIsLink, BitIsLink, NoneAfter, Linked, Connected, PingMarked
<1>8. Typed \/ Continues \/ User => RestartSteps \/ CalmSteps \/ LinkSteps
  <2>1. cmdAntSelectionEnable \/ cmdAntSelectionDisable \/ cmdCoexEnable \/ cmdCoexDisable
          \/ cmdCountrycode => Configure
    BY DEF cmdAntSelectionEnable, cmdAntSelectionDisable, cmdCoexEnable, cmdCoexDisable,
           cmdCountrycode
  <2> QED BY <2>1 DEF Typed, Continues, RestartSteps, CalmSteps, LinkSteps
<1> QED BY <1>1, <1>2, <1>3, <1>4, <1>5, <1>6, <1>7, <1>8 DEF Next

\* Whatever is typed, raised and handled, and whichever calls fail.
THEOREM TerminalInvariant == Spec => []TerminalInv
BY TerminalInit, TerminalNext, PTL DEF Spec

\* The state of the terminal keeps its type: no semaphore passes its maximum, the queue of
\* events and the counts of commands and scan trials stay in their bounds.
THEOREM TerminalTypes == Spec => []TypeOK
<1>1. TerminalInv => TypeOK
  BY DEF TerminalInv
<1> QED BY <1>1, TerminalInvariant, PTL

\* In every session a device that runs under app_CB.Role STA is a station, and the thread
\* p2pConnect only runs in a device in the P2P role (wlan_cmd.c:138, 1656, 1675).
THEOREM TerminalRoles == Spec => []RoleSound
<1>1. TerminalInv => RoleSound
  BY DEF TerminalInv, RoleInv, RoleSound, PeerThreadInRole, Live
<1> QED BY <1>1, TerminalInvariant, PTL

\* In a station whose events are handled the connection bit is the state of the link, unless
\* the bit has outlived its link by a sl_Stop or a write of an old Status.
THEOREM TerminalLink == Spec => []BitFollowsLink
<1>1. TerminalInv => BitFollowsLink
  <2>1. SUFFICES ASSUME TerminalInv, nwp.role = "STA", events = <<>>, ~lost
                 PROVE Connected <=> Linked
    BY DEF BitFollowsLink
  <2>2. NoneAfter(0)
    BY <2>1 DEF NoneAfter
  <2> QED BY <2>1, <2>2 DEF TerminalInv, LinkInv, BitIsLink
<1> QED BY <1>1, TerminalInvariant, PTL

\* A ping between its bit and the end of its wait can be woken, whichever reports, drops
\* and old posts the handlers bring (netapp_cmd.c:110-146).
THEOREM TerminalPing == Spec => []PingMarked
<1>1. TerminalInv => PingMarked
  BY DEF TerminalInv
<1> QED BY <1>1, TerminalInvariant, PTL
=============================================================================
