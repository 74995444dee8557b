--------------------------- MODULE TransceiverProofs ---------------------------
(***************************************************************************)
(* Proofs about Transceiver for every set of numbers a user may type, every *)
(* width of the unsigned type, all limits and any number of sockets: the   *)
(* radio is given parameters it has, a task closes what it opened or fails *)
(* and costs one socket, and a reception lasts for the period that was     *)
(* typed, up to a second less, as long as its microseconds do not overflow.*)
(*                                                                         *)
(* The steps fall into four kinds: those of radioTool_Open and _Close,     *)
(* which change the device; the choice of a task; its prompts, which       *)
(* change its parameters; and its calls of the radio.  What a kind has in  *)
(* common is a lemma of its own, and so is what it keeps.                  *)
(***************************************************************************)
EXTENDS Transceiver, TLAPS

-----------------------------------------------------------------------------
(* The inductive invariant. *)

OpenPoints  == {"open", "openMode", "openPolicy", "openStop", "openRestart"}
ClosePoints == {"closeConfig", "closeStart"}
Outside     == OpenPoints \union ClosePoints \union {"prompt"}
RxAsks  == {"rxChannel", "rxDuration", "rxStatistics"}
TxAsks  == {"tone", "cwDuration", "cwChannel", "mac", "size", "channel", "amount", "delay",
            "burst", "phy", "preamble", "rate", "power", "cca", "threshold"}
Asks    == RxAsks \union TxAsks
RxCalls == {"rxStart", "rxSocket", "rxOption", "rxSleep", "rxStop", "rxShow"}
TxCalls == {"txReady", "txSocket", "txStart", "txStop"}
TxTypes == {"continues", "packetized", "cw"}

DeviceType ==
  /\ nwpInit \in BOOLEAN /\ role \in Roles /\ mode \in Roles
  /\ nwp \in Roles \union {"off"} /\ policy \in {"none", "auto"}

Airs == {"silent", "receiving", "packets", "tone"}

RadioType ==
  /\ sockets \in 0..MaxSockets /\ desc \in BOOLEAN /\ (desc => sockets > 0)
  /\ air \in Airs /\ stats \in BOOLEAN

Faults == {"tool", "again", "task", "close"}

PlaceType ==
  /\ at \in Points /\ task \in {"none", "rx"} \union TxTypes
  /\ ret \in {"ok", "error"} /\ waited \in Nat /\ fault \subseteq Faults

\* The parameters are valid wherever they are looked at, and not only when they are used.
ParType ==
  par \in [channel : Channels, duration : Durations, stats : BOOLEAN, tone : Tones,
           size : Sizes, amount : 0..MAX_AMOUNT, delay : 0..MAX_DELAY, preamble : 0..4,
           rate : Rates, power : 0..15, override : BOOLEAN, threshold : 1..6]

BeforeType == before \in [sockets : 0..MaxSockets, air : Airs, stats : BOOLEAN]

\* The type invariant is these parts and the bound of the packets sent.
LEMMA TypeParts ==
  TypeOK <=> DeviceType /\ RadioType /\ PlaceType /\ i \in 0..par.amount
BY DEF TypeOK, DeviceType, RadioType, PlaceType, Faults, Airs, TxTypes

NeedsDesc == at \in {"rxOption", "rxSleep", "rxStop"} \/ (at = "txStart" /\ task # "cw")

\* Which task is at which point, and where its socket is open.
TaskInv ==
  /\ at \in RxAsks \union RxCalls => task = "rx"
  /\ at \in TxAsks \union TxCalls => task \in TxTypes
  /\ at \in OpenPoints => task = "none"
  /\ at \in Asks => i = 0
  /\ NeedsDesc => desc

Untouched == sockets = before.sockets /\ air = before.air /\ stats = before.stats

\* What a task has done to the radio so far: it has opened one socket at most and changed the
\* radio no further than the call it is about to make.  Only a carrier goes on after a call
\* that failed, and then stops without a socket or with a silent one.
Progress ==
  /\ at \in Asks \union {"rxStart", "txReady", "txSocket"} => Untouched
  /\ at = "txSocket" => task # "cw"
  /\ at \in {"rxSocket", "rxShow"} => sockets = before.sockets
  /\ at \in {"rxOption", "rxSleep", "rxStop"} => sockets = before.sockets + 1
  /\ at \in {"rxSocket", "rxOption"} => air = before.air
  /\ at = "rxShow" => air = "silent" /\ stats = FALSE
  /\ at = "txStart" =>
       /\ sockets = before.sockets + (IF task = "cw" THEN 0 ELSE 1)
       /\ air = before.air /\ stats = before.stats
  /\ at = "txStop" =>
       /\ stats = before.stats
       /\ desc => sockets = before.sockets + 1
       /\ ~desc => sockets = before.sockets /\ "task" \in fault

\* How long the radio has been on: not at all, or for the period of the parameters.
SleepInv ==
  /\ at \in RxAsks \union {"rxStart", "rxSocket", "rxOption", "rxSleep"} => waited = 0
  /\ at \in {"rxStop", "rxShow"} \/ (at = "menu" /\ task = "rx" /\ ret = "ok") =>
       waited = Slept(par.duration)

Ready == nwpInit = TRUE /\ role = "STA" /\ nwp = "STA" /\ policy = "none"

\* ToolReady needs the steps of radioTool_Open before the menu: app_CB.Role is STA only
\* when the NWP will start as a station, so a role that need not be changed is right.
ReadyInv ==
  /\ role = "STA" => mode = "STA"
  /\ at \in {"openPolicy", "openStop", "openRestart"} => mode = "STA"
  /\ at \in {"openStop", "openRestart"} => policy = "none"
  /\ at \notin Outside /\ "tool" \notin fault /\ "again" \notin fault => Ready
  /\ at \in ClosePoints => nwpInit = FALSE
  /\ BitTellsRole

RadioToolInv ==
  /\ DeviceType /\ RadioType /\ PlaceType /\ ParType /\ BeforeType /\ i \in 0..par.amount
  /\ TaskInv /\ Progress /\ RestoresRadio /\ SleepInv /\ ReadyInv

-----------------------------------------------------------------------------
(* The period of a reception. *)

\* MSEC_SLEEP sleeps a whole number of milliseconds.
LEMMA SleptNat ==
  ASSUME NEW x \in Nat
  PROVE  Slept(x) \in Nat
<1>1. UsPerMs \in Nat \ {0} /\ MsPerSec \in Nat \ {0} /\ UintRange \in Nat \ {0}
  BY TransceiverAssumption
<1> DEFINE us == (x * UsPerMs) % UintRange
           q == x \div MsPerSec
<1>2. us \in Nat
  <2>1. x * UsPerMs \in Nat
    BY <1>1
  <2> QED BY <1>1, <2>1
<1>3. us \div UsPerMs \in Nat
  <2> HIDE DEF us
  <2> QED BY <1>1, <1>2
<1>4. q * MsPerSec \in Nat
  <2>1. q \in Nat
    BY <1>1
  <2> HIDE DEF q
  <2> QED BY <1>1, <2>1
<1> QED BY <1>3, <1>4 DEF Slept

\* A product is at least the bound of its other factor.
LEMMA Multiple ==
  ASSUME NEW x \in Nat, NEW y \in Nat, NEW z \in Nat \ {0}
  PROVE  x * z >= y * z <=> x >= y
OBVIOUS

\* A multiple divided by its factor.
LEMMA Exact ==
  ASSUME NEW x \in Nat, NEW z \in Nat \ {0}
  PROVE  (x * z) \div z = x
OBVIOUS

\* When the microseconds fit their type a period below a second is slept exactly, and a
\* longer one up to the whole second before it.
LEMMA SleptPeriod ==
  ASSUME NEW x \in Nat, x * UsPerMs < UintRange
  PROVE  /\ Slept(x) \in (x - (MsPerSec - 1))..x
         /\ x < MsPerSec => Slept(x) = x
<1>1. UsPerMs \in Nat \ {0} /\ MsPerSec \in Nat \ {0} /\ UintRange \in Nat \ {0}
  BY TransceiverAssumption
<1>2. x * UsPerMs \in Nat
  BY <1>1
<1>3. (x * UsPerMs) % UintRange = x * UsPerMs
  BY <1>1, <1>2
<1>4. x * UsPerMs >= MsPerSec * UsPerMs <=> x >= MsPerSec
  BY <1>1, Multiple
<1>5. CASE x >= MsPerSec
  <2> DEFINE q == x \div MsPerSec
             r == x % MsPerSec
  <2>1. Slept(x) = q * MsPerSec
    BY <1>3, <1>4, <1>5 DEF Slept
  <2>2. q \in Nat /\ r \in 0..(MsPerSec - 1) /\ x = MsPerSec * q + r
    BY <1>1
  <2>3. q * MsPerSec = MsPerSec * q /\ MsPerSec * q \in Nat
    BY <1>1, <2>2
  <2> HIDE DEF q, r
  <2> QED BY <1>1, <1>5, <2>1, <2>2, <2>3
<1>6. CASE ~(x >= MsPerSec)
  <2>1. Slept(x) = (x * UsPerMs) \div UsPerMs
    BY <1>3, <1>4, <1>6 DEF Slept
  <2>2. Slept(x) = x
    BY <1>1, <2>1, Exact
  <2> QED BY <1>1, <1>6, <2>2
<1> QED BY <1>5, <1>6

-----------------------------------------------------------------------------
(* The prompts. *)

\* What a prompt does: it goes on to the next prompt or the first call of its task, or back to
\* the menu with an error.  It stores the number it has checked, so how the number was converted
\* does not matter.
LEMMA PromptForms ==
  ASSUME RadioToolInv, Prompts
  PROVE  /\ UNCHANGED <<i, device, radio, waited, history, task>>
         /\ at \in Asks /\ ParType'
         /\ \/ /\ ret' = ret
               /\ IF task = "rx" THEN at' \in RxAsks \union {"rxStart"}
                                 ELSE at' \in TxAsks \union {"txReady"}
            \/ at' = "menu" /\ ret' = "error"
<1>0. ParType /\ TaskInv
  BY DEF RadioToolInv
<1> USE DEF Asking, Accept, Refuse, Skip, Takes, Asks, RxAsks, TxAsks, TaskInv, NeedsDesc, TxTypes
<1>1. CASE RxChannel
  BY <1>0, <1>1 DEF RxChannel, ParType
<1>2. CASE RxDuration
  BY <1>0, <1>2 DEF RxDuration, ParType
<1>3. CASE RxStatistics
  BY <1>0, <1>3 DEF RxStatistics, ParType
<1>4. CASE AskTone
  BY <1>0, <1>4 DEF AskTone, ParType
<1>5. CASE AskCwDuration
  BY <1>0, <1>5 DEF AskCwDuration, ParType
<1>6. CASE AskCwChannel
  BY <1>0, <1>6 DEF AskCwChannel, ParType
<1>7. CASE AskMac
  BY <1>0, <1>7 DEF AskMac, ParType
<1>8. CASE AskSize
  BY <1>0, <1>8 DEF AskSize, ParType
<1>9. CASE AskChannel
  BY <1>0, <1>9 DEF AskChannel, ParType
<1>10. CASE AskAmount
  BY <1>0, <1>10 DEF AskAmount, ParType
<1>11. CASE AskDelay
  BY <1>0, <1>11 DEF AskDelay, ParType
<1>12. CASE AskBurst
  BY <1>0, <1>12 DEF AskBurst, ParType
<1>13. CASE AskPhy
  BY <1>0, <1>13 DEF AskPhy, ParType
<1>14. CASE AskPreamble
  BY <1>0, <1>14 DEF AskPreamble, ParType
<1>15. CASE AskRate
  BY <1>0, <1>15 DEF AskRate, ParType
<1>16. CASE AskPower
  BY <1>0, <1>16 DEF AskPower, ParType
<1>17. CASE AskCca
  BY <1>0, <1>17 DEF AskCca, ParType
<1>18. CASE AskThreshold
  BY <1>0, <1>18 DEF AskThreshold, ParType
<1> QED BY <1>1, <1>2, <1>3, <1>4, <1>5, <1>6, <1>7, <1>8, <1>9, <1>10, <1>11, <1>12, <1>13,
           <1>14, <1>15, <1>16, <1>17, <1>18 DEF Prompts

\* A prompt keeps the invariant: the radio is not touched, and an error leaves it untouched.
LEMMA PromptStep ==
  ASSUME RadioToolInv, Prompts
  PROVE  RadioToolInv'
<1>1. /\ UNCHANGED <<i, device, radio, waited, history, task>> /\ at \in Asks /\ ParType'
      /\ \/ /\ ret' = ret
            /\ IF task = "rx" THEN at' \in RxAsks \union {"rxStart"}
                              ELSE at' \in TxAsks \union {"txReady"}
         \/ at' = "menu" /\ ret' = "error"
  BY PromptForms
<1>2. DeviceType' /\ RadioType' /\ BeforeType'
  BY <1>1 DEF RadioToolInv, DeviceType, RadioType, BeforeType, device, radio, history
<1>3. /\ PlaceType /\ TaskInv /\ Progress /\ SleepInv /\ ReadyInv /\ BeforeType /\ RadioType
      /\ i = 0
  BY <1>1 DEF RadioToolInv, TaskInv, NeedsDesc
<1>4. PlaceType'
  BY <1>1, <1>3 DEF PlaceType, history, Asks, RxAsks, TxAsks, Points
<1>5. (i \in 0..par.amount)'
  BY <1>1, <1>3, TransceiverAssumption DEF ParType
<1>6. task = "rx" <=> at \in RxAsks
  BY <1>1, <1>3 DEF TaskInv, NeedsDesc, Asks, RxAsks, TxAsks, TxTypes
<1>7. TaskInv'
  BY <1>1, <1>3, <1>6 DEF TaskInv, NeedsDesc, Asks, RxAsks, TxAsks, RxCalls, TxCalls, OpenPoints, TxTypes
<1>8. Untouched
  BY <1>1, <1>3 DEF Progress
<1>9. Untouched'
  BY <1>1, <1>8 DEF Untouched, radio, history
<1>10. Progress'
  BY <1>1, <1>9 DEF Progress, Asks, RxAsks, TxAsks
<1>11. RestoresRadio'
  <2>1. sockets' = before'.sockets /\ air' = before'.air
    BY <1>9 DEF Untouched
  <2>2. stats' \in {FALSE, before'.stats}
    BY <1>9, Zenon DEF Untouched
  <2>3. sockets' \in {before'.sockets, before'.sockets + 1} /\ air' \in {"silent", before'.air}
    BY <2>1
  <2> QED BY <2>1, <2>2, <2>3, Zenon DEF RestoresRadio
<1>12. SleepInv'
  BY <1>1, <1>3, <1>6 DEF SleepInv, Asks, RxAsks, TxAsks
<1>13. ReadyInv'
  BY <1>1, <1>3 DEF ReadyInv, BitTellsRole, Ready, Outside, OpenPoints, ClosePoints, Asks, RxAsks, TxAsks,
         device, history
<1> QED BY <1>2, <1>1, <1>4, <1>5, <1>7, <1>10, <1>11, <1>12, <1>13 DEF RadioToolInv

-----------------------------------------------------------------------------
(* The start of the tool and the choice of a task. *)

\* The defaults of every parameter are values the radio has.
LEMMA DefaultsValid == Defaults \in
  [channel : Channels, duration : Durations, stats : BOOLEAN, tone : Tones,
   size : Sizes, amount : 0..MAX_AMOUNT, delay : 0..MAX_DELAY, preamble : 0..4,
   rate : Rates, power : 0..15, override : BOOLEAN, threshold : 1..6]
BY TransceiverAssumption DEF Defaults, Channels, Durations, Tones, Sizes, Rates

\* The tool is first entered in any role the network processor may be in.
LEMMA RadioToolInit == Init => RadioToolInv
<1> SUFFICES ASSUME Init PROVE RadioToolInv
  OBVIOUS
<1>1. ParType
  BY DefaultsValid DEF Init, ParType
<1>2. DeviceType /\ PlaceType
  BY DEF Init, DeviceType, PlaceType, Points, TxTypes
<1>6. RadioType
  <2>1. sockets \in 0..MaxSockets
    BY TransceiverAssumption DEF Init
  <2> QED BY <2>1, Zenon DEF Init, RadioType, Airs
<1>7. BeforeType
  BY TransceiverAssumption DEF Init, BeforeType, Airs
<1>3. i \in 0..par.amount
  BY TransceiverAssumption DEF Init, Defaults
<1>4. TaskInv /\ Progress /\ RestoresRadio /\ SleepInv
  BY DEF Init, TaskInv, NeedsDesc, Progress, RestoresRadio, SleepInv, Asks, RxAsks, TxAsks, RxCalls, TxCalls,
         OpenPoints
<1>5. ReadyInv
  BY DEF Init, ReadyInv, BitTellsRole, Outside, ClosePoints
<1> QED BY <1>1, <1>2, <1>3, <1>4, <1>5, <1>6, <1>7 DEF RadioToolInv

\* The choice of a task notes the radio as it finds it and starts from the defaults.
LEMMA BeginStep ==
  ASSUME RadioToolInv, RxTask \/ TxTask \/ TxRefused
  PROVE  RadioToolInv'
<1>1. /\ at = "menu" /\ par' = Defaults /\ i' = 0 /\ ret' = "ok" /\ waited' = 0
      /\ before' = [sockets |-> sockets, air |-> air, stats |-> stats]
      /\ fault' = fault \ {"task", "close"} /\ UNCHANGED <<device, radio>>
      /\ \/ at' = "rxChannel" /\ task' = "rx"
         \/ at' \in {"tone", "mac"} /\ task' \in TxTypes
         \/ at' = "menu" /\ task' = "none"
  BY DEF RxTask, TxTask, TxRefused, Begin, TxTypes
<1>2. DeviceType' /\ RadioType' /\ ParType'
  BY <1>1, DefaultsValid DEF RadioToolInv, DeviceType, RadioType, ParType, device, radio
<1>3. BeforeType'
  BY <1>1 DEF RadioToolInv, RadioType, BeforeType
<1>4. PlaceType'
  BY <1>1 DEF RadioToolInv, PlaceType, Points, TxTypes
<1>5. (i \in 0..par.amount)'
  BY <1>1, TransceiverAssumption DEF Defaults
<1>6. TaskInv'
  BY <1>1 DEF TaskInv, NeedsDesc, Asks, RxAsks, TxAsks, RxCalls, TxCalls, OpenPoints, TxTypes
<1>7. Untouched'
  BY <1>1 DEF Untouched, radio
<1>8. Progress'
  BY <1>1, <1>7 DEF Progress
<1>9. RestoresRadio' /\ SleepInv'
  <2>1. sockets' = before'.sockets /\ air' = before'.air /\ stats' = before'.stats
    BY <1>7 DEF Untouched
  <2>2. stats' \in {FALSE, before'.stats}
    BY <2>1, Zenon
  <2>3. RestoresRadio'
    BY <2>1, <2>2, Zenon DEF RestoresRadio
  <2>4. SleepInv'
    BY <1>1 DEF SleepInv, TxTypes, RxAsks
  <2> QED BY <2>3, <2>4
<1>10. ReadyInv'
  <2>1. ReadyInv
    BY DEF RadioToolInv
  <2> QED BY <1>1, <2>1 DEF ReadyInv, BitTellsRole, Ready, Outside, OpenPoints, ClosePoints, device
<1> QED BY <1>2, <1>3, <1>4, <1>5, <1>6, <1>8, <1>9, <1>10 DEF RadioToolInv

-----------------------------------------------------------------------------
(* radioTool_Open and radioTool_Close. *)

DeviceSteps == cmdTransceiverMode \/ CloseStop \/ Device

\* What the steps of opening and closing have in common: no task is running, and the radio
\* is as it was or silent with its sockets gone.
LEMMA DeviceForms ==
  ASSUME RadioToolInv, DeviceSteps
  PROVE  /\ at' \in Outside \union {"menu"} /\ (at' \in OpenPoints \union {"menu"} => task' = "none")
         /\ task' \in {task, "none"} /\ ret' = ret /\ before' = before
         /\ (UNCHANGED <<par, i>> \/ (par' = Defaults /\ i' = 0)) /\ waited' \in {waited, 0}
         /\ fault' \subseteq fault \union {"tool", "again"}
         /\ \/ UNCHANGED radio
            \/ sockets' = 0 /\ desc' = FALSE /\ air' = "silent" /\ stats' = FALSE
<1>0. TaskInv
  BY DEF RadioToolInv
<1> USE DEF Succeeds, ToolFails, Tool, Stopped, TaskInv, NeedsDesc, OpenPoints, ClosePoints, Outside, history
<1>1. CASE cmdTransceiverMode
  BY <1>0, <1>1 DEF cmdTransceiverMode
<1>2. CASE OpenStart
  BY <1>0, <1>2 DEF OpenStart
<1>3. CASE OpenMode
  BY <1>0, <1>3 DEF OpenMode
<1>4. CASE OpenPolicy
  BY <1>0, <1>4 DEF OpenPolicy
<1>5. CASE OpenStop
  BY <1>0, <1>5 DEF OpenStop
<1>6. CASE OpenRestart
  BY <1>0, <1>6 DEF OpenRestart
<1>7. CASE CloseStop
  BY <1>0, <1>7 DEF CloseStop
<1>8. CASE CloseConfig
  BY <1>0, <1>8 DEF CloseConfig
<1>9. CASE CloseStart
  BY <1>0, <1>9 DEF CloseStart
<1>10. CASE OpenAgain
  BY <1>0, <1>10 DEF OpenAgain
<1> QED BY <1>1, <1>2, <1>3, <1>4, <1>5, <1>6, <1>7, <1>8, <1>9, <1>10 DEF DeviceSteps, Device

\* The status bit and the role are set together with the start of the processor.
LEMMA BitKept ==
  ASSUME RadioToolInv, DeviceSteps
  PROVE  BitTellsRole'
<1>0. BitTellsRole /\ DeviceType
  BY DEF RadioToolInv, ReadyInv
<1> USE DEF Succeeds, ToolFails, Tool, Stopped, BitTellsRole
<1>1. CASE cmdTransceiverMode
  BY <1>0, <1>1 DEF cmdTransceiverMode, device
<1>2. CASE OpenStart
  BY <1>0, <1>2 DEF OpenStart, device
<1>3. CASE OpenMode
  BY <1>0, <1>3 DEF OpenMode, device
<1>4. CASE OpenPolicy
  BY <1>0, <1>4 DEF OpenPolicy, device
<1>5. CASE OpenStop
  <2>1. CASE nwpInit' = FALSE
    BY <2>1, Zenon
  <2>2. CASE UNCHANGED device
    BY <1>0, <2>2 DEF device
  <2> QED BY <1>5, <2>1, <2>2, Zenon DEF OpenStop
<1>6. CASE OpenRestart
  <2>1. CASE UNCHANGED device
    BY <1>0, <2>1 DEF device
  <2>2. CASE nwp' = mode /\ nwpInit' = (mode = "STA") /\ role' = IF mode = "STA" THEN "STA" ELSE role
    <3>1. mode = "STA" => nwp' = role'
      BY <2>2
    <3> QED BY <2>2, <3>1, Zenon
  <2> QED BY <1>6, <2>1, <2>2, Zenon DEF OpenRestart
<1>7. CASE CloseStop
  <2>1. CASE nwpInit' = FALSE
    BY <2>1, Zenon
  <2>2. CASE UNCHANGED device
    BY <1>0, <2>2 DEF device
  <2> QED BY <1>7, <2>1, <2>2, Zenon DEF CloseStop
<1>8. CASE CloseConfig \/ CloseStart
  <2>1. nwpInit = FALSE /\ nwpInit' = nwpInit
    BY <1>8 DEF RadioToolInv, ReadyInv, ClosePoints, CloseConfig, CloseStart, device
  <2> QED BY <2>1
<1>9. CASE OpenAgain
  BY <1>0, <1>9 DEF OpenAgain, device
<1> QED BY <1>1, <1>2, <1>3, <1>4, <1>5, <1>6, <1>7, <1>8, <1>9 DEF DeviceSteps, Device

\* What is known of the device when the tool or its task begins: the modes the processor starts
\* in and the role it is said to have agree as far as radioTool_Open relies on it.
LEMMA DeviceReady ==
  ASSUME RadioToolInv, DeviceSteps
  PROVE  DeviceType' /\ ReadyInv'
<1>0. DeviceType /\ ReadyInv /\ "STA" \in Roles /\ BitTellsRole'
  BY TransceiverAssumption, BitKept DEF RadioToolInv
<1> USE DEF Succeeds, ToolFails, Tool, Stopped, OpenPoints, ClosePoints, Outside, ReadyInv, Ready,
            DeviceType
<1>1. CASE cmdTransceiverMode
  BY <1>0, <1>1 DEF cmdTransceiverMode, device
<1>2. CASE OpenStart
  BY <1>0, <1>2 DEF OpenStart, device
<1>3. CASE OpenMode
  BY <1>0, <1>3 DEF OpenMode, device
<1>4. CASE OpenPolicy
  BY <1>0, <1>4 DEF OpenPolicy, device
<1>5. CASE OpenStop
  BY <1>0, <1>5 DEF OpenStop, device
<1>6. CASE OpenRestart
  BY <1>0, <1>6 DEF OpenRestart, device
<1>7. CASE CloseStop
  BY <1>0, <1>7 DEF CloseStop, device
<1>8. CASE CloseConfig
  BY <1>0, <1>8 DEF CloseConfig, device
<1>9. CASE CloseStart
  BY <1>0, <1>9 DEF CloseStart, device
<1>10. CASE OpenAgain
  BY <1>0, <1>10 DEF OpenAgain, device
<1> QED BY <1>1, <1>2, <1>3, <1>4, <1>5, <1>6, <1>7, <1>8, <1>9, <1>10 DEF DeviceSteps, Device

\* Opening and closing keep the invariant.
LEMMA DeviceStep ==
  ASSUME RadioToolInv, DeviceSteps
  PROVE  RadioToolInv'
<1>1. /\ at' \in Outside \union {"menu"} /\ (at' \in OpenPoints \union {"menu"} => task' = "none")
      /\ task' \in {task, "none"} /\ ret' = ret /\ before' = before
      /\ (UNCHANGED <<par, i>> \/ (par' = Defaults /\ i' = 0)) /\ waited' \in {waited, 0}
      /\ fault' \subseteq fault \union {"tool", "again"}
      /\ \/ UNCHANGED radio
         \/ sockets' = 0 /\ desc' = FALSE /\ air' = "silent" /\ stats' = FALSE
  BY DeviceForms
<1>2. DeviceType' /\ ReadyInv'
  BY DeviceReady
<1>3. PlaceType /\ RadioType /\ BeforeType /\ ParType /\ i \in 0..par.amount
  BY DEF RadioToolInv
<1>4. ParType' /\ BeforeType'
  BY <1>1, <1>3, DefaultsValid DEF ParType, BeforeType
<1>5. (i \in 0..par.amount)'
  <2>1. Defaults.amount \in Nat
    BY TransceiverAssumption DEF Defaults
  <2> QED BY <1>1, <1>3, <2>1
<1>6. RadioType'
  <2>1. sockets' \in 0..MaxSockets
    BY <1>1, <1>3, TransceiverAssumption DEF RadioType, radio
  <2>2. (desc \in BOOLEAN /\ (desc => sockets > 0) /\ air \in Airs /\ stats \in BOOLEAN)'
    <3>1. CASE UNCHANGED radio
      BY <1>3, <3>1 DEF RadioType, radio
    <3>2. CASE sockets' = 0 /\ desc' = FALSE /\ air' = "silent" /\ stats' = FALSE
      BY <3>2, Zenon DEF Airs
    <3> QED BY <1>1, <3>1, <3>2
  <2> QED BY <2>1, <2>2, Zenon DEF RadioType
<1>7. PlaceType'
  BY <1>1, <1>3 DEF PlaceType, Faults, Points, Outside, OpenPoints, ClosePoints
<1>8. TaskInv' /\ Progress' /\ RestoresRadio' /\ SleepInv'
  BY <1>1 DEF TaskInv, NeedsDesc, Progress, RestoresRadio, SleepInv, Outside, OpenPoints, ClosePoints, Asks,
              RxAsks, TxAsks, RxCalls, TxCalls
<1> QED BY <1>2, <1>4, <1>5, <1>6, <1>7, <1>8 DEF RadioToolInv

-----------------------------------------------------------------------------
(* The calls of the radio. *)

\* What the calls of a task have in common: they change only the radio, the time it was on and
\* the packets sent, and stay within their task until it is back in the menu.
LEMMA RadioForms ==
  ASSUME RadioToolInv, Radio
  PROVE  /\ UNCHANGED <<task, par, device, before>> /\ ret' \in {"ok", "error", ret}
         /\ fault' \in {fault, fault \union {"task"}, fault \union {"task", "close"}}
         /\ \/ at \in RxCalls /\ at' \in RxCalls \union {"menu"}
            \/ at \in TxCalls /\ at' \in TxCalls \union {"menu"}
         /\ waited' \in {waited, waited + Slept(par.duration)} /\ i' \in 0..par.amount
<1>0. par.amount \in Nat /\ i \in 0..par.amount
  BY DEF RadioToolInv, ParType
<1> USE DEF Calling, Goes, Ends, Failing, Failed, CloseFails, RxCalls, TxCalls
<1>1. CASE RxStatStart
  BY <1>0, <1>1 DEF RxStatStart
<1>2. CASE RxSocket
  BY <1>0, <1>2 DEF RxSocket
<1>3. CASE RxOption
  BY <1>0, <1>3 DEF RxOption
<1>4. CASE RxSleep
  BY <1>0, <1>4 DEF RxSleep
<1>5. CASE RxStop
  BY <1>0, <1>5 DEF RxStop
<1>6. CASE RxShow
  BY <1>0, <1>6 DEF RxShow
<1>7. CASE TxReady
  BY <1>0, <1>7 DEF TxReady
<1>8. CASE TxSocket
  BY <1>0, <1>8 DEF TxSocket
<1>9. CASE TxPacket
  BY <1>0, <1>9 DEF TxPacket, SendFails
<1>10. CASE TxPacketsDone
  BY <1>0, <1>10 DEF TxPacketsDone
<1>11. CASE TxContinues
  BY <1>0, <1>11 DEF TxContinues, SendFails
<1>12. CASE TxCw
  BY <1>0, <1>12 DEF TxCw
<1>13. CASE TxStop
  BY <1>0, <1>13 DEF TxStop
<1> QED BY <1>1, <1>2, <1>3, <1>4, <1>5, <1>6, <1>7, <1>8, <1>9, <1>10, <1>11, <1>12, <1>13
        DEF Radio

\* A call opens a socket, closes the one it knows, forgets it, or leaves the sockets alone.
LEMMA SocketForms ==
  ASSUME RadioToolInv, Radio
  PROVE  /\ \/ sockets' = sockets /\ desc' = desc
            \/ sockets < MaxSockets /\ sockets' = sockets + 1 /\ desc' = TRUE
            \/ desc /\ sockets' = sockets - 1 /\ desc' = FALSE
            \/ sockets' = sockets /\ desc' = FALSE
         /\ NeedsDesc' =>
              (desc' = TRUE \/ (desc /\ desc' = desc))
         /\ air' \in {air, "silent", "receiving", "packets", "tone"}
         /\ (stats' = stats \/ stats' = TRUE \/ stats' = FALSE)
<1>0. NeedsDesc => desc
  BY DEF RadioToolInv, TaskInv, NeedsDesc
<1> USE DEF Calling, Goes, Ends, Failing, Failed, CloseFails, Opens, Closes, radio, NeedsDesc
<1>1. CASE RxStatStart
  BY <1>0, <1>1 DEF RxStatStart
<1>2. CASE RxSocket
  BY <1>0, <1>2 DEF RxSocket
<1>3. CASE RxOption
  BY <1>0, <1>3 DEF RxOption
<1>4. CASE RxSleep
  BY <1>0, <1>4 DEF RxSleep
<1>5. CASE RxStop
  BY <1>0, <1>5 DEF RxStop
<1>6. CASE RxShow
  BY <1>0, <1>6 DEF RxShow
<1>7. CASE TxReady
  BY <1>0, <1>7 DEF TxReady
<1>8. CASE TxSocket
  BY <1>0, <1>8 DEF TxSocket
<1>9. CASE TxPacket
  BY <1>0, <1>9 DEF TxPacket, SendFails
<1>10. CASE TxPacketsDone
  BY <1>0, <1>10 DEF TxPacketsDone
<1>11. CASE TxContinues
  BY <1>0, <1>11 DEF TxContinues, SendFails
<1>12. CASE TxCw
  BY <1>0, <1>12 DEF TxCw
<1>13. CASE TxStop
  BY <1>0, <1>13 DEF TxStop
<1> QED BY <1>1, <1>2, <1>3, <1>4, <1>5, <1>6, <1>7, <1>8, <1>9, <1>10, <1>11, <1>12, <1>13
        DEF Radio

\* A call keeps the number of sockets in bounds, and is made on a socket that is open.
LEMMA RadioKept ==
  ASSUME RadioToolInv, Radio
  PROVE  RadioType' /\ (NeedsDesc' => desc')
<1>0. /\ sockets \in 0..MaxSockets /\ desc \in BOOLEAN /\ (desc => sockets > 0) /\ MaxSockets \in Nat
      /\ air \in Airs /\ stats \in BOOLEAN
  BY TransceiverAssumption DEF RadioToolInv, RadioType
<1>1. air' \in Airs
  BY <1>0, SocketForms DEF Airs
<1>2. stats' \in BOOLEAN
  BY <1>0, SocketForms, Zenon
<1>3. sockets' \in 0..MaxSockets /\ desc' \in BOOLEAN /\ (desc' => sockets' > 0)
  <2>1. CASE sockets' = sockets /\ desc' = desc
    BY <1>0, <2>1
  <2>2. CASE sockets < MaxSockets /\ sockets' = sockets + 1 /\ desc' = TRUE
    <3>1. sockets' \in 0..MaxSockets /\ sockets' > 0
      BY <1>0, <2>2
    <3> QED BY <2>2, <3>1, Zenon
  <2>3. CASE desc /\ sockets' = sockets - 1 /\ desc' = FALSE
    <3>1. sockets' \in 0..MaxSockets
      BY <1>0, <2>3
    <3> QED BY <2>3, <3>1, Zenon
  <2>4. CASE sockets' = sockets /\ desc' = FALSE
    BY <1>0, <2>4, Zenon
  <2> QED BY <2>1, <2>2, <2>3, <2>4, SocketForms
<1>4. RadioType'
  BY <1>1, <1>2, <1>3 DEF RadioType
<1>5. NeedsDesc' => desc'
  <2>1. SUFFICES ASSUME NeedsDesc' PROVE desc'
    OBVIOUS
  <2>2. desc' = TRUE \/ (desc /\ desc' = desc)
    BY <2>1, SocketForms
  <2>3. CASE desc' = TRUE
    BY <2>3, Zenon
  <2>4. CASE desc /\ desc' = desc
    BY <2>4
  <2> QED BY <2>2, <2>3, <2>4
<1> QED BY <1>4, <1>5

\* The radio has been on for no time until RxSleep, and for the period typed from then on.
LEMMA RadioSleep ==
  ASSUME RadioToolInv, Radio
  PROVE  SleepInv'
<1>0. /\ SleepInv /\ TaskInv /\ Slept(par.duration) \in Nat
  BY SleptNat DEF RadioToolInv, ParType, Durations
<1> USE DEF Calling, Goes, Ends, Failing, Failed, CloseFails, RxAsks, RxCalls, TxCalls, TxTypes, TaskInv, NeedsDesc, SleepInv
<1>1. CASE RxStatStart
  BY <1>0, <1>1 DEF RxStatStart
<1>2. CASE RxSocket
  BY <1>0, <1>2 DEF RxSocket
<1>3. CASE RxOption
  BY <1>0, <1>3 DEF RxOption
<1>4. CASE RxSleep
  BY <1>0, <1>4 DEF RxSleep
<1>5. CASE RxStop
  BY <1>0, <1>5 DEF RxStop
<1>6. CASE RxShow
  BY <1>0, <1>6 DEF RxShow
<1>7. CASE TxReady
  BY <1>0, <1>7 DEF TxReady
<1>8. CASE TxSocket
  BY <1>0, <1>8 DEF TxSocket
<1>9. CASE TxPacket
  BY <1>0, <1>9 DEF TxPacket, SendFails
<1>10. CASE TxPacketsDone
  BY <1>0, <1>10 DEF TxPacketsDone
<1>11. CASE TxContinues
  BY <1>0, <1>11 DEF TxContinues, SendFails
<1>12. CASE TxCw
  BY <1>0, <1>12 DEF TxCw
<1>13. CASE TxStop
  BY <1>0, <1>13 DEF TxStop
<1> QED BY <1>1, <1>2, <1>3, <1>4, <1>5, <1>6, <1>7, <1>8, <1>9, <1>10, <1>11, <1>12, <1>13
        DEF Radio

\* Every call is made with the socket its task has opened so far.
LEMMA RadioProgress ==
  ASSUME RadioToolInv, Radio
  PROVE  Progress'
<1>0. /\ Progress /\ TaskInv /\ sockets \in Nat /\ before.sockets \in Nat /\ desc \in BOOLEAN
  BY TransceiverAssumption DEF RadioToolInv, RadioType, BeforeType
<1> USE DEF Calling, Goes, Ends, Failing, Failed, CloseFails, Opens, Closes, radio, RxAsks, TxAsks, Asks,
            RxCalls, TxCalls, TxTypes, TaskInv, NeedsDesc, Progress, Untouched
<1>1. CASE RxStatStart
  BY <1>0, <1>1 DEF RxStatStart
<1>2. CASE RxSocket
  BY <1>0, <1>2 DEF RxSocket
<1>3. CASE RxOption
  BY <1>0, <1>3 DEF RxOption
<1>4. CASE RxSleep
  BY <1>0, <1>4 DEF RxSleep
<1>5. CASE RxStop
  <2>1. SUFFICES ASSUME at' = "rxShow"
                 PROVE  sockets' = before'.sockets /\ air' = "silent" /\ stats' = FALSE
    <3>1. at' \in {"rxShow", "menu"}
      BY <1>5 DEF RxStop
    <3> QED BY <3>1
  <2>2. sockets' = before'.sockets /\ air' = "silent"
    BY <1>0, <1>5, <2>1 DEF RxStop
  <2>3. stats' = FALSE
    BY <1>5 DEF RxStop
  <2> QED BY <2>2, <2>3
<1>6. CASE RxShow
  BY <1>0, <1>6 DEF RxShow
<1>7. CASE TxReady
  BY <1>0, <1>7 DEF TxReady
<1>8. CASE TxSocket
  BY <1>0, <1>8 DEF TxSocket
<1>9. CASE TxPacket
  BY <1>0, <1>9 DEF TxPacket, SendFails
<1>10. CASE TxPacketsDone
  BY <1>0, <1>10 DEF TxPacketsDone
<1>11. CASE TxContinues
  BY <1>0, <1>11 DEF TxContinues, SendFails
<1>12. CASE TxCw
  BY <1>0, <1>12 DEF TxCw
<1>13. CASE TxStop
  BY <1>0, <1>13 DEF TxStop
<1> QED BY <1>1, <1>2, <1>3, <1>4, <1>5, <1>6, <1>7, <1>8, <1>9, <1>10, <1>11, <1>12, <1>13
        DEF Radio

\* A call that ends its task has closed the socket, or failed and left one at most; and unless
\* it is the close that failed, the radio is silent or does what it did before the task.
LEMMA RadioRestored ==
  ASSUME RadioToolInv, Radio
  PROVE  RestoresRadio'
<1>0. /\ Progress /\ TaskInv /\ sockets \in Nat /\ before.sockets \in Nat /\ desc \in BOOLEAN
  BY TransceiverAssumption DEF RadioToolInv, RadioType, BeforeType
<1>s. SUFFICES ASSUME at' = "menu"
               PROVE  /\ before' = before
                      /\ sockets' \in {before.sockets, before.sockets + 1}
                      /\ "close" \notin fault' => air' \in {"silent", before.air}
                      /\ "task" \notin fault' => sockets' = before.sockets
                      /\ "task" \notin fault' => (stats' = FALSE \/ stats' = before.stats)
  <2>1. ("task" \notin fault' => (stats' = FALSE \/ stats' = before.stats)) =>
        ("task" \notin fault' => stats' \in {FALSE, before.stats})
    BY Zenon
  <2> QED BY <2>1, Zenon DEF RestoresRadio
<1> USE DEF Calling, Goes, Ends, Failing, Failed, CloseFails, Opens, Closes, radio, RxAsks, TxAsks, Asks,
            RxCalls, TxCalls, TxTypes, TaskInv, NeedsDesc, Progress, Untouched
<1>1. CASE RxStatStart
  BY <1>0, <1>s, <1>1 DEF RxStatStart
<1>2. CASE RxSocket
  BY <1>0, <1>s, <1>2 DEF RxSocket
<1>3. CASE RxOption
  BY <1>0, <1>s, <1>3 DEF RxOption
<1>4. CASE RxSleep
  BY <1>0, <1>s, <1>4 DEF RxSleep
<1>5. CASE RxStop
  <2>1. stats' = FALSE
    BY <1>5 DEF RxStop
  <2>2. /\ before' = before
        /\ sockets' \in {before.sockets, before.sockets + 1}
        /\ "close" \notin fault' => air' \in {"silent", before.air}
        /\ "task" \notin fault' => sockets' = before.sockets
    <3>1. CASE CloseFails
      BY <1>0, <1>5, <3>1 DEF RxStop
    <3>2. CASE Closes /\ Ends("ok")
      BY <1>0, <1>5, <3>2 DEF RxStop
    <3> QED BY <1>5, <1>s, <3>1, <3>2 DEF RxStop
  <2> QED BY <2>1, <2>2, Zenon
<1>6. CASE RxShow
  <2>1. stats' = FALSE
    BY <1>0, <1>6 DEF RxShow
  <2>2. /\ before' = before
        /\ sockets' \in {before.sockets, before.sockets + 1}
        /\ "close" \notin fault' => air' \in {"silent", before.air}
        /\ "task" \notin fault' => sockets' = before.sockets
    BY <1>0, <1>s, <1>6 DEF RxShow
  <2> QED BY <2>1, <2>2, Zenon
<1>7. CASE TxReady
  BY <1>0, <1>s, <1>7 DEF TxReady
<1>8. CASE TxSocket
  BY <1>0, <1>s, <1>8 DEF TxSocket
<1>9. CASE TxPacket
  <2>1. CASE CloseFails
    BY <1>0, <1>9, <2>1 DEF TxPacket
  <2>2. CASE Failed /\ Closes
    BY <1>0, <1>9, <2>2 DEF TxPacket
  <2> QED BY <1>9, <1>s, <2>1, <2>2 DEF TxPacket, SendFails
<1>10. CASE TxPacketsDone
  BY <1>0, <1>s, <1>10 DEF TxPacketsDone
<1>11. CASE TxContinues
  <2>1. CASE CloseFails
    BY <1>0, <1>11, <2>1 DEF TxContinues
  <2>2. CASE Failed /\ Closes
    BY <1>0, <1>11, <2>2 DEF TxContinues
  <2>3. CASE Failed /\ UNCHANGED <<sockets, desc, air>>
    BY <1>0, <1>11, <2>3 DEF TxContinues
  <2> QED BY <1>11, <1>s, <2>1, <2>2, <2>3 DEF TxContinues, SendFails
<1>12. CASE TxCw
  BY <1>0, <1>s, <1>12 DEF TxCw
<1>13. CASE TxStop
  BY <1>0, <1>s, <1>13 DEF TxStop
<1> QED BY <1>1, <1>2, <1>3, <1>4, <1>5, <1>6, <1>7, <1>8, <1>9, <1>10, <1>11, <1>12, <1>13
        DEF Radio

\* A call of the radio keeps the invariant.
LEMMA RadioStep ==
  ASSUME RadioToolInv, Radio
  PROVE  RadioToolInv'
<1>1. /\ UNCHANGED <<task, par, device, before>> /\ ret' \in {"ok", "error", ret}
      /\ fault' \in {fault, fault \union {"task"}, fault \union {"task", "close"}}
      /\ \/ at \in RxCalls /\ at' \in RxCalls \union {"menu"}
         \/ at \in TxCalls /\ at' \in TxCalls \union {"menu"}
      /\ waited' \in {waited, waited + Slept(par.duration)} /\ i' \in 0..par.amount
  BY RadioForms
<1>2. RadioType' /\ (NeedsDesc' => desc')
  BY RadioKept
<1>3. SleepInv' /\ Progress' /\ RestoresRadio'
  BY RadioSleep, RadioProgress, RadioRestored
<1>4. PlaceType /\ TaskInv /\ DeviceType /\ ReadyInv /\ ParType /\ BeforeType
  BY DEF RadioToolInv
<1>5. DeviceType'
  BY <1>1, <1>4 DEF DeviceType, device
<1>6. ParType' /\ BeforeType' /\ (i \in 0..par.amount)'
  BY <1>1, <1>4 DEF ParType, BeforeType
<1>7. PlaceType'
  <2>1. Slept(par.duration) \in Nat
    BY <1>4, SleptNat DEF ParType, Durations
  <2>2. waited' \in Nat /\ fault' \subseteq Faults
    BY <1>1, <1>4, <2>1 DEF PlaceType, Faults
  <2> QED BY <1>1, <1>4, <2>2 DEF PlaceType, Points, RxCalls, TxCalls
<1>8. TaskInv'
  BY <1>1, <1>2, <1>4
     DEF TaskInv, NeedsDesc, RxCalls, TxCalls, RxAsks, TxAsks, Asks, OpenPoints
<1>9. ReadyInv'
  BY <1>1, <1>4 DEF ReadyInv, BitTellsRole, Ready, Outside, OpenPoints, ClosePoints, RxCalls, TxCalls, device
<1> QED BY <1>2, <1>3, <1>5, <1>6, <1>7, <1>8, <1>9 DEF RadioToolInv

-----------------------------------------------------------------------------
(* The theorems. *)

\* The invariant is inductive.
LEMMA RadioToolNext == RadioToolInv /\ [Next]_vars => RadioToolInv'
<1> SUFFICES ASSUME RadioToolInv, [Next]_vars PROVE RadioToolInv'
  OBVIOUS
<1>1. CASE Prompts
  BY <1>1, PromptStep
<1>2. CASE RxTask \/ TxTask \/ TxRefused
  BY <1>2, BeginStep
<1>3. CASE cmdTransceiverMode \/ CloseStop \/ Device
  BY <1>3, DeviceStep DEF DeviceSteps
<1>4. CASE Radio
  BY <1>4, RadioStep
<1>5. CASE UNCHANGED vars
  <2>1. UNCHANGED <<at, task, par, i, ret, device, radio, waited, before, fault>>
    BY <1>5 DEF vars, history
  <2>2. DeviceType' /\ RadioType' /\ PlaceType' /\ ParType' /\ BeforeType' /\ (i \in 0..par.amount)'
    BY <2>1 DEF RadioToolInv, DeviceType, RadioType, PlaceType, ParType, BeforeType, device, radio
  <2>3. TaskInv' /\ SleepInv' /\ ReadyInv'
    BY <2>1 DEF RadioToolInv, TaskInv, NeedsDesc, SleepInv, ReadyInv, BitTellsRole, Ready, device, radio
  <2>4. Progress' /\ RestoresRadio'
    BY <2>1 DEF RadioToolInv, Progress, RestoresRadio, Untouched, radio
  <2> QED BY <2>2, <2>3, <2>4 DEF RadioToolInv
<1> QED BY <1>1, <1>2, <1>3, <1>4, <1>5 DEF Next

\* It holds in every reachable state.
LEMMA RadioToolInvariant == Spec => []RadioToolInv
<1>1. Init => RadioToolInv
  BY RadioToolInit
<1>2. RadioToolInv /\ [Next]_vars => RadioToolInv'
  BY RadioToolNext
<1> QED BY <1>1, <1>2, PTL DEF Spec

\* In every task and after every failure the raw sockets are counted within what the network
\* processor has, and the packets sent within the amount asked for.
THEOREM RadioToolType == Spec => []TypeOK
<1>1. RadioToolInv => TypeOK
  BY TypeParts DEF RadioToolInv
<1> QED BY <1>1, RadioToolInvariant, PTL

\* The radio is only given channels, tones, sizes, rates, powers and thresholds it has, and
\* amounts and delays within their upper bounds, whatever numbers are typed at the prompts.
THEOREM ParametersInRange == Spec => []RadioParametersInRange
<1>1. RadioToolInv => RadioParametersInRange
  BY DEF RadioToolInv, ParType, RadioParametersInRange
<1> QED BY <1>1, RadioToolInvariant, PTL

\* A task in which no call fails closes its socket and stops its statistics; one that fails
\* costs one socket at most and is heard no more unless its sl_Close failed; the menu is shown
\* by a station that joins nothing on a visit that found the status bit right and in which no
\* call of radioTool_Open failed; and a status bit that is set tells the role the NWP runs in.
THEOREM RadioIsSound == Spec => []RadioSound
<1>1. RadioToolInv => ToolReady
  <2> SUFFICES ASSUME RadioToolInv, at \in {"menu", "rxStart", "txReady"},
                      fault \intersect {"tool", "again"} = {}
               PROVE  nwpInit /\ role = "STA" /\ nwp = "STA" /\ policy = "none"
    BY DEF ToolReady
  <2>1. nwpInit = TRUE /\ role = "STA" /\ nwp = "STA" /\ policy = "none"
    BY DEF RadioToolInv, ReadyInv, Ready, Outside, OpenPoints, ClosePoints
  <2> QED BY <2>1
<1>2. RadioToolInv => RadioSound
  BY <1>1 DEF RadioToolInv, ReadyInv, RadioSound
<1> QED BY <1>2, RadioToolInvariant, PTL

\* A reception that reports success has listened for the period typed when it is below a second
\* and for up to a whole second less when it is longer, provided that the period in microseconds
\* fits an unsigned; of a longer one, which the prompt allows, nothing is said.
THEOREM ReceivesForItsPeriod == Spec => []ReceivesForPeriod
<1>1. RadioToolInv => ReceivesForPeriod
  <2> SUFFICES ASSUME RadioToolInv, at = "menu", task = "rx", ret = "ok",
                      par.duration * UsPerMs < UintRange
               PROVE  /\ waited \in (par.duration - (MsPerSec - 1))..par.duration
                      /\ par.duration < MsPerSec => waited = par.duration
    BY DEF ReceivesForPeriod
  <2>1. par.duration \in Nat /\ waited = Slept(par.duration)
    BY DEF RadioToolInv, ParType, Durations, SleepInv
  <2> QED BY <2>1, SleptPeriod
<1> QED BY <1>1, RadioToolInvariant, PTL
=============================================================================
