--------------------------- MODULE MessageRounds ---------------------------
(***************************************************************************)
(* What the laptop's Server promises to whoever types messages, without    *)
(* threads, events or a counter: boards join while no round is open; a     *)
(* message opens a round, unless its broadcast fails; every member is      *)
(* asked for its answer while the round is open and never again once it    *)
(* has answered; the round is closed when all have answered and nobody is  *)
(* being asked.  BoardServer implements it.                                *)
(***************************************************************************)
CONSTANT Members   (* who may join                                         *)

VARIABLES
  open,            (* a message is out and its round not over              *)
  members,         (* those that have joined                               *)
  asked,           (* members whose answer is being waited for             *)
  replied          (* members that have answered the present message       *)

roundVars == <<open, members, asked, replied>>

RoundsInit == open = FALSE /\ members = {} /\ asked = {} /\ replied = {}

Join(m) ==
  /\ ~open /\ m \notin members
  /\ members' = members \cup {m}
  /\ UNCHANGED <<open, asked, replied>>

Broadcast ==
  /\ ~open /\ asked = {}
  /\ open' \in BOOLEAN
  /\ replied' = {}
  /\ UNCHANGED <<members, asked>>

Ask(m) ==
  /\ open /\ m \in members \ (asked \cup replied)
  /\ asked' = asked \cup {m}
  /\ UNCHANGED <<open, members, replied>>

Reply(m) ==
  /\ m \in asked
  /\ asked' = asked \ {m}
  /\ replied' = replied \cup {m}
  /\ UNCHANGED <<open, members>>

\* A member falls silent; the round stays open.
Fail(m) ==
  /\ m \in asked
  /\ asked' = asked \ {m}
  /\ UNCHANGED <<open, members, replied>>

Close ==
  /\ open /\ asked = {} /\ replied = members
  /\ open' = FALSE
  /\ UNCHANGED <<members, asked, replied>>

RoundsNext ==
  \/ \E m \in Members : Join(m) \/ Ask(m) \/ Reply(m) \/ Fail(m)
  \/ Broadcast \/ Close

RoundsSpec == RoundsInit /\ [][RoundsNext]_roundVars

=============================================================================
