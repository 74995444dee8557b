---------------------------- MODULE BoardServer ----------------------------
(***************************************************************************)
(* The laptop's Server of board_communication/server.py, used as           *)
(* connect_to_board.py uses it.  The main thread registers the boards that *)
(* call on the entry port and starts a thread for each; then it sends one  *)
(* message after another to all boards at once.  A round is a barrier made *)
(* of two events and a counter: start_flag lets the threads go, each       *)
(* counts itself in thread_tasks_done when it has its board's answer, and  *)
(* end_flag lets them start over.  "exit" ends the threads.                *)
(*                                                                         *)
(* A set of a threading.Event wakes the threads that are blocked in it,    *)
(* even when it is cleared again before they run; a thread that comes      *)
(* later looks at the flag.  thread_tasks_done += 1 is a read and a write. *)
(* Boards and the network are external: a board may connect to its port,   *)
(* answer, fall silent, or register again after a restart.                 *)
(***************************************************************************)
EXTENDS Integers, FiniteSets

CONSTANTS
  Boards,        (* addresses of boards                                      *)
  BoardCount,    (* board_count                                              *)
  Restarts,      (* TRUE: a board may register again                         *)
  Silence,       (* TRUE: an answer may fail to come (timeout, error)        *)
  MaxThreads,    (* bound: threads started                                   *)
  MaxSends       (* bound: messages other than "exit"                        *)

ASSUME BoardServerAssumption ==
  /\ IsFiniteSet(Boards)
  /\ BoardCount \in 1..Cardinality(Boards)
  /\ Restarts \in BOOLEAN /\ Silence \in BOOLEAN
  /\ MaxThreads \in Nat /\ MaxThreads >= BoardCount /\ MaxSends \in Nat

Threads == 1..MaxThreads

VARIABLES
  main,          (* where the main thread is                                 *)
  boards,        (* boards: the thread of each address, 0 for none           *)
  started,       (* threads started, in the order of their ports             *)
  startFlag, endFlag, exitFlag,
  done,          (* thread_tasks_done                                        *)
  sends,         (* messages sent                                            *)
  udp,           (* send_msg_to_all_boards_udp is used, and not ..._tcp      *)
  thread,        (* where each thread is                                     *)
  count,         (* the value of thread_tasks_done each thread has read      *)
  bound,         (* threads whose local variable server has a value          *)
  answered       (* history: threads with an answer to the present message   *)

mainVars   == <<main, boards, started, sends, udp>>
flagVars   == <<startFlag, endFlag, exitFlag>>
threadVars == <<thread, count, bound>>
vars       == <<mainVars, flagVars, done, threadVars, answered>>

MainPoints == {"accept", "input", "clear", "raise", "wait", "lower", "release",
               "exit", "wake", "join", "returned", "interrupted", "crashed"}

\* "start" and "end" are before the look at the flag, "inStart" and "inEnd" blocked
\* in the event.  "ended" is the return or an exception; both close the connection.
ThreadPoints == {"none", "accept", "check", "start", "inStart", "recheck", "answer",
                 "count", "write", "end", "inEnd", "ended"}

Working == {"recheck", "answer", "count", "write"}

Registered == {b \in Boards : boards[b] # 0}

Init ==
  /\ main = "accept" /\ boards = [b \in Boards |-> 0] /\ started = 0
  /\ startFlag = FALSE /\ endFlag = FALSE /\ exitFlag = FALSE
  /\ done = 0 /\ sends = 0 /\ udp \in BOOLEAN
  /\ thread = [t \in Threads |-> "none"] /\ count = [t \in Threads |-> 0]
  /\ bound = {} /\ answered = {}

-----------------------------------------------------------------------------
(* The main thread: wait_for_all_boards_to_connect and add_board. *)

GoTo(from, to) == main = from /\ main' = to

\* Event.set: the threads that are blocked in it go on.
Wake(from, to) ==
  thread' = [t \in Threads |-> IF thread[t] = from THEN to ELSE thread[t]]

\* A board calls the entry port.  add_board replaces what the address had.  When
\* no port can be bound the None it returns is indexed, and the program dies.
Register(b) ==
  /\ main = "accept" /\ Cardinality(Registered) # BoardCount
  /\ Restarts \/ boards[b] = 0
  /\ \/ /\ started < MaxThreads
        /\ started' = started + 1
        /\ boards' = [boards EXCEPT ![b] = started']
        /\ thread' = [thread EXCEPT ![started'] = "accept"]
        /\ UNCHANGED main
     \/ main' = "crashed" /\ UNCHANGED <<started, boards, thread>>
  /\ UNCHANGED <<sends, udp, flagVars, done, count, bound, answered>>

Interrupt ==
  /\ GoTo("accept", "interrupted") /\ Cardinality(Registered) # BoardCount
  /\ UNCHANGED <<boards, started, sends, udp, flagVars, done, threadVars, answered>>

AllConnected ==
  /\ GoTo("accept", "input") /\ Cardinality(Registered) = BoardCount
  /\ UNCHANGED <<boards, started, sends, udp, flagVars, done, threadVars, answered>>

-----------------------------------------------------------------------------
(* The main thread: send_msg_to_all_boards_udp and send_msg_to_all_boards_tcp. *)

\* The globals are set and, with UDP, the broadcast is sent, which may raise.
Send ==
  /\ sends < MaxSends /\ sends' = sends + 1
  /\ \/ GoTo("input", "clear")
     \/ udp /\ GoTo("input", "crashed")
  /\ done' = 0
  /\ answered' = {}
  /\ UNCHANGED <<boards, started, udp, flagVars, threadVars>>

\* Mutant: end_flag is not cleared.
ClearEndNot ==
  /\ GoTo("clear", "raise")
  /\ UNCHANGED <<boards, started, sends, udp, flagVars, done, threadVars, answered>>

ClearEnd ==
  /\ GoTo("clear", "raise")
  /\ endFlag' = FALSE
  /\ UNCHANGED <<boards, started, sends, udp, startFlag, exitFlag, done, threadVars, answered>>

SetStart ==
  /\ GoTo("raise", "wait")
  /\ startFlag' = TRUE
  /\ Wake("inStart", "recheck")
  /\ UNCHANGED <<boards, started, sends, udp, endFlag, exitFlag, done, count, bound, answered>>

\* Mutant: the first answer is enough.
FirstDone ==
  /\ done > 0
  /\ GoTo("wait", "lower")
  /\ UNCHANGED <<boards, started, sends, udp, flagVars, done, threadVars, answered>>

AllDone ==
  /\ done = Cardinality(Registered)
  /\ GoTo("wait", "lower")
  /\ UNCHANGED <<boards, started, sends, udp, flagVars, done, threadVars, answered>>

\* time.sleep(0.1), and the counter is looked at again.
Sleep == main = "wait" /\ done # Cardinality(Registered) /\ UNCHANGED vars

ClearStart ==
  /\ GoTo("lower", "release")
  /\ startFlag' = FALSE
  /\ UNCHANGED <<boards, started, sends, udp, endFlag, exitFlag, done, threadVars, answered>>

SetEnd ==
  /\ GoTo("release", "input")
  /\ endFlag' = TRUE
  /\ Wake("inEnd", "check")
  /\ UNCHANGED <<boards, started, sends, udp, startFlag, exitFlag, done, count, bound, answered>>

\* The message "exit": both flags are set and the registered threads joined.
TypeExit ==
  /\ GoTo("input", "exit")
  /\ done' = 0
  /\ UNCHANGED <<boards, started, sends, udp, flagVars, threadVars, answered>>

SetExit ==
  /\ GoTo("exit", "wake")
  /\ exitFlag' = TRUE
  /\ UNCHANGED <<boards, started, sends, udp, startFlag, endFlag, done, threadVars, answered>>

\* Mutant: "exit" runs into the code of an ordinary round.
SetStartFallsThrough ==
  /\ GoTo("wake", "clear")
  /\ startFlag' = TRUE
  /\ Wake("inStart", "recheck")
  /\ UNCHANGED <<boards, started, sends, udp, endFlag, exitFlag, done, count, bound, answered>>

SetStartToExit ==
  /\ GoTo("wake", "join")
  /\ startFlag' = TRUE
  /\ Wake("inStart", "recheck")
  /\ UNCHANGED <<boards, started, sends, udp, endFlag, exitFlag, done, count, bound, answered>>

Join ==
  /\ GoTo("join", "returned")
  /\ \A b \in Registered : thread[boards[b]] = "ended"
  /\ UNCHANGED <<boards, started, sends, udp, flagVars, done, threadVars, answered>>

-----------------------------------------------------------------------------
(* A thread: wait_to_send_msgs. *)

Step(t, from, to) == thread[t] = from /\ thread' = [thread EXCEPT ![t] = to]

\* The board connects to the port it was given; a board that has registered again
\* was given another one.
Connect(t) ==
  /\ \E b \in Boards : boards[b] = t
  /\ Step(t, "accept", "check")
  /\ UNCHANGED <<mainVars, flagVars, done, count, bound, answered>>

CheckExit(t) ==
  /\ Step(t, "check", IF exitFlag THEN "ended" ELSE "start")
  /\ UNCHANGED <<mainVars, flagVars, done, count, bound, answered>>

WaitStart(t) ==
  /\ Step(t, "start", IF startFlag THEN "recheck" ELSE "inStart")
  /\ UNCHANGED <<mainVars, flagVars, done, count, bound, answered>>

Recheck(t) ==
  /\ Step(t, "recheck", IF exitFlag THEN "ended" ELSE "answer")
  /\ UNCHANGED <<mainVars, flagVars, done, count, bound, answered>>

\* Line 297 reads server, which only the UDP branch sets: over TCP every answer
\* ends its thread.  (Over UDP the
\* socket of line 52 is bound to no address; that a datagram reaches it all the
\* same is the choice of the environment, that none does is NoAnswer.)
Answer(t) ==
  /\ bound' = IF udp THEN bound \cup {t} ELSE bound
  /\ Step(t, "answer", IF t \in bound' THEN "count" ELSE "ended")
  /\ answered' = answered \cup {t}
  /\ UNCHANGED <<mainVars, flagVars, done, count>>

\* The timeout of 20 seconds over UDP, or an error of the connection over TCP, is
\* an exception.
NoAnswer(t) ==
  /\ Silence
  /\ Step(t, "answer", "ended")
  /\ UNCHANGED <<mainVars, flagVars, done, count, bound, answered>>

ReadCount(t) ==
  /\ Step(t, "count", "write")
  /\ count' = [count EXCEPT ![t] = done]
  /\ UNCHANGED <<mainVars, flagVars, done, bound, answered>>

\* Mutant: the sum goes to a variable of the thread, not to the global one.
WriteCountLocal(t) ==
  /\ Step(t, "write", "end")
  /\ count' = [count EXCEPT ![t] = @ + 1]
  /\ UNCHANGED <<mainVars, flagVars, done, bound, answered>>

WriteCount(t) ==
  /\ Step(t, "write", "end")
  /\ done' = count[t] + 1
  /\ UNCHANGED <<mainVars, flagVars, count, bound, answered>>

WaitEnd(t) ==
  /\ Step(t, "end", IF endFlag THEN "check" ELSE "inEnd")
  /\ UNCHANGED <<mainVars, flagVars, done, count, bound, answered>>

Hear(t) == Answer(t) \/ NoAnswer(t)

OwnStep(t) ==
  \/ CheckExit(t) \/ WaitStart(t) \/ Recheck(t)
  \/ ReadCount(t) \/ WriteCount(t) \/ WaitEnd(t)

ThreadStep(t) == OwnStep(t) \/ Hear(t)

-----------------------------------------------------------------------------
Ask == TypeExit \/ Send

MainStep ==
  \/ ClearEnd \/ SetStart \/ AllDone \/ ClearStart \/ SetEnd
  \/ SetExit \/ SetStartToExit \/ Join

Done == main \in {"returned", "interrupted", "crashed"} /\ UNCHANGED vars

Next ==
  \/ \E b \in Boards : Register(b)
  \/ Interrupt \/ AllConnected \/ Ask \/ MainStep \/ Sleep \/ Done
  \/ \E t \in Threads : Connect(t) \/ ThreadStep(t)

Spec == Init /\ [][Next]_vars

\* The threads are scheduled, and a receive over UDP ends with its timeout if not
\* before.  A board need not connect to its port (accept has no timeout), and over
\* TCP it need not send anything, nor need it close (recv has none either, and at
\* the end of a connection the loop of line 287 spins).
Fairness ==
  /\ WF_vars(MainStep)
  /\ \A t \in Threads : WF_vars(OwnStep(t)) /\ WF_vars(udp /\ Hear(t))

FairSpec == Spec /\ Fairness

-----------------------------------------------------------------------------
(* Properties *)

TypeOK ==
  /\ main \in MainPoints
  /\ boards \in [Boards -> 0..MaxThreads]
  /\ started \in 0..MaxThreads
  /\ startFlag \in BOOLEAN /\ endFlag \in BOOLEAN /\ exitFlag \in BOOLEAN
  /\ done \in 0..MaxThreads
  /\ sends \in 0..MaxSends /\ udp \in BOOLEAN
  /\ thread \in [Threads -> ThreadPoints]
  /\ count \in [Threads -> 0..MaxThreads]
  /\ bound \subseteq Threads /\ answered \subseteq Threads

\* server.py:303: the round is over when thread_tasks_done is the number of
\* threads.  When the main thread finds it so, every board has answered this very
\* message: no thread counted twice, or still counted for the message before.
RoundComplete ==
  main = "lower" => \A b \in Registered : boards[b] \in answered

\* str_to_send, using_udp and thread_tasks_done are changed for the next message
\* only while no thread is between reading the flags and counting itself.
GlobalsStable ==
  main \in {"input", "clear", "exit"} => \A t \in Threads : thread[t] \notin Working

\* The two together: what the globals of a round may be relied on for.
RoundSound == RoundComplete /\ GlobalsStable

\* A round as MessageRounds sees it: open from the message until all have answered.
Open == main \in {"clear", "raise", "wait"}

Rounds == INSTANCE MessageRounds WITH
  Members <- Threads, open <- Open, members <- 1..started,
  asked <- {t \in Threads : thread[t] = "answer"}, replied <- answered

\* Whatever increments are lost and however the events overlap, the server serves its
\* rounds as MessageRounds promises: no started thread is asked again for a message it
\* has answered, and the message changes only while no thread is asked.
ServesRounds == Rounds!RoundsSpec

\* "exit" ends: the threads of the registered boards can be joined, wherever in
\* a round they are left; unless a board that was given a port never connects to
\* it (server.py:276: nothing wakes accept).
ExitReturns ==
  main = "exit" ~>
    \/ main = "returned"
    \/ \E b \in Boards : [](b \in Registered /\ thread[boards[b]] = "accept")

\* A board without which the round cannot end: its thread has died, of a timeout or
\* of line 297; or it has no answer to this message and sleeps through the round at
\* end_flag, or waits for the board to connect or, over TCP, to send.
Holds(b) ==
  /\ b \in Registered
  /\ \/ thread[boards[b]] = "ended"
     \/ /\ boards[b] \notin answered
        /\ \/ thread[boards[b]] \in {"inEnd", "accept"}
           \/ ~udp /\ thread[boards[b]] = "answer"

\* server.py:207: the main thread polls for ever only for a reason: one board holds
\* the round from some point on, or two increments of thread_tasks_done have
\* overlapped and one is lost.
RoundStuckForCause ==
  <>[](main = "wait") =>
    \/ \E b \in Boards : <>[]Holds(b)
    \/ <>(\E t \in Threads : thread[t] = "write" /\ count[t] # done)

=============================================================================
