------------------------- MODULE BoardServerProofs -------------------------
(***************************************************************************)
(* Proofs about BoardServer for any number of boards, threads and messages *)
(* in which no board registers twice: a round ends only when every board   *)
(* has answered, and the globals of a round are changed only while no      *)
(* thread uses them.                                                       *)
(***************************************************************************)
EXTENDS BoardServer, FiniteSetTheorems, TLAPS

\* Every thread that was started belongs to a registered board.
Registry ==
  /\ boards \in [Boards -> 0..started]
  /\ Cardinality(Registered) = started
  /\ \A t \in Threads : thread[t] = "none" <=> t > started

Flags ==
  /\ startFlag <=> main \in {"wait", "lower", "join", "returned"}
  /\ exitFlag <=> main \in {"wake", "join", "returned"}
  /\ main \in {"accept", "interrupted", "raise", "wait", "lower", "release"} => ~endFlag
  /\ main \in {"clear", "raise"} => done = 0

\* Outside a round a thread can only be about to see that it has to end.
Quiet ==
  main # "wait" => \A t \in Threads :
                     thread[t] \in Working => thread[t] = "recheck" /\ exitFlag

\* The threads that have counted themselves in this round: they cannot go on
\* before it is over.
Counted == {t \in answered : thread[t] \in {"end", "inEnd"}}

Counting ==
  main = "wait" =>
    /\ done <= Cardinality(Counted)
    /\ \A t \in Threads : thread[t] = "write" => count[t] <= Cardinality(Counted)

\* A thread at the write, or counted, has its answer.
Answering ==
  main = "wait" => \A t \in Threads : thread[t] \in {"count", "write"} => t \in answered

Complete == main \in {"lower", "release"} => 1..started \subseteq Counted

IInv == TypeOK /\ Registry /\ Flags /\ Quiet /\ Counting /\ Answering /\ Complete

-----------------------------------------------------------------------------
\* The counted threads are finitely many, at most those started.
LEMMA CountedFinite ==
  ASSUME TypeOK
  PROVE  /\ Counted \subseteq Threads /\ IsFiniteSet(Counted)
         /\ Cardinality(Counted) \in 0..MaxThreads
<1>1. MaxThreads \in Nat
  BY BoardServerAssumption
<1>2. Counted \subseteq Threads
  BY DEF TypeOK, Counted
<1>3. IsFiniteSet(Threads) /\ Cardinality(Threads) = MaxThreads
  BY <1>1, FS_Interval DEF Threads
<1>4. IsFiniteSet(Counted) /\ Cardinality(Counted) <= MaxThreads
  BY <1>2, <1>3, FS_Subset
<1> QED BY <1>1, <1>2, <1>4, FS_CardinalityType

\* A thread that counts itself is one more.
LEMMA CountsOneMore ==
  ASSUME TypeOK, NEW t \in Threads, t \notin Counted
  PROVE  /\ Cardinality(Counted \cup {t}) = Cardinality(Counted) + 1
         /\ Cardinality(Counted) + 1 <= MaxThreads
<1>1. MaxThreads \in Nat
  BY BoardServerAssumption
<1>2. Cardinality(Counted \cup {t}) = Cardinality(Counted) + 1
  BY CountedFinite, FS_AddElement
<1>3. Counted \cup {t} \subseteq Threads
  BY CountedFinite
<1>4. Cardinality(Counted \cup {t}) <= MaxThreads
  <2>1. IsFiniteSet(Threads) /\ Cardinality(Threads) = MaxThreads
    BY <1>1, FS_Interval DEF Threads
  <2> QED BY <1>3, <2>1, FS_Subset
<1> QED BY <1>1, <1>2, <1>4, CountedFinite

\* When the counter is the number of boards, every thread has counted itself.
LEMMA AllCounted ==
  ASSUME IInv, main = "wait", done = Cardinality(Registered)
  PROVE  1..started \subseteq Counted
<1>1. started \in Nat /\ started <= MaxThreads /\ MaxThreads \in Nat
  BY BoardServerAssumption DEF IInv, TypeOK
<1>2. started <= Cardinality(Counted)
  BY DEF IInv, Registry, Counting
<1>3. Counted \subseteq 1..started
  <2>1. \A t \in Counted : t \in Threads /\ thread[t] # "none"
    BY DEF Counted, IInv, TypeOK
  <2>2. \A t \in Threads : thread[t] # "none" => t \in 1..started
    BY <1>1 DEF IInv, Registry, Threads
  <2> QED BY <2>1, <2>2
<1>4. IsFiniteSet(1..started) /\ Cardinality(1..started) = started
  BY <1>1, FS_Interval
<1>5. Cardinality(Counted) <= started
  BY <1>3, <1>4, FS_Subset
<1>6. Cardinality(Counted) = started
  BY <1>1, <1>2, <1>5, CountedFinite DEF IInv
<1> QED BY <1>3, <1>4, <1>6, FS_Subset

\* The invariant holds before the first board calls.
LEMMA InitInv == Init => IInv
<1> SUFFICES ASSUME Init PROVE IInv
  OBVIOUS
<1>1. TypeOK
  <2>1. MaxThreads \in Nat /\ MaxSends \in Nat
    BY BoardServerAssumption
  <2>2. main \in MainPoints /\ thread \in [Threads -> ThreadPoints]
    BY DEF Init, MainPoints, ThreadPoints
  <2>3. boards \in [Boards -> 0..MaxThreads] /\ count \in [Threads -> 0..MaxThreads]
    BY <2>1 DEF Init
  <2>4. started \in 0..MaxThreads /\ done \in 0..MaxThreads /\ sends \in 0..MaxSends
    BY <2>1 DEF Init
  <2>5. startFlag \in BOOLEAN /\ endFlag \in BOOLEAN /\ exitFlag \in BOOLEAN
    BY DEF Init
  <2> QED BY <2>2, <2>3, <2>4, <2>5 DEF Init, TypeOK
<1>2. Registry
  <2>1. Registered = {}
    BY DEF Init, Registered
  <2>2. Cardinality(Registered) = 0
    BY <2>1, FS_EmptySet
  <2> QED BY <2>2, BoardServerAssumption DEF Init, Registry, Threads
<1>3. Flags /\ Quiet /\ Counting /\ Answering /\ Complete
  BY DEF Init, Flags, Quiet, Counting, Answering, Complete, Working
<1> QED BY <1>1, <1>2, <1>3 DEF IInv

\* Steps of the main thread that leave the registry and the threads alone.
LEMMA MainInv ==
  ASSUME IInv,
         \/ Interrupt \/ AllConnected \/ ClearEnd \/ ClearStart
         \/ TypeExit \/ SetExit \/ Join
  PROVE  IInv'
<1> USE DEF GoTo, flagVars, threadVars
<1>0. UNCHANGED <<boards, started, sends, udp, threadVars, answered>>
  BY DEF Interrupt, AllConnected, ClearEnd, ClearStart, TypeExit, SetExit, Join
<1>1. Counted' = Counted /\ Registered' = Registered
  BY <1>0 DEF Counted, Registered
<1>2. TypeOK'
  <2>1. main' \in MainPoints
    BY DEF IInv, TypeOK, MainPoints,
           Interrupt, AllConnected, ClearEnd, ClearStart, TypeExit, SetExit, Join
  <2>2. done' \in 0..MaxThreads
    BY BoardServerAssumption
       DEF IInv, TypeOK, Interrupt, AllConnected, ClearEnd, ClearStart, TypeExit, SetExit, Join
  <2>3. startFlag' \in BOOLEAN /\ endFlag' \in BOOLEAN /\ exitFlag' \in BOOLEAN
    BY DEF IInv, TypeOK, Interrupt, AllConnected, ClearEnd, ClearStart, TypeExit, SetExit, Join
  <2> QED BY <1>0, <2>1, <2>2, <2>3 DEF IInv, TypeOK
<1>3. Registry'
  BY <1>0, <1>1 DEF IInv, Registry
<1>4. Flags'
  BY DEF IInv, TypeOK, Flags, MainPoints,
         Interrupt, AllConnected, ClearEnd, ClearStart, TypeExit, SetExit, Join
<1>5. Quiet'
  BY <1>0 DEF IInv, Quiet, Interrupt, AllConnected, ClearEnd, ClearStart, TypeExit, SetExit, Join
<1>6. main' # "wait"
  BY DEF Interrupt, AllConnected, ClearEnd, ClearStart, TypeExit, SetExit, Join
<1>7. Complete'
  BY <1>0, <1>1
     DEF IInv, Complete, Interrupt, AllConnected, ClearEnd, ClearStart, TypeExit, SetExit, Join
<1> QED BY <1>2, <1>3, <1>4, <1>5, <1>6, <1>7 DEF IInv, Counting, Answering

\* A new message is sent while no thread is at work.
LEMMA SendInv ==
  ASSUME IInv, Send
  PROVE  IInv'
<1> USE DEF GoTo, flagVars, threadVars
<1>0. /\ UNCHANGED <<boards, started, udp, startFlag, endFlag, exitFlag, thread, count, bound>>
      /\ main = "input" /\ main' \in {"clear", "crashed"}
      /\ done' = 0 /\ answered' = {}
      /\ sends < MaxSends /\ sends' = sends + 1
  BY DEF Send
<1>1. Registered' = Registered
  BY <1>0 DEF Registered
<1>2. TypeOK'
  <2>1. main' \in MainPoints
    BY <1>0 DEF MainPoints
  <2>2. done' \in 0..MaxThreads /\ sends' \in 0..MaxSends
    BY <1>0, BoardServerAssumption DEF IInv, TypeOK
  <2> QED BY <1>0, <2>1, <2>2 DEF IInv, TypeOK
<1>3. Registry'
  BY <1>0, <1>1 DEF IInv, Registry
<1>4. Flags' /\ Quiet'
  BY <1>0 DEF IInv, Flags, Quiet
<1> QED BY <1>0, <1>2, <1>3, <1>4 DEF IInv, Counting, Answering, Complete

\* The threads are let go; nobody has counted itself yet.
LEMMA SetStartInv ==
  ASSUME IInv, SetStart
  PROVE  IInv'
<1> USE DEF GoTo
<1>0. /\ UNCHANGED <<boards, started, sends, udp, endFlag, exitFlag, done, count, bound, answered>>
      /\ main = "raise" /\ main' = "wait" /\ startFlag' = TRUE
      /\ thread' = [t \in Threads |-> IF thread[t] = "inStart" THEN "recheck" ELSE thread[t]]
  BY DEF SetStart, Wake
<1>1. Counted' = Counted /\ Registered' = Registered
  <2>1. answered \subseteq Threads
    BY DEF IInv, TypeOK
  <2>2. \A t \in Threads : thread'[t] \in {"end", "inEnd"} <=> thread[t] \in {"end", "inEnd"}
    BY <1>0
  <2> QED BY <1>0, <2>1, <2>2 DEF Counted, Registered
<1>2. TypeOK'
  <2>1. main' \in MainPoints /\ thread' \in [Threads -> ThreadPoints]
    BY <1>0 DEF IInv, TypeOK, MainPoints, ThreadPoints
  <2> QED BY <1>0, <2>1 DEF IInv, TypeOK
<1>3. Registry'
  BY <1>0, <1>1 DEF IInv, Registry
<1>4. Flags'
  BY <1>0 DEF IInv, Flags
<1>5. \A t \in Threads : thread[t] \notin {"answer", "count", "write"}
  BY <1>0 DEF IInv, Quiet, Working, Flags
<1>6. \A t \in Threads : thread'[t] \notin {"count", "write"}
  BY <1>0, <1>5
<1>7. Counting' /\ Answering'
  <2>1. done' = 0 /\ Cardinality(Counted) \in Nat
    BY <1>0, CountedFinite DEF IInv, Flags
  <2> QED BY <1>1, <1>6, <2>1 DEF Counting, Answering
<1> QED BY <1>0, <1>2, <1>3, <1>4, <1>7 DEF IInv, Quiet, Complete

\* The round is over: every thread has counted itself, so none is at work.
LEMMA AllDoneInv ==
  ASSUME IInv, AllDone
  PROVE  IInv' /\ 1..started \subseteq Counted'
<1> USE DEF GoTo, flagVars, threadVars
<1>0. /\ UNCHANGED <<boards, started, sends, udp, startFlag, endFlag, exitFlag, done, thread, count, bound, answered>>
      /\ main = "wait" /\ main' = "lower" /\ done = Cardinality(Registered)
  BY DEF AllDone
<1>1. Counted' = Counted /\ Registered' = Registered
  BY <1>0 DEF Counted, Registered
<1>2. 1..started \subseteq Counted
  BY <1>0, AllCounted
<1>3. TypeOK' /\ Registry' /\ Flags'
  BY <1>0, <1>1 DEF IInv, TypeOK, MainPoints, Registry, Flags
<1>4. \A t \in Threads : thread[t] \notin Working
  <2> SUFFICES ASSUME NEW t \in Threads PROVE thread[t] \notin Working
    OBVIOUS
  <2>1. started \in Nat /\ t \in Nat /\ t >= 1
    BY BoardServerAssumption DEF IInv, TypeOK, Threads
  <2>2. CASE t > started
    BY <2>2 DEF IInv, Registry, Working
  <2>3. CASE t <= started
    BY <1>2, <2>1, <2>3 DEF Counted, Working
  <2> QED BY <2>1, <2>2, <2>3
<1>5. Quiet'
  BY <1>0, <1>4 DEF Quiet
<1> QED BY <1>0, <1>1, <1>2, <1>3, <1>5 DEF IInv, Counting, Answering, Complete

\* end_flag lets the counted threads start over.
LEMMA SetEndInv ==
  ASSUME IInv, SetEnd
  PROVE  IInv'
<1> USE DEF GoTo
<1>0. /\ UNCHANGED <<boards, started, sends, udp, startFlag, exitFlag, done, count, bound, answered>>
      /\ main = "release" /\ main' = "input" /\ endFlag' = TRUE
      /\ thread' = [t \in Threads |-> IF thread[t] = "inEnd" THEN "check" ELSE thread[t]]
  BY DEF SetEnd, Wake
<1>1. Registered' = Registered
  BY <1>0 DEF Registered
<1>2. TypeOK'
  <2>1. main' \in MainPoints /\ thread' \in [Threads -> ThreadPoints]
    BY <1>0 DEF IInv, TypeOK, MainPoints, ThreadPoints
  <2> QED BY <1>0, <2>1 DEF IInv, TypeOK
<1>3. Registry' /\ Flags'
  BY <1>0, <1>1 DEF IInv, Registry, Flags
<1>4. Quiet'
  BY <1>0 DEF IInv, Quiet, Working
<1> QED BY <1>0, <1>2, <1>3, <1>4 DEF IInv, Counting, Answering, Complete

\* The threads that are woken for exit have only exit_flag to look at.
LEMMA SetStartToExitInv ==
  ASSUME IInv, SetStartToExit
  PROVE  IInv'
<1> USE DEF GoTo
<1>0. /\ UNCHANGED <<boards, started, sends, udp, endFlag, exitFlag, done, count, bound, answered>>
      /\ main = "wake" /\ main' = "join" /\ startFlag' = TRUE
      /\ thread' = [t \in Threads |-> IF thread[t] = "inStart" THEN "recheck" ELSE thread[t]]
  BY DEF SetStartToExit, Wake
<1>1. Registered' = Registered
  BY <1>0 DEF Registered
<1>2. TypeOK'
  <2>1. main' \in MainPoints /\ thread' \in [Threads -> ThreadPoints]
    BY <1>0 DEF IInv, TypeOK, MainPoints, ThreadPoints
  <2> QED BY <1>0, <2>1 DEF IInv, TypeOK
<1>3. Registry' /\ Flags'
  BY <1>0, <1>1 DEF IInv, Registry, Flags
<1>4. Quiet'
  BY <1>0 DEF IInv, Quiet, Working, Flags
<1> QED BY <1>0, <1>2, <1>3, <1>4 DEF IInv, Counting, Answering, Complete

\* A board registers for the first time: one more board, one more thread.
LEMMA RegisterInv ==
  ASSUME IInv, ~Restarts, NEW b \in Boards, Register(b)
  PROVE  IInv'
<1> USE DEF GoTo, flagVars
<1>0. /\ UNCHANGED <<sends, udp, startFlag, endFlag, exitFlag, done, count, bound, answered>>
      /\ main = "accept" /\ boards[b] = 0
  BY DEF Register
<1>1. CASE /\ started < MaxThreads /\ started' = started + 1
           /\ boards' = [boards EXCEPT ![b] = started']
           /\ thread' = [thread EXCEPT ![started'] = "accept"]
           /\ UNCHANGED main
  <2>1. started \in Nat /\ MaxThreads \in Nat /\ started' \in 1..MaxThreads
    BY <1>1, BoardServerAssumption DEF IInv, TypeOK
  <2>2. TypeOK'
    <3>1. thread' \in [Threads -> ThreadPoints]
      BY <1>1, <2>1 DEF IInv, TypeOK, Threads, ThreadPoints
    <3>2. boards' \in [Boards -> 0..MaxThreads]
      BY <1>1, <2>1 DEF IInv, TypeOK
    <3> QED BY <1>0, <1>1, <2>1, <3>1, <3>2 DEF IInv, TypeOK
  <2>3. Registered' = Registered \cup {b} /\ b \notin Registered
    BY <1>0, <1>1, <2>1 DEF IInv, TypeOK, Registered
  <2>4. IsFiniteSet(Registered)
    BY BoardServerAssumption, FS_Subset DEF Registered
  <2>5. Cardinality(Registered') = started'
    BY <1>1, <2>3, <2>4, FS_AddElement DEF IInv, Registry
  <2>6. boards' \in [Boards -> 0..started']
    BY <1>1, <2>1 DEF IInv, Registry
  <2>7. \A t \in Threads : thread'[t] = "none" <=> t > started'
    <3> SUFFICES ASSUME NEW t \in Threads
                 PROVE  thread'[t] = "none" <=> t > started'
      OBVIOUS
    <3>1. t \in Nat
      BY <2>1 DEF Threads
    <3>2. CASE t = started'
      BY <1>1, <2>1, <3>2 DEF IInv, TypeOK
    <3>3. CASE t # started'
      <4>1. thread'[t] = thread[t]
        BY <1>1, <3>3 DEF IInv, TypeOK
      <4> QED BY <1>1, <2>1, <3>1, <3>3, <4>1 DEF IInv, Registry
    <3> QED BY <3>2, <3>3
  <2>8. Flags'
    BY <1>0, <1>1 DEF IInv, Flags
  <2>9. Quiet'
    BY <1>0, <1>1, <2>1 DEF IInv, TypeOK, Quiet, Working
  <2> QED BY <1>0, <1>1, <2>2, <2>5, <2>6, <2>7, <2>8, <2>9
          DEF IInv, Registry, Counting, Answering, Complete
<1>2. CASE main' = "crashed" /\ UNCHANGED <<started, boards, thread>>
  <2>1. Registered' = Registered
    BY <1>2 DEF Registered
  <2>2. TypeOK'
    BY <1>0, <1>2 DEF IInv, TypeOK, MainPoints
  <2>3. Registry' /\ Flags' /\ Quiet'
    BY <1>0, <1>2, <2>1 DEF IInv, Registry, Flags, Quiet
  <2> QED BY <1>2, <2>2, <2>3 DEF IInv, Counting, Answering, Complete
<1> QED BY <1>1, <1>2 DEF Register

-----------------------------------------------------------------------------
(* The threads. *)

\* What a step of a thread that does not count itself has to show.
LEMMA ThreadFrame ==
  ASSUME IInv, NEW t \in Threads, NEW to \in ThreadPoints \ {"none"},
         UNCHANGED <<main, boards, started, sends, udp, startFlag, endFlag, exitFlag, done>>,
         thread[t] # "none", thread' = [thread EXCEPT ![t] = to],
         count' \in [Threads -> 0..MaxThreads], bound' \subseteq Threads,
         answered' \subseteq Threads
  PROVE  TypeOK' /\ Registry' /\ Flags'
<1>1. thread' \in [Threads -> ThreadPoints]
  BY DEF IInv, TypeOK
<1>2. TypeOK'
  BY <1>1 DEF IInv, TypeOK
<1>3. Registered' = Registered
  BY DEF Registered
<1>4. \A u \in Threads : thread'[u] = "none" <=> thread[u] = "none"
  BY DEF IInv, TypeOK
<1>5. Registry'
  BY <1>3, <1>4 DEF IInv, Registry
<1> QED BY <1>2, <1>5 DEF IInv, Flags

\* A thread at work outside a round is about to see exit_flag.
LEMMA AtWork ==
  ASSUME IInv, NEW t \in Threads, thread[t] \in {"answer", "count", "write"}
  PROVE  main = "wait"
BY DEF IInv, Quiet, Working

\* The steps of a thread that has not begun with its answer.
LEMMA ApproachInv ==
  ASSUME IInv, NEW t \in Threads,
         Connect(t) \/ CheckExit(t) \/ WaitStart(t) \/ Recheck(t) \/ NoAnswer(t)
  PROVE  IInv'
<1> USE DEF Step, mainVars, flagVars
<1>0. UNCHANGED <<main, boards, started, sends, udp, startFlag, endFlag, exitFlag, done, count, bound, answered>>
  BY DEF Connect, CheckExit, WaitStart, Recheck, NoAnswer
<1> DEFINE to == thread'[t]
<1>1. /\ thread[t] \in {"accept", "check", "start", "recheck", "answer"}
      /\ to \in {"check", "ended", "start", "recheck", "inStart", "answer"}
      /\ thread' = [thread EXCEPT ![t] = to]
  BY DEF IInv, TypeOK, Connect, CheckExit, WaitStart, Recheck, NoAnswer
<1>2. TypeOK' /\ Registry' /\ Flags'
  <2>1. to \in ThreadPoints \ {"none"}
    BY <1>1 DEF ThreadPoints
  <2>2. count \in [Threads -> 0..MaxThreads] /\ bound \subseteq Threads /\ answered \subseteq Threads
    BY DEF IInv, TypeOK
  <2> HIDE DEF to
  <2> QED BY <1>0, <1>1, <2>1, <2>2, ThreadFrame
<1>3. Counted' = Counted
  BY <1>0, <1>1 DEF IInv, TypeOK, Counted
<1>4. \A u \in Threads : u # t => thread'[u] = thread[u]
  BY <1>1 DEF IInv, TypeOK
<1>5. Quiet'
  <2> SUFFICES ASSUME main # "wait", thread'[t] \in Working
               PROVE  thread'[t] = "recheck" /\ exitFlag
    BY <1>0, <1>4 DEF IInv, Quiet
  <2>1. CASE WaitStart(t)
    <3>1. thread[t] = "start" /\ thread'[t] = "recheck" /\ startFlag
      BY <2>1 DEF WaitStart, IInv, TypeOK, Working
    <3>2. main # "lower"
      <4>1. started \in Nat /\ t \in Nat /\ t >= 1
        BY BoardServerAssumption DEF IInv, TypeOK, Threads
      <4>2. t <= started
        BY <3>1, <4>1 DEF IInv, Registry
      <4> QED BY <3>1, <4>1, <4>2 DEF IInv, Complete, Counted
    <3> QED BY <3>1, <3>2 DEF IInv, Flags
  <2>2. CASE Recheck(t)
    <3>1. thread[t] = "recheck" /\ ~exitFlag
      BY <2>2 DEF Recheck, IInv, TypeOK, Working
    <3> QED BY <3>1 DEF IInv, Quiet, Working
  <2>3. CASE Connect(t) \/ CheckExit(t) \/ NoAnswer(t)
    BY <2>3 DEF Connect, CheckExit, NoAnswer, IInv, TypeOK, Working
  <2> QED BY <2>1, <2>2, <2>3
<1>6. Counting' /\ Answering' /\ Complete'
  <2>1. \A u \in Threads : thread'[u] \in {"count", "write"} => thread[u] = thread'[u]
    BY <1>1, <1>4
  <2> QED BY <1>0, <1>3, <2>1 DEF IInv, Counting, Answering, Complete
<1> QED BY <1>2, <1>5, <1>6 DEF IInv

\* A thread at the answer has not counted itself yet.
LEMMA AnswerInv ==
  ASSUME IInv, NEW t \in Threads, Answer(t)
  PROVE  IInv'
<1> USE DEF Step, mainVars, flagVars
<1>0. /\ UNCHANGED <<main, boards, started, sends, udp, startFlag, endFlag, exitFlag, done, count>>
      /\ thread[t] = "answer" /\ answered' = answered \cup {t}
      /\ bound' \subseteq Threads
  BY DEF Answer, IInv, TypeOK
<1> DEFINE to == thread'[t]
<1>1. to \in {"count", "ended"} /\ thread' = [thread EXCEPT ![t] = to]
  BY DEF IInv, TypeOK, Answer
<1>2. main = "wait"
  BY <1>0, AtWork
<1>3. TypeOK' /\ Registry' /\ Flags'
  <2>1. to \in ThreadPoints \ {"none"} /\ answered' \subseteq Threads
    BY <1>0, <1>1 DEF ThreadPoints, IInv, TypeOK
  <2>2. count' \in [Threads -> 0..MaxThreads]
    BY <1>0 DEF IInv, TypeOK
  <2> HIDE DEF to
  <2> QED BY <1>0, <1>1, <2>1, <2>2, ThreadFrame
<1>4. Counted' = Counted
  BY <1>0, <1>1 DEF IInv, TypeOK, Counted
<1>5. \A u \in Threads : u # t => thread'[u] = thread[u]
  BY <1>1 DEF IInv, TypeOK
<1>6. Counting' /\ Answering'
  BY <1>0, <1>1, <1>2, <1>4, <1>5 DEF IInv, Counting, Answering
<1> QED BY <1>0, <1>2, <1>3, <1>6 DEF IInv, Quiet, Complete

\* The counter that is read is no more than the threads counted by then.
LEMMA ReadCountInv ==
  ASSUME IInv, NEW t \in Threads, ReadCount(t)
  PROVE  IInv'
<1> USE DEF Step, mainVars, flagVars
<1>0. /\ UNCHANGED <<main, boards, started, sends, udp, startFlag, endFlag, exitFlag, done, bound, answered>>
      /\ thread[t] = "count" /\ thread' = [thread EXCEPT ![t] = "write"]
      /\ count' = [count EXCEPT ![t] = done]
  BY DEF ReadCount
<1>1. main = "wait"
  BY <1>0, AtWork
<1>2. TypeOK' /\ Registry' /\ Flags'
  <2>1. "write" \in ThreadPoints \ {"none"}
    BY DEF ThreadPoints
  <2>2. /\ count' \in [Threads -> 0..MaxThreads]
        /\ bound' \subseteq Threads /\ answered' \subseteq Threads
    BY <1>0 DEF IInv, TypeOK
  <2> QED BY <1>0, <2>1, <2>2, ThreadFrame
<1>3. Counted' = Counted
  BY <1>0 DEF IInv, TypeOK, Counted
<1>4. \A u \in Threads : u # t => thread'[u] = thread[u] /\ count'[u] = count[u]
  BY <1>0 DEF IInv, TypeOK
<1>5. count'[t] = done /\ t \in answered
  BY <1>0, <1>1 DEF IInv, TypeOK, Answering
<1>6. Counting' /\ Answering'
  BY <1>0, <1>1, <1>3, <1>4, <1>5 DEF IInv, Counting, Answering
<1> QED BY <1>0, <1>1, <1>2, <1>6 DEF IInv, Quiet, Complete

\* The counter grows by at most one, and so do the threads that are counted;
\* when another thread has written in between, the counter is even behind.
LEMMA WriteCountInv ==
  ASSUME IInv, NEW t \in Threads, WriteCount(t)
  PROVE  IInv'
<1> USE DEF Step, mainVars, flagVars
<1>0. /\ UNCHANGED <<main, boards, started, sends, udp, startFlag, endFlag, exitFlag, count, bound, answered>>
      /\ thread[t] = "write" /\ thread' = [thread EXCEPT ![t] = "end"]
      /\ done' = count[t] + 1
  BY DEF WriteCount
<1>1. main = "wait" /\ t \in answered /\ count[t] <= Cardinality(Counted)
  BY <1>0, AtWork DEF IInv, Answering, Counting
<1>2. MaxThreads \in Nat /\ count[t] \in Nat /\ Cardinality(Counted) \in Nat
  BY BoardServerAssumption, CountedFinite DEF IInv, TypeOK
<1>3. t \notin Counted
  BY <1>0 DEF Counted
<1>4. /\ Cardinality(Counted \cup {t}) = Cardinality(Counted) + 1
      /\ Cardinality(Counted) + 1 <= MaxThreads
  BY <1>3, CountsOneMore DEF IInv
<1>5. Counted' = Counted \cup {t}
  BY <1>0, <1>1 DEF IInv, TypeOK, Counted
<1>6. TypeOK'
  <2>1. done' \in 0..MaxThreads
    BY <1>0, <1>1, <1>2, <1>4
  <2>2. thread' \in [Threads -> ThreadPoints]
    BY <1>0 DEF IInv, TypeOK, ThreadPoints
  <2> QED BY <1>0, <2>1, <2>2 DEF IInv, TypeOK
<1>7. Registry' /\ Flags'
  <2>1. Registered' = Registered
    BY <1>0 DEF Registered
  <2>2. \A u \in Threads : thread'[u] = "none" <=> thread[u] = "none"
    BY <1>0 DEF IInv, TypeOK
  <2> QED BY <1>0, <1>1, <2>1, <2>2 DEF IInv, Registry, Flags
<1>8. Counting' /\ Answering'
  <2>1. \A u \in Threads : thread'[u] \in {"count", "write"} => thread[u] = thread'[u]
    BY <1>0 DEF IInv, TypeOK
  <2>2. Cardinality(Counted') = Cardinality(Counted) + 1
    BY <1>4, <1>5
  <2>3. \A u \in Threads : count[u] \in Nat
    BY <1>2 DEF IInv, TypeOK
  <2> QED BY <1>0, <1>1, <1>2, <2>1, <2>2, <2>3 DEF IInv, Counting, Answering
<1> QED BY <1>0, <1>1, <1>6, <1>7, <1>8 DEF IInv, Quiet, Complete

\* A thread that has counted itself stays until the round is over.
LEMMA WaitEndInv ==
  ASSUME IInv, NEW t \in Threads, WaitEnd(t)
  PROVE  IInv'
<1> USE DEF Step, mainVars, flagVars
<1>0. /\ UNCHANGED <<main, boards, started, sends, udp, startFlag, endFlag, exitFlag, done, count, bound, answered>>
      /\ thread[t] = "end"
      /\ thread' = [thread EXCEPT ![t] = IF endFlag THEN "check" ELSE "inEnd"]
  BY DEF WaitEnd
<1>1. TypeOK' /\ Registry' /\ Flags'
  <2>1. (IF endFlag THEN "check" ELSE "inEnd") \in ThreadPoints \ {"none"}
    BY DEF ThreadPoints
  <2>2. /\ count' \in [Threads -> 0..MaxThreads]
        /\ bound' \subseteq Threads /\ answered' \subseteq Threads
    BY <1>0 DEF IInv, TypeOK
  <2> QED BY <1>0, <2>1, <2>2, ThreadFrame
<1>2. \A u \in Threads : thread'[u] \in Working => thread[u] = thread'[u]
  BY <1>0 DEF IInv, TypeOK, Working
<1>3. Quiet'
  BY <1>0, <1>2 DEF IInv, Quiet
<1>4. CASE endFlag
  <2>1. main' \notin {"wait", "lower", "release"}
    BY <1>0, <1>4 DEF IInv, Flags
  <2> QED BY <1>1, <1>3, <2>1 DEF IInv, Counting, Answering, Complete
<1>5. CASE ~endFlag
  <2>1. Counted' = Counted
    BY <1>0, <1>5 DEF IInv, TypeOK, Counted
  <2>2. Counting' /\ Answering' /\ Complete'
    BY <1>0, <1>2, <2>1 DEF IInv, Counting, Answering, Complete, Working
  <2> QED BY <1>1, <1>3, <2>2 DEF IInv
<1> QED BY <1>4, <1>5

-----------------------------------------------------------------------------
\* A stuttering step keeps the invariant.
LEMMA StutterInv ==
  ASSUME IInv, UNCHANGED vars
  PROVE  IInv'
<1>1. UNCHANGED <<main, boards, started, sends, udp, startFlag, endFlag, exitFlag, done,
                  thread, count, bound, answered>>
  BY DEF vars, mainVars, flagVars, threadVars
<1>2. Registered' = Registered /\ Counted' = Counted
  BY <1>1 DEF Registered, Counted
<1> QED BY <1>1, <1>2
        DEF IInv, TypeOK, Registry, Flags, Quiet, Counting, Answering, Complete

\* Every step keeps the invariant when no board registers twice.
LEMMA StepInv ==
  ASSUME ~Restarts, IInv, [Next]_vars
  PROVE  IInv'
<1>1. ASSUME NEW b \in Boards, Register(b) PROVE IInv'
  BY <1>1, RegisterInv
<1>2. CASE \/ Interrupt \/ AllConnected \/ ClearEnd \/ ClearStart
           \/ TypeExit \/ SetExit \/ Join
  BY <1>2, MainInv
<1>3. CASE Send
  BY <1>3, SendInv
<1>4. CASE SetStart
  BY <1>4, SetStartInv
<1>5. CASE AllDone
  BY <1>5, AllDoneInv
<1>6. CASE SetEnd
  BY <1>6, SetEndInv
<1>7. CASE SetStartToExit
  BY <1>7, SetStartToExitInv
<1>8. CASE Sleep \/ Done \/ UNCHANGED vars
  BY <1>8, StutterInv DEF Sleep, Done
<1>9. ASSUME NEW t \in Threads, Connect(t) \/ ThreadStep(t) PROVE IInv'
  BY <1>9, ApproachInv, AnswerInv, ReadCountInv, WriteCountInv, WaitEndInv DEF ThreadStep, OwnStep, Hear
<1> QED BY <1>1, <1>2, <1>3, <1>4, <1>5, <1>6, <1>7, <1>8, <1>9 DEF Next, Ask, MainStep

\* The inductive invariant: when no board registers twice, the counter never runs
\* ahead of the threads that have their answer and wait for the end of the round.
THEOREM ServerInvariant ==
  ASSUME ~Restarts
  PROVE  Spec => []IInv
<1>1. Init => IInv
  BY InitInv
<1>2. IInv /\ [Next]_vars => IInv'
  BY StepInv
<1> QED BY <1>1, <1>2, PTL DEF Spec

\* Every variable keeps its type; in particular thread_tasks_done never exceeds
\* the number of threads.
THEOREM ServerTypeCorrect ==
  ASSUME ~Restarts
  PROVE  Spec => []TypeOK
<1>1. IInv => TypeOK
  BY DEF IInv
<1> QED BY <1>1, ServerInvariant, PTL

\* The poll of server.py:207 ends a round only when every board has answered the
\* present message, whatever counts were lost and whichever threads came late.
THEOREM RoundIsComplete ==
  ASSUME ~Restarts
  PROVE  Spec => []RoundComplete
<1>1. IInv => RoundComplete
  <2> SUFFICES ASSUME IInv, main = "lower", NEW b \in Registered
               PROVE  boards[b] \in answered
    BY DEF RoundComplete
  <2>1. boards[b] \in 1..started
    BY DEF IInv, Registry, TypeOK, Registered
  <2> QED BY <2>1 DEF IInv, Complete, Counted
<1> QED BY <1>1, ServerInvariant, PTL

\* The globals of a round change only while no thread is at work.
THEOREM GlobalsAreStable ==
  ASSUME ~Restarts
  PROVE  Spec => []GlobalsStable
<1>1. IInv => GlobalsStable
  BY DEF IInv, Flags, Quiet, GlobalsStable
<1> QED BY <1>1, ServerInvariant, PTL

\* The two safety promises of a round together, as the run checks them.
THEOREM RoundIsSound ==
  ASSUME ~Restarts
  PROVE  Spec => []RoundSound
<1>1. RoundComplete /\ GlobalsStable => RoundSound
  BY DEF RoundSound
<1> QED BY <1>1, RoundIsComplete, GlobalsAreStable, PTL

-----------------------------------------------------------------------------
(* The server implements MessageRounds. *)

Asked == {t \in Threads : thread[t] = "answer"}

\* A thread with an answer to the present message cannot come to ask again.
Once ==
  /\ answered \subseteq 1..started
  /\ main \in {"clear", "raise"} => answered = {}
  /\ main = "wait" =>
       \A t \in answered : thread[t] \in {"count", "write", "end", "inEnd", "ended"}

\* The threads that were started are those with a place in the program.
LEMMA StartedThreads ==
  ASSUME IInv, NEW t \in Threads, thread[t] # "none"
  PROVE  t \in 1..started
<1>1. started \in Nat /\ t \in Nat /\ t >= 1
  BY BoardServerAssumption DEF IInv, TypeOK, Threads
<1>2. ~(t > started)
  BY DEF IInv, Registry
<1> QED BY <1>1, <1>2

\* Nobody is asked outside a round.
LEMMA AskedInRound ==
  ASSUME IInv, main # "wait"
  PROVE  Asked = {}
BY AtWork DEF Asked

\* Every step keeps Once.
LEMMA StepOnce ==
  ASSUME ~Restarts, IInv, Once, [Next]_vars
  PROVE  Once'
<1>0. answered \subseteq Threads /\ thread \in [Threads -> ThreadPoints] /\ started \in Nat
  BY BoardServerAssumption DEF IInv, TypeOK
<1>1. ASSUME NEW b \in Boards, Register(b) PROVE Once'
  <2>1. /\ main = "accept" /\ main' \in {"accept", "crashed"} /\ answered' = answered
        /\ started' \in {started, started + 1}
    BY <1>1 DEF Register
  <2>2. 1..started \subseteq 1..started'
    BY <1>0, <2>1
  <2> QED BY <2>1, <2>2 DEF Once
<1>2. CASE Interrupt \/ AllConnected \/ ClearEnd \/ SetStartToExit \/ AllDone \/ ClearStart \/ SetEnd
           \/ TypeExit \/ SetExit \/ Join
  <2>1. /\ started' = started /\ answered' = answered /\ main' # "wait"
        /\ main' \in {"clear", "raise"} => main = "clear"
    BY <1>2 DEF Interrupt, AllConnected, ClearEnd, SetStartToExit, AllDone, ClearStart, SetEnd,
                TypeExit, SetExit, Join, GoTo
  <2> QED BY <2>1 DEF Once
<1>3. CASE Send
  <2>1. started' = started /\ answered' = {} /\ main' # "wait"
    BY <1>3 DEF Send, GoTo
  <2> QED BY <2>1 DEF Once
<1>4. CASE SetStart
  <2>1. started' = started /\ answered' = {} /\ main' = "wait"
    BY <1>4 DEF SetStart, GoTo, Once
  <2> QED BY <2>1 DEF Once
<1>5. CASE Sleep \/ Done \/ UNCHANGED vars
  BY <1>5 DEF Sleep, Done, vars, mainVars, threadVars, Once
<1>6. ASSUME NEW t \in Threads, Connect(t) \/ ThreadStep(t) PROVE Once'
  <2>1. main' = main /\ started' = started
    BY <1>6 DEF Connect, ThreadStep, OwnStep, Hear, CheckExit, WaitStart, Recheck, Answer, NoAnswer, ReadCount,
                WriteCount, WaitEnd, mainVars
  <2>2. \A u \in Threads : u # t => thread'[u] = thread[u]
    BY <1>0, <1>6 DEF Connect, ThreadStep, OwnStep, Hear, CheckExit, WaitStart, Recheck, Answer, NoAnswer,
                      ReadCount, WriteCount, WaitEnd, Step
  <2>3. CASE Answer(t)
    <3>1. /\ thread[t] = "answer" /\ answered' = answered \cup {t}
          /\ thread'[t] \in {"count", "ended"}
      BY <1>0, <2>3 DEF Answer, Step
    <3>2. main = "wait" /\ t \in 1..started
      BY <3>1, AtWork, StartedThreads
    <3> QED BY <1>0, <2>1, <2>2, <3>1, <3>2 DEF Once
  <2>4. CASE ReadCount(t) \/ WriteCount(t) \/ WaitEnd(t)
    <3>1. answered' = answered
      BY <2>4 DEF ReadCount, WriteCount, WaitEnd
    <3>2. main = "wait" => thread'[t] \in {"write", "end", "inEnd"}
      BY <1>0, <2>4 DEF ReadCount, WriteCount, WaitEnd, Step, IInv, Flags
    <3> QED BY <1>0, <2>1, <2>2, <3>1, <3>2 DEF Once
  <2>5. CASE Connect(t) \/ CheckExit(t) \/ WaitStart(t) \/ Recheck(t) \/ NoAnswer(t)
    <3>1. answered' = answered /\ thread[t] \in {"accept", "check", "start", "recheck", "answer"}
      BY <2>5 DEF Connect, CheckExit, WaitStart, Recheck, NoAnswer, Step
    <3> QED BY <1>0, <2>1, <2>2, <3>1 DEF Once
  <2> QED BY <1>6, <2>3, <2>4, <2>5 DEF ThreadStep, OwnStep, Hear
<1> QED BY <1>1, <1>2, <1>3, <1>4, <1>5, <1>6 DEF Next, Ask, MainStep

\* The initial state of the server is that of MessageRounds.
LEMMA InitRounds == Init => Rounds!RoundsInit
<1> SUFFICES ASSUME Init PROVE Rounds!RoundsInit OBVIOUS
<1>1. Open = FALSE
  BY DEF Init, Open
<1>2. 1..started = {}
  BY DEF Init
<1>3. {t \in Threads : thread[t] = "answer"} = {}
  BY DEF Init
<1> QED BY <1>1, <1>2, <1>3 DEF Init, Rounds!RoundsInit

\* A board that registers joins; one the program dies for does not.
LEMMA RegisterJoins ==
  ASSUME IInv, Once, NEW b \in Boards, Register(b)
  PROVE  [Rounds!RoundsNext]_(Rounds!roundVars)
<1>0. /\ main = "accept" /\ main' \in {"accept", "crashed"} /\ answered' = answered
      /\ started \in Nat /\ MaxThreads \in Nat
  BY BoardServerAssumption DEF Register, IInv, TypeOK
<1> DEFINE A == {t \in Threads : thread[t] = "answer"}
<1>1. ~Open /\ Open' = Open
  BY <1>0 DEF Open
<1>2. CASE /\ started < MaxThreads /\ started' = started + 1
           /\ thread' = [thread EXCEPT ![started'] = "accept"]
  <2>1. started' \in Threads /\ started' \notin 1..started
    BY <1>0, <1>2 DEF Threads
  <2>2. 1..started' = (1..started) \cup {started'}
    BY <1>0, <1>2
  <2>3. thread[started'] = "none"
    BY <1>0, <1>2, <2>1 DEF IInv, Registry
  <2>4. \A t \in Threads : thread'[t] = "answer" <=> thread[t] = "answer"
    BY <1>2, <2>1, <2>3 DEF IInv, TypeOK
  <2>5. A' = A
    BY <2>4
  <2>6. Rounds!Join(started')
    BY <1>0, <1>1, <2>1, <2>2, <2>5 DEF Rounds!Join
  <2> QED BY <2>1, <2>6 DEF Rounds!RoundsNext
<1>3. CASE UNCHANGED <<started, thread>>
  <2>1. A' = A
    BY <1>3
  <2> QED BY <1>0, <1>1, <1>3, <2>1 DEF Rounds!roundVars
<1> QED BY <1>2, <1>3 DEF Register

\* A message opens a round, or its broadcast fails.
LEMMA SendBroadcasts ==
  ASSUME IInv, Send
  PROVE  [Rounds!RoundsNext]_(Rounds!roundVars)
<1>0. /\ main = "input" /\ answered' = {} /\ UNCHANGED <<started, thread>>
  BY DEF Send, GoTo, threadVars
<1>1. ~Open /\ Open' \in BOOLEAN
  BY <1>0 DEF Open
<1>2. {t \in Threads : thread[t] = "answer"} = {}
  BY <1>0, AskedInRound DEF Asked
<1>3. Rounds!Broadcast
  BY <1>0, <1>1, <1>2 DEF Rounds!Broadcast
<1> QED BY <1>3 DEF Rounds!RoundsNext

\* The poll that finds all threads counted closes the round.
LEMMA AllDoneCloses ==
  ASSUME IInv, Once, AllDone
  PROVE  [Rounds!RoundsNext]_(Rounds!roundVars)
<1>0. /\ main = "wait" /\ main' = "lower" /\ UNCHANGED <<started, thread, answered>>
  BY DEF AllDone, GoTo, threadVars
<1>1. Open /\ Open' = FALSE
  BY <1>0 DEF Open
<1>2. 1..started \subseteq Counted
  BY <1>0, AllCounted DEF AllDone
<1>3. answered = 1..started
  BY <1>2 DEF Counted, Once
<1>4. {t \in Threads : thread[t] = "answer"} = {}
  <2> SUFFICES ASSUME NEW t \in Threads, thread[t] = "answer" PROVE FALSE
    OBVIOUS
  <2>1. t \in 1..started
    BY StartedThreads
  <2> QED BY <1>2, <2>1 DEF Counted
<1>5. Rounds!Close
  BY <1>0, <1>1, <1>3, <1>4 DEF Rounds!Close
<1> QED BY <1>5 DEF Rounds!RoundsNext

\* The other steps of the main thread change nothing a round is made of.
LEMMA MainStutters ==
  ASSUME IInv,
         \/ Interrupt \/ AllConnected \/ ClearEnd \/ SetStart \/ SetStartToExit \/ ClearStart
         \/ SetEnd \/ TypeExit \/ SetExit \/ Join \/ Sleep \/ Done \/ UNCHANGED vars
  PROVE  UNCHANGED Rounds!roundVars
<1>1. started' = started /\ answered' = answered
  BY DEF Interrupt, AllConnected, ClearEnd, SetStart, SetStartToExit, ClearStart, SetEnd,
         TypeExit, SetExit, Join, Sleep, Done, vars, mainVars
<1>2. Open' = Open
  BY DEF Interrupt, AllConnected, ClearEnd, SetStart, SetStartToExit, ClearStart, SetEnd,
         TypeExit, SetExit, Join, Sleep, Done, vars, mainVars, GoTo, Open
<1>3. \A t \in Threads : thread'[t] = "answer" <=> thread[t] = "answer"
  BY DEF Interrupt, AllConnected, ClearEnd, SetStart, SetStartToExit, ClearStart, SetEnd,
         TypeExit, SetExit, Join, Sleep, Done, vars, threadVars, Wake
<1>4. {t \in Threads : thread[t] = "answer"}' = {t \in Threads : thread[t] = "answer"}
  BY <1>3
<1> QED BY <1>1, <1>2, <1>4 DEF Rounds!roundVars

\* A thread asks, gets its answer or fails; its other steps change nothing of a round.
LEMMA ThreadAsks ==
  ASSUME IInv, Once, NEW t \in Threads, Connect(t) \/ ThreadStep(t)
  PROVE  [Rounds!RoundsNext]_(Rounds!roundVars)
<1> DEFINE A == {u \in Threads : thread[u] = "answer"}
<1>0. /\ UNCHANGED <<main, started>> /\ thread \in [Threads -> ThreadPoints]
      /\ \A u \in Threads : u # t => thread'[u] = thread[u]
  BY DEF Connect, ThreadStep, OwnStep, Hear, CheckExit, WaitStart, Recheck, Answer, NoAnswer, ReadCount,
         WriteCount, WaitEnd, mainVars, Step, IInv, TypeOK
<1>1. Open' = Open
  BY <1>0 DEF Open
<1>2. CASE Recheck(t) /\ ~exitFlag
  <2>1. thread[t] = "recheck" /\ thread'[t] = "answer" /\ answered' = answered
    BY <1>0, <1>2 DEF Recheck, Step
  <2>2. main = "wait"
    BY <1>2, <2>1 DEF IInv, Quiet, Working
  <2>3. t \in 1..started /\ t \notin answered /\ Open
    BY <2>1, <2>2, StartedThreads DEF Once, Open
  <2>4. A' = A \cup {t} /\ t \notin A
    BY <1>0, <2>1
  <2>5. Rounds!Ask(t)
    BY <1>0, <1>1, <2>1, <2>3, <2>4 DEF Rounds!Ask
  <2> QED BY <2>5 DEF Rounds!RoundsNext
<1>3. CASE Answer(t)
  <2>1. thread[t] = "answer" /\ thread'[t] # "answer" /\ answered' = answered \cup {t}
    BY <1>0, <1>3 DEF Answer, Step
  <2>2. A' = A \ {t} /\ t \in A
    BY <1>0, <2>1
  <2>3. Rounds!Reply(t)
    BY <1>0, <1>1, <2>1, <2>2 DEF Rounds!Reply
  <2> QED BY <2>3 DEF Rounds!RoundsNext
<1>4. CASE NoAnswer(t)
  <2>1. thread[t] = "answer" /\ thread'[t] # "answer" /\ answered' = answered
    BY <1>0, <1>4 DEF NoAnswer, Step
  <2>2. A' = A \ {t} /\ t \in A
    BY <1>0, <2>1
  <2>3. Rounds!Fail(t)
    BY <1>0, <1>1, <2>1, <2>2 DEF Rounds!Fail
  <2> QED BY <2>3 DEF Rounds!RoundsNext
<1>5. CASE \/ Connect(t) \/ CheckExit(t) \/ WaitStart(t) \/ (Recheck(t) /\ exitFlag)
           \/ ReadCount(t) \/ WriteCount(t) \/ WaitEnd(t)
  <2>1. thread[t] # "answer" /\ thread'[t] # "answer" /\ answered' = answered
    BY <1>0, <1>5 DEF Connect, CheckExit, WaitStart, Recheck, ReadCount, WriteCount, WaitEnd, Step
  <2>2. A' = A
    BY <1>0, <2>1
  <2> QED BY <1>0, <1>1, <2>1, <2>2 DEF Rounds!roundVars
<1>6. CASE Recheck(t)
  BY <1>2, <1>5, <1>6
<1> QED BY <1>3, <1>4, <1>5, <1>6 DEF ThreadStep, OwnStep, Hear

\* The server implements MessageRounds when no board registers twice: with counts lost
\* and events overlapping, no thread is asked again for what it has answered, and a
\* round is closed only when all have answered.
THEOREM ServerServesRounds ==
  ASSUME ~Restarts
  PROVE  Spec => ServesRounds
<1>1. Init => Once
  BY DEF Init, Once
<1>2. IInv /\ Once /\ [Next]_vars => Once'
  BY StepOnce
<1>3. IInv /\ Once /\ [Next]_vars => [Rounds!RoundsNext]_(Rounds!roundVars)
  BY RegisterJoins, SendBroadcasts, AllDoneCloses, MainStutters, ThreadAsks
     DEF Next, Ask, MainStep
<1> QED BY <1>1, <1>2, <1>3, InitRounds, ServerInvariant, PTL
        DEF Spec, ServesRounds, Rounds!RoundsSpec

=============================================================================
