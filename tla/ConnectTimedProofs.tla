-------------------------- MODULE ConnectTimedProofs --------------------------
(***************************************************************************)
(* Proofs about ConnectTimed for any timeouts, timers and width of int.    *)
(***************************************************************************)
EXTENDS ConnectTimed, TLAPS

TimeTypes ==
    /\ now \in Nat /\ timerAt \in Nat /\ start \in Nat /\ wakeAt \in Nat
    /\ timeout \in Nat \ {0}
    /\ hs \in {"pending", "done", "failed"}
    /\ pc \in {"enter", "connect", "deadline", "poll", "events", "return"}

(* The handshake is undecided wherever the loop does not return at once, so *)
(* that only the deadline can end it there.                                 *)
UndecidedInLoop == pc \in {"deadline", "poll", "events"} => hs = "pending"

(* The engine's timer is never further away than an int of milliseconds. *)
TimerInReach == timerAt <= now + IntMax

TimedInv ==
    TimeTypes /\ UndecidedInLoop /\ TimerInReach /\ ResultIsHonest /\ WakesInTime

LEMMA TimedInvInit == Init => TimedInv
  BY TimeoutsAssumption, IntMaxAssumption DEF Init, TimedInv, TimeTypes,
     UndecidedInLoop, TimerInReach, ResultIsHonest, WakesInTime

(* A run of the engine moves the timer by at most an int of milliseconds. *)
LEMMA EngineRunsSound ==
    ASSUME TimeTypes, TimerInReach, EngineRuns
    PROVE  /\ timerAt' \in Nat /\ timerAt' <= now + IntMax
           /\ hs' \in {"pending", "done", "failed"}
<1>1. \A d \in Timers : d \in Nat /\ d <= IntMax
  BY TimersAssumption, IntMaxAssumption
<1>2. hs' \in {"pending", "done", "failed"}
  BY DEF EngineRuns, TimeTypes
<1>3. CASE timerAt' = timerAt
  BY <1>2, <1>3 DEF TimeTypes, TimerInReach
<1>4. ASSUME NEW d \in Timers, timerAt' = now + d
      PROVE  timerAt' \in Nat /\ timerAt' <= now + IntMax
  BY <1>1, <1>4, IntMaxAssumption DEF TimeTypes
<1> QED
  BY <1>2, <1>3, <1>4 DEF EngineRuns

(* What the poll is given: no longer than what remains, no longer than the  *)
(* engine allows, and never a negative number, which would mean for ever.   *)
LEMMA WaitMsBounds ==
    ASSUME TimeTypes, TimerInReach, Remaining > 0, NEW known \in BOOLEAN
    PROVE  /\ WaitMs(known) \in Nat /\ WaitMs(known) <= Remaining
           /\ known => now + WaitMs(known) <= timerAt \/ WaitMs(known) = 0
<1> DEFINE ahead == IF timerAt > now THEN timerAt - now ELSE 0
<1>1. ahead \in Nat /\ ahead <= IntMax
  BY IntMaxAssumption DEF TimeTypes, TimerInReach
<1>2. ToInt(ahead) = ahead
  BY <1>1 DEF ToInt
<1>3. Remaining \in Nat
  BY DEF Remaining, TimeTypes
<1> DEFINE left == Least(Remaining, IntMax)
<1>4. left \in Nat /\ left <= Remaining
  BY <1>3, IntMaxAssumption DEF Least
<1>5. CASE known
  <2>1. WaitMs(known) = Least(left, ahead)
    BY <1>2, <1>5 DEF WaitMs
  <2> HIDE DEF left
  <2>2. /\ WaitMs(known) \in Nat /\ WaitMs(known) <= Remaining
        /\ WaitMs(known) <= ahead
    BY <1>1, <1>3, <1>4, <2>1 DEF Least
  <2> QED
    BY <2>2 DEF TimeTypes
<1>6. CASE ~known
  <2>1. WaitMs(known) = left
    BY <1>6 DEF WaitMs
  <2> QED
    BY <1>4, <1>6, <2>1
<1> QED
  BY <1>5, <1>6

LEMMA TimedInvStep == TimedInv /\ [Next]_vars => TimedInv'
<1> SUFFICES ASSUME TimedInv, [Next]_vars PROVE TimedInv'
  OBVIOUS
<1>0. TimeTypes /\ UndecidedInLoop /\ TimerInReach /\ ResultIsHonest /\ WakesInTime
  BY DEF TimedInv
<1>1. CASE Tick
  <2>1. /\ now' = now + 1 /\ pc # "return"
        /\ UNCHANGED <<hs, timerAt, blocking, pc, timeout, start, told, pollin,
                       pollout, wakeAt, result>>
    BY <1>1 DEF Tick, locals
  <2> QED
    BY <1>0, <2>1, IntMaxAssumption DEF TimedInv, TimeTypes, UndecidedInLoop,
       TimerInReach, ResultIsHonest, WakesInTime
<1>2. CASE Lose \/ Answer
  BY <1>0, <1>2 DEF Lose, Answer, locals, TimedInv, TimeTypes, UndecidedInLoop,
     TimerInReach, ResultIsHonest, WakesInTime
<1>3. CASE Enter
  BY <1>0, <1>3 DEF Enter, TimedInv, TimeTypes, UndecidedInLoop, TimerInReach,
     ResultIsHonest, WakesInTime
<1>4. CASE SSL_connect
  <2>1. /\ EngineRuns /\ UNCHANGED <<now, timeout, start, told, wakeAt>>
        /\ CASE hs' = "done" -> Return(1)
             [] hs' = "failed" -> Return(0)
             [] OTHER -> pc' = "deadline" /\ UNCHANGED <<blocking, result>>
    BY <1>4 DEF SSL_connect
  <2>2. /\ timerAt' \in Nat /\ timerAt' <= now + IntMax
        /\ hs' \in {"pending", "done", "failed"}
    BY <1>0, <2>1, EngineRunsSound
  <2>3. \/ hs' = "done" /\ pc' = "return" /\ result' = 1 /\ blocking'
        \/ hs' = "failed" /\ pc' = "return" /\ result' = 0 /\ blocking'
        \/ hs' = "pending" /\ pc' = "deadline"
    BY <2>1, <2>2 DEF Return
  <2> QED
    BY <1>0, <2>1, <2>2, <2>3 DEF TimedInv, TimeTypes, UndecidedInLoop,
       TimerInReach, ResultIsHonest, WakesInTime
<1>5. CASE Deadline
  <2>1. pc = "deadline" /\ hs = "pending" /\ UNCHANGED <<now, hs, timerAt, timeout, start>>
    BY <1>0, <1>5 DEF Deadline, UndecidedInLoop
  <2>2. CASE Remaining <= 0
    <3>1. pc' = "return" /\ result' = -1 /\ blocking' /\ wakeAt' = wakeAt /\ told' = told
      BY <1>5, <2>2 DEF Deadline, Return
    <3>2. now - start >= timeout
      BY <1>0, <2>2 DEF Remaining, TimeTypes
    <3> QED
      BY <1>0, <2>1, <3>1, <3>2 DEF TimedInv, TimeTypes, UndecidedInLoop,
         TimerInReach, ResultIsHonest, WakesInTime
  <2>3. CASE ~(Remaining <= 0)
    <3>1. Remaining > 0
      BY <1>0, <2>3 DEF Remaining, TimeTypes
    <3> DEFINE ms == WaitMs(told')
    <3>0. told' \in BOOLEAN
      BY <1>5, <2>3 DEF Deadline
    <3>2. /\ ms \in Nat /\ ms <= Remaining
          /\ told' => now + ms <= timerAt \/ ms = 0
      BY <1>0, <3>0, <3>1, WaitMsBounds
    <3>3. pc' = "poll" /\ wakeAt' = now + ms
      BY <1>5, <2>3, <3>2 DEF Deadline
    <3> HIDE DEF ms
    <3>4. pollin' \/ pollout'
      <4>1. PICK rd \in BOOLEAN, wr \in BOOLEAN :
               pollin' = PollIn(rd, wr) /\ pollout' = wr
        BY <1>5, <2>3 DEF Deadline
      <4> QED
        BY <4>1 DEF PollIn
    <3>5. wakeAt' \in Nat /\ wakeAt' <= start + timeout
          /\ (told' => wakeAt' <= timerAt \/ wakeAt' <= now)
      BY <1>0, <3>2, <3>3 DEF Remaining, TimeTypes
    <3> QED
      BY <1>0, <2>1, <3>0, <3>3, <3>4, <3>5 DEF TimedInv, TimeTypes, UndecidedInLoop,
         TimerInReach, ResultIsHonest, WakesInTime
  <2> QED
    BY <2>2, <2>3
<1>6. CASE Poll
  BY <1>0, <1>6 DEF Poll, locals, TimedInv, TimeTypes, UndecidedInLoop,
     TimerInReach, ResultIsHonest, WakesInTime
<1>7. CASE SSL_handle_events
  <2>1. /\ EngineRuns /\ pc' = "connect" /\ UNCHANGED <<now, timeout, start, told, wakeAt>>
    BY <1>7 DEF SSL_handle_events, AfterEvents, locals
  <2>2. /\ timerAt' \in Nat /\ timerAt' <= now + IntMax
        /\ hs' \in {"pending", "done", "failed"}
    BY <1>0, <2>1, EngineRunsSound
  <2> QED
    BY <1>0, <2>1, <2>2 DEF TimedInv, TimeTypes, UndecidedInLoop, TimerInReach,
       ResultIsHonest, WakesInTime
<1>8. CASE UNCHANGED vars
  BY <1>0, <1>8 DEF vars, TimedInv, TimeTypes, UndecidedInLoop, TimerInReach,
     ResultIsHonest, WakesInTime
<1> QED
  BY <1>1, <1>2, <1>3, <1>4, <1>5, <1>6, <1>7, <1>8 DEF Next, Step

LEMMA TimedInvariant == Spec => []TimedInv
  BY TimedInvInit, TimedInvStep, PTL DEF Spec

(* The result of php_quic_connect_timed() is the engine's verdict, or says  *)
(* truthfully that the whole timeout has passed without one.                *)
THEOREM HonestResult == Spec => []ResultIsHonest
<1>1. TimedInv => ResultIsHonest
  BY DEF TimedInv
<1> QED
  BY <1>1, TimedInvariant, PTL

(* The poll never sleeps past the deadline, nor past the engine's timer     *)
(* when the engine told it, for every timeout an option can hold.           *)
THEOREM NeverOversleeps == Spec => []WakesInTime
<1>1. TimedInv => WakesInTime
  BY DEF TimedInv
<1> QED
  BY <1>1, TimedInvariant, PTL

-----------------------------------------------------------------------------
(* The statements php_quic_connect_timed() still runs when its deadline has *)
(* passed, if nothing decides the handshake before.                         *)
Over == pc # "enter" /\ Remaining <= 0

StatementsLeft ==
    IF pc = "poll" THEN 4 ELSE
    IF pc = "events" THEN 3 ELSE
    IF pc = "connect" THEN 2 ELSE
    IF pc = "deadline" THEN 1 ELSE 0

(* Once the deadline has passed it stays passed, and each statement is one  *)
(* of at most four before the return: there is no way round the loop.       *)
EndsAfterDeadline ==
    [][Over /\ pc # "return" =>
          /\ Over'
          /\ IF Step THEN StatementsLeft' < StatementsLeft ELSE pc' = pc]_vars

(* The poll does not block any more then, even if the socket stays silent.  *)
PollIsOver == Over /\ pc = "poll" => now >= wakeAt

(* A step of the world or of the call, with the deadline behind it. *)
LEMMA OverStep ==
    ASSUME TimedInv, Next, Over, pc # "return"
    PROVE  /\ Over'
           /\ IF Step THEN StatementsLeft' < StatementsLeft ELSE pc' = pc
<1>0. TimeTypes /\ pc # "enter" /\ timeout - (now - start) <= 0
  BY DEF TimedInv, Over, Remaining
<1>1. CASE Tick
  <2>1. now' = now + 1 /\ UNCHANGED <<pc, timeout, start>>
    BY <1>1 DEF Tick, locals
  <2>2. Over'
    BY <1>0, <2>1 DEF Over, Remaining, TimeTypes
  <2>3. ~Step
    BY <1>0, <2>1 DEF Step, Enter, SSL_connect, Deadline, Poll, SSL_handle_events,
       TimeTypes
  <2> QED
    BY <2>1, <2>2, <2>3
<1>2. CASE Lose \/ Answer
  <2>1. UNCHANGED <<pc, now, timeout, start>>
    BY <1>2 DEF Lose, Answer, locals
  <2>2. Over'
    BY <1>0, <2>1 DEF Over, Remaining
  <2>3. ~Step
    <3>1. pc' # "return"
      BY <2>1
    <3> QED
      BY <1>0, <2>1, <3>1 DEF Step, Enter, SSL_connect, Deadline, Poll,
         SSL_handle_events, AfterEvents, Return
  <2> QED
    BY <2>1, <2>2, <2>3
<1>3. CASE Step
  <2>1. /\ UNCHANGED <<now, timeout, start>> /\ pc' # "enter"
        /\ StatementsLeft' < StatementsLeft
    <3>1. CASE SSL_connect
      BY <3>1 DEF SSL_connect, Return, StatementsLeft
    <3>2. CASE Deadline
      BY <1>0, <3>2 DEF Deadline, Remaining, Return, StatementsLeft
    <3>3. CASE Poll
      BY <3>3 DEF Poll, locals, StatementsLeft
    <3>4. CASE SSL_handle_events
      BY <3>4 DEF SSL_handle_events, AfterEvents, locals, StatementsLeft
    <3> QED
      BY <1>0, <1>3, <3>1, <3>2, <3>3, <3>4 DEF Step, Enter
  <2> QED
    BY <1>0, <1>3, <2>1 DEF Over, Remaining
<1> QED
  BY <1>1, <1>2, <1>3 DEF Next

(* When the deadline has passed the call returns within four statements,    *)
(* none of which waits: the safety half of Returns, for every timeout.      *)
THEOREM DeadlineEndsTheCall == Spec => EndsAfterDeadline /\ []PollIsOver
<1>1. TimedInv /\ [Next]_vars =>
         [Over /\ pc # "return" =>
             /\ Over'
             /\ IF Step THEN StatementsLeft' < StatementsLeft ELSE pc' = pc]_vars
  BY OverStep
<1>2. TimedInv => PollIsOver
  BY DEF TimedInv, TimeTypes, WakesInTime, PollIsOver, Over, Remaining
<1> QED
  BY <1>1, <1>2, TimedInvariant, PTL DEF Spec, EndsAfterDeadline
===============================================================================
