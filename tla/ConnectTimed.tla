----------------------------- MODULE ConnectTimed -----------------------------
(***************************************************************************)
(* php_quic_connect_timed(): the client handshake driven in non-blocking   *)
(* mode against an overall deadline.  The network may lose a flight, the   *)
(* engine sends it again when its own timer runs out (if somebody calls    *)
(* it), an answer may come at any time, and the process may be descheduled *)
(* between any two of the steps below; reading the clock and entering the  *)
(* poll with what remains is one step.  Times are in milliseconds.         *)
(***************************************************************************)
EXTENDS Integers

CONSTANTS
    Timeouts,   \* the connect_timeout_ms values that are tried
    Timers,     \* how far ahead the engine may set its timer
    IntMax,     \* INT_MAX
    MaxTime     \* bound: the last value of the clock

ASSUME TimeoutsAssumption == Timeouts \subseteq Nat \ {0}
ASSUME IntMaxAssumption == IntMax \in Nat \ {0}
(* A timer that the engine tells is seconds ahead, not the 24 days at which *)
(* the conversion of the event timeout to int overflows.                    *)
ASSUME TimersAssumption == Timers \subseteq 1 .. IntMax
(* The clock runs past every deadline. *)
ASSUME MaxTimeAssumption == MaxTime \in Nat /\ \A t \in Timeouts : t + 1 < MaxTime

VARIABLES
    now,        \* CLOCK_MONOTONIC
    flight,     \* our last flight is on its way to the peer
    inbox,      \* what waits in the socket: "none", "accept" or "refuse"
    hs,         \* the engine's handshake: "pending", "done" or "failed"
    timerAt,    \* when the engine wants to be called
    blocking,   \* blocking mode of the SSL object
    pc,         \* next statement
    timeout,    \* timeout_ms
    start,      \* clock at the call
    told,       \* SSL_get_event_timeout gave a finite timeout
    pollin,     \* the poll watches for input
    pollout,    \* the poll watches for output
    wakeAt,     \* when the poll times out
    result      \* 1, 0 or -1; 2 while running

network == <<flight, inbox>>
locals == <<timeout, start, told, pollin, pollout, wakeAt, result>>
vars == <<now, flight, inbox, hs, timerAt, blocking, pc, timeout, start, told,
          pollin, pollout, wakeAt, result>>

-----------------------------------------------------------------------------
Init ==
    /\ now \in 0 .. 1
    /\ flight = FALSE /\ inbox = "none"
    /\ hs = "pending" /\ timerAt = 0
    /\ blocking = TRUE
    /\ pc = "enter"
    /\ timeout \in Timeouts /\ start = 0
    /\ told = FALSE /\ pollin = FALSE /\ pollout = FALSE
    /\ wakeAt = 0 /\ result = 2

(* The world outside the process. *)

Tick ==
    /\ pc \notin {"enter", "return"} /\ now < MaxTime
    /\ now' = now + 1
    /\ UNCHANGED <<network, hs, timerAt, blocking, pc, locals>>

Lose ==
    /\ flight
    /\ flight' = FALSE
    /\ UNCHANGED <<now, inbox, hs, timerAt, blocking, pc, locals>>

Answer ==
    /\ flight /\ inbox = "none"
    /\ flight' = FALSE
    /\ inbox' \in {"accept", "refuse"}
    /\ UNCHANGED <<now, hs, timerAt, blocking, pc, locals>>

(* OpenSSL: one run of the engine, from SSL_connect or SSL_handle_events.   *)
(* It takes in what the socket holds and, when its timer is due, sends its  *)
(* flight (again) and arms the timer anew.                                  *)
EngineRuns ==
    /\ hs' = CASE hs = "pending" /\ inbox = "accept" -> "done"
               [] hs = "pending" /\ inbox = "refuse" -> "failed"
               [] OTHER -> hs
    /\ inbox' = "none"
    /\ IF hs' = "pending" /\ now >= timerAt
       THEN flight' = TRUE /\ \E d \in Timers : timerAt' = now + d
       ELSE UNCHANGED <<flight, timerAt>>

-----------------------------------------------------------------------------
(* The statements of php_quic_connect_timed(). *)

Enter ==
    /\ pc = "enter"
    /\ start' = now
    /\ blocking' = FALSE
    /\ pc' = "connect"
    /\ UNCHANGED <<now, network, hs, timerAt, timeout, told, pollin, pollout,
                   wakeAt, result>>

Return(r) ==
    /\ blocking' = TRUE
    /\ result' = r
    /\ pc' = "return"

SSL_connect ==
    /\ pc = "connect"
    /\ EngineRuns
    /\ CASE hs' = "done" -> Return(1)
         [] hs' = "failed" -> Return(0)
         [] OTHER -> pc' = "deadline" /\ UNCHANGED <<blocking, result>>
    /\ UNCHANGED <<now, timeout, start, told, pollin, pollout, wakeAt>>

Remaining == timeout - (now - start)

(* The conversion of the engine's timeout to a 32-bit int. *)
ToInt(ms) == IF ms <= IntMax THEN ms ELSE ms - 2 * (IntMax + 1)

Least(a, b) == IF a < b THEN a ELSE b

(* Mutant: the engine's own timer is not honoured. *)
WaitIgnoringTimer(known) == Least(Remaining, IntMax)

(* What is left of the time, or less if the engine says that it wants to be *)
(* called before; it may say nothing (a failed call, or no timer armed).    *)
WaitMs(known) ==
    LET ev == ToInt(IF timerAt > now THEN timerAt - now ELSE 0)
        left == Least(Remaining, IntMax)
    IN  IF known THEN Least(left, ev) ELSE left

(* Without anything desired the poll watches for input. *)
PollIn(rd, wr) == rd \/ ~wr

Deadline ==
    /\ pc = "deadline"
    /\ IF Remaining <= 0
       THEN Return(-1) /\ UNCHANGED <<told, pollin, pollout, wakeAt>>
       ELSE /\ \E rd, wr \in BOOLEAN : pollin' = PollIn(rd, wr) /\ pollout' = wr
            /\ told' \in BOOLEAN
            /\ LET ms == WaitMs(told')
               IN  wakeAt' = IF ms < 0 THEN MaxTime + 1 ELSE now + ms
            /\ pc' = "poll"
            /\ UNCHANGED <<blocking, result>>
    /\ UNCHANGED <<now, network, hs, timerAt, timeout, start>>

(* A UDP socket is always writable. *)
Poll ==
    /\ pc = "poll"
    /\ now >= wakeAt \/ (pollin /\ inbox # "none") \/ pollout
    /\ pc' = "events"
    /\ UNCHANGED <<now, network, hs, timerAt, blocking, locals>>

(* Mutant: after the poll the deadline is checked before the handshake. *)
AfterEventsDeadline == "deadline"

(* Mutant: a poll that brought nothing is simply repeated. *)
AfterEventsPoll == "poll"

AfterEvents == "connect"

SSL_handle_events ==
    /\ pc = "events"
    /\ EngineRuns
    /\ pc' = AfterEvents
    /\ UNCHANGED <<now, blocking, locals>>

Step == Enter \/ SSL_connect \/ Deadline \/ Poll \/ SSL_handle_events

Next == Tick \/ Lose \/ Answer \/ Step

Spec == Init /\ [][Next]_vars

(* The process is scheduled and time passes; the network promises nothing.  *)
FairSpec == Spec /\ WF_vars(Step) /\ WF_vars(Tick)

-----------------------------------------------------------------------------
(* Properties *)

(* The result tells the truth on every path: 1 and 0 are the engine's       *)
(* verdict, -1 means that the full timeout has passed and that the engine   *)
(* had no verdict (an answer taken in by the last SSL_handle_events wins    *)
(* over the deadline); and the SSL object is back in blocking mode.         *)
ResultIsHonest ==
    pc = "return" =>
        /\ blocking
        /\ result = 1 <=> hs = "done"
        /\ result = 0 <=> hs = "failed"
        /\ result = -1 => now - start >= timeout

(* The poll ends by the deadline, and by the time the engine wants to be    *)
(* called if it told one, so that a lost flight is sent again while there   *)
(* is time left; and it always watches the socket for something.            *)
WakesInTime ==
    pc = "poll" => /\ pollin \/ pollout
                   /\ wakeAt <= start + timeout
                   /\ told => wakeAt <= timerAt \/ wakeAt <= now

(* The call returns, whatever the network does: silence, loss, or a socket  *)
(* that polls ready all the time.                                           *)
Returns == <>(pc = "return")
=============================================================================
