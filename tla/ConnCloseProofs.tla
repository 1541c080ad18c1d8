---------------------------- MODULE ConnCloseProofs ----------------------------
(***************************************************************************)
(* Proofs about ConnClose for any set of error codes and any amount of     *)
(* data.                                                                   *)
(***************************************************************************)
EXTENDS ConnClose, TLAPS

CloseTypes ==
    /\ closed \in BOOLEAN /\ unacked \in Nat /\ sent \in BOOLEAN
    /\ chan \in {"active", "closing", "draining", "terminated"}
    /\ cause \in Causes \cup {None}
    /\ pc \in {"idle", "flush", "wait"}
    /\ args \in Codes \cup {None} /\ asked \in Codes \cup {None}

(* A connection that is active has no cause, and has sent no close; close() *)
(* waits for the end only of one that is ending.                            *)
ActiveIsOpen ==
    /\ cause = None <=> chan = "active"
    /\ sent \/ pc = "wait" => chan # "active"

(* close() is asked for a code once: not again while it runs, and not after *)
(* it has set closed.                                                       *)
AskedOnce ==
    /\ pc = "idle" /\ ~closed => asked = None
    /\ pc # "idle" => ~closed /\ args = asked /\ args \in Codes

(* An application close of ours has the code that was asked for. *)
CauseIsAsked ==
    cause # None /\ cause.local /\ ~cause.transport =>
        cause.code = asked /\ asked # None

CloseInv == CloseTypes /\ ActiveIsOpen /\ AskedOnce /\ CauseIsAsked /\ DataBeforeClose

LEMMA CloseInvInit == Init => CloseInv
<1> SUFFICES ASSUME Init PROVE CloseInv
  OBVIOUS
<1>1. CloseTypes
  BY DEF Init, CloseTypes
<1>2. ActiveIsOpen /\ AskedOnce /\ CauseIsAsked /\ DataBeforeClose
  BY DEF Init, ActiveIsOpen, AskedOnce, CauseIsAsked, DataBeforeClose
<1> QED
  BY <1>1, <1>2 DEF CloseInv

(* A turn of the engine, in whichever call it happens. *)
LEMMA TickKeepsInv ==
    ASSUME CloseInv, Tick, UNCHANGED object
    PROVE  CloseInv'
<1> USE NoneAssumption DEF CloseInv, CloseTypes, ActiveIsOpen, AskedOnce,
        CauseIsAsked, DataBeforeClose, object
<1>1. CASE Ack
  BY <1>1 DEF Ack
<1>2. CASE PeerCloses
  <2>1. PICK c \in Codes : cause' = [code |-> c, local |-> FALSE, transport |-> FALSE]
    BY <1>2 DEF PeerCloses
  <2>2. cause' \in Causes /\ ~cause'.local
    BY <2>1 DEF Causes
  <2> QED
    BY <1>2, <2>2 DEF PeerCloses
<1>3. CASE IdleTimeout
  <2>1. cause' \in Causes /\ cause'.transport
    BY <1>3 DEF IdleTimeout, Causes
  <2> QED
    BY <1>3, <2>1 DEF IdleTimeout
<1>4. CASE TerminationTimer
  BY <1>4 DEF TerminationTimer
<1> QED
  BY <1>1, <1>2, <1>3, <1>4 DEF Tick

(* Our own close keeps what CloseInv says of cause, channel and frame.      *)
LEMMA LocalCloseSound ==
    ASSUME CloseTypes, ActiveIsOpen, NEW code \in Codes, LocalClose(code)
    PROVE  /\ chan' \in {"active", "closing", "draining", "terminated"}
           /\ cause' \in Causes \cup {None} /\ sent' \in BOOLEAN
           /\ chan' # "active" /\ cause' # None
           /\ chan # "active" => cause' = cause /\ sent' = sent
           /\ chan = "active" => cause'.code = code
<1>1. [code |-> code, local |-> TRUE, transport |-> FALSE] \in Causes
  BY DEF Causes
<1> QED
  BY <1>1, NoneAssumption DEF LocalClose, CloseTypes, ActiveIsOpen

LEMMA CloseInvStep == CloseInv /\ [Next]_vars => CloseInv'
<1> SUFFICES ASSUME CloseInv, [Next]_vars PROVE CloseInv'
  OBVIOUS
<1>0. CloseTypes /\ ActiveIsOpen /\ AskedOnce /\ CauseIsAsked /\ DataBeforeClose
  BY DEF CloseInv
<1>1. CASE write \/ setBlocking
  BY <1>1 DEF write, setBlocking, CloseInv, CloseTypes, ActiveIsOpen, AskedOnce,
     CauseIsAsked, DataBeforeClose, object, engine
<1>2. CASE handleEvents \/ close_tick
  BY <1>2, TickKeepsInv DEF handleEvents, close_tick
<1>3. ASSUME NEW c \in Codes, close_nonblocking(c) PROVE CloseInv'
  <2>1. /\ pc = "idle" /\ ~closed /\ closed' = TRUE /\ UNCHANGED <<pc, args>>
        /\ asked' = c
    BY <1>0, <1>3 DEF close_nonblocking, Closable, Asked, AskedOnce
  <2>2. PICK n \in 0 .. unacked :
           /\ unacked' = IF chan = "active" THEN n ELSE unacked
           /\ IF Flushed(n) THEN LocalClose(c) ELSE UNCHANGED <<chan, cause, sent>>
    BY <1>3 DEF close_nonblocking
  <2>3. CloseTypes'
    BY <1>0, <2>1, <2>2, LocalCloseSound DEF CloseTypes
  <2>4. CASE Flushed(n)
    <3>1. n = 0
      BY <2>4 DEF Flushed, ShutdownFlags
    <3>2. ActiveIsOpen' /\ DataBeforeClose'
      BY <1>0, <2>2, <2>4, <3>1, LocalCloseSound DEF ActiveIsOpen, DataBeforeClose
    <3>3. CauseIsAsked'
      <4>1. CASE chan = "active"
        BY <1>0, <2>1, <2>2, <2>4, <4>1, LocalCloseSound, NoneAssumption
           DEF CauseIsAsked
      <4>2. CASE chan # "active"
        BY <1>0, <2>1, <2>2, <2>4, <4>2, LocalCloseSound
           DEF CauseIsAsked, AskedOnce
      <4> QED
        BY <4>1, <4>2
    <3> QED
      BY <2>1, <2>3, <3>2, <3>3 DEF CloseInv, AskedOnce
  <2>5. CASE ~Flushed(n)
    BY <1>0, <2>1, <2>2, <2>3, <2>5 DEF CloseInv, CloseTypes, ActiveIsOpen,
       AskedOnce, CauseIsAsked, DataBeforeClose
  <2> QED
    BY <2>4, <2>5
<1>4. ASSUME NEW c \in Codes, close_blocking(c) PROVE CloseInv'
  <2>1. /\ pc = "idle" /\ pc' = "flush" /\ ~closed /\ args' = c /\ asked' = c
        /\ asked = None /\ UNCHANGED <<closed, unacked, chan, cause, sent>>
    BY <1>0, <1>4 DEF close_blocking, Closable, Asked, AskedOnce
  <2> QED
    BY <1>0, <2>1 DEF CloseInv, CloseTypes, ActiveIsOpen, AskedOnce, CauseIsAsked,
       DataBeforeClose
<1>5. CASE close_sends
  <2>1. /\ pc = "flush" /\ pc' = "wait" /\ LocalClose(args) /\ unacked = 0
        /\ UNCHANGED <<closed, args, asked, unacked>>
    BY <1>5 DEF close_sends, MaySend, Flushed, ShutdownFlags
  <2>2. ~closed /\ args = asked /\ args \in Codes
    BY <1>0, <2>1 DEF AskedOnce
  <2>3. CauseIsAsked'
    BY <1>0, <2>1, <2>2, LocalCloseSound, NoneAssumption DEF CauseIsAsked
  <2> QED
    BY <1>0, <2>1, <2>2, <2>3, LocalCloseSound DEF CloseInv, CloseTypes,
       ActiveIsOpen, AskedOnce, DataBeforeClose
<1>6. CASE close_returns
  BY <1>6 DEF close_returns, MayReturn, CloseInv, CloseTypes, ActiveIsOpen, AskedOnce,
     CauseIsAsked, DataBeforeClose, engine
<1>7. CASE UNCHANGED vars
  BY <1>7 DEF vars, CloseInv, CloseTypes, ActiveIsOpen, AskedOnce, CauseIsAsked,
     DataBeforeClose
<1> QED
  BY <1>1, <1>2, <1>3, <1>4, <1>5, <1>6, <1>7 DEF Next

LEMMA CloseInvariant == Spec => []CloseInv
  BY CloseInvInit, CloseInvStep, PTL DEF Spec

(* CONNECTION_CLOSE never overtakes data that was written before close(). *)
THEOREM NoDataCutOff == Spec => []DataBeforeClose
<1>1. CloseInv => DataBeforeClose
  BY DEF CloseInv
<1> QED
  BY <1>1, CloseInvariant, PTL

(* The code of the first close() is the one a connection closed from this   *)
(* side reports, whatever later calls ask for.                              *)
THEOREM FirstCodeCounts == Spec => []FirstCodeSent
<1>1. CloseInv => FirstCodeSent
  BY DEF CloseInv, ActiveIsOpen, CauseIsAsked, FirstCodeSent, getCloseInfo
<1> QED
  BY <1>1, CloseInvariant, PTL

(* The first cause of the end stays the one that getCloseInfo() reports. *)
THEOREM FirstCauseStays == Spec => InfoIsFrozen
<1>1. CloseInv /\ [Next]_vars =>
         [getCloseInfo # None => getCloseInfo' = getCloseInfo]_vars
  <2> SUFFICES ASSUME CloseInv, [Next]_vars, cause # None PROVE cause' = cause
    BY DEF getCloseInfo
  <2>1. chan # "active"
    BY DEF CloseInv, ActiveIsOpen
  <2> QED
    BY <2>1 DEF Next, vars, write, setBlocking, handleEvents, close_nonblocking,
       close_blocking, close_tick, close_sends, close_returns, Tick, Ack,
       PeerCloses, IdleTimeout, TerminationTimer, LocalClose, object, engine
<1> QED
  BY <1>1, CloseInvariant, PTL DEF Spec, InfoIsFrozen

-----------------------------------------------------------------------------
(* What a blocking close() can still have to do: an acknowledgement per     *)
(* piece of data, its own two phases, and the two the connection goes       *)
(* through to its end.                                                      *)
PhasesLeft == IF pc = "flush" THEN 2 ELSE IF pc = "wait" THEN 1 ELSE 0

EndingLeft == IF chan = "active" THEN 2 ELSE IF chan = "terminated" THEN 0 ELSE 1

WorkLeft == unacked + PhasesLeft + EndingLeft

(* A blocking close() has no way back: whatever happens while it runs, an   *)
(* answer of the peer or a timer, is a step towards its return.             *)
CloseWorksOff == [][pc # "idle" => WorkLeft \in Nat /\ WorkLeft' < WorkLeft]_vars

(* All that a blocking close() ever waits for: before CONNECTION_CLOSE the  *)
(* acknowledgement of written data, on a connection that is still there;    *)
(* after it the termination timer of a connection that is ending.           *)
WaitsForAcks == pc = "flush" /\ chan = "active" /\ unacked > 0

WaitsForTimer == pc = "wait" /\ chan \in {"closing", "draining"}

CloseWaits == pc # "idle" => MaySend \/ MayReturn \/ WaitsForAcks \/ WaitsForTimer

(* A step of the engine or of SSL_shutdown_ex inside close() brings the     *)
(* call closer to its end.                                                  *)
LEMMA CloseStepWorks ==
    ASSUME CloseInv, Next, pc # "idle"
    PROVE  WorkLeft \in Nat /\ WorkLeft' < WorkLeft
<1>0. CloseTypes
  BY DEF CloseInv
<1>1. WorkLeft \in Nat
  BY <1>0 DEF WorkLeft, PhasesLeft, EndingLeft, CloseTypes
<1>2. CASE close_tick
  <2>1. pc' = pc /\ PhasesLeft' = PhasesLeft
    BY <1>2 DEF close_tick, object, PhasesLeft
  <2>2. \/ unacked' = unacked - 1 /\ chan' = chan
        \/ unacked' = unacked /\ EndingLeft' < EndingLeft
    BY <1>0, <1>2 DEF close_tick, Tick, Ack, PeerCloses, IdleTimeout, TerminationTimer,
       EndingLeft
  <2> QED
    BY <1>0, <2>1, <2>2 DEF WorkLeft, PhasesLeft, EndingLeft, CloseTypes
<1>3. CASE close_sends
  BY <1>0, <1>3 DEF close_sends, MaySend, LocalClose, WorkLeft, PhasesLeft, EndingLeft, CloseTypes
<1>4. CASE close_returns
  BY <1>0, <1>4 DEF close_returns, MayReturn, engine, WorkLeft, PhasesLeft, EndingLeft,
     CloseTypes
<1> QED
  BY <1>1, <1>2, <1>3, <1>4 DEF Next, write, setBlocking, handleEvents,
     close_nonblocking, close_blocking

(* Every step while a blocking close() runs uses up some of what is left of *)
(* it; and when it can neither send nor return it waits for ACKs of data on *)
(* an active connection, or for the termination timer, and so never for a   *)
(* CONNECTION_CLOSE of the peer.  That the ACKs or the idle timeout come is *)
(* the fairness of CloseReturns.                                            *)
THEOREM CloseHasBoundedWork == Spec => CloseWorksOff /\ []CloseWaits
<1>1. CloseInv /\ [Next]_vars =>
         [pc # "idle" => WorkLeft \in Nat /\ WorkLeft' < WorkLeft]_vars
  BY CloseStepWorks
<1>2. CloseInv => CloseWaits
  BY DEF CloseInv, CloseTypes, ActiveIsOpen, CloseWaits, MaySend, MayReturn, Flushed,
     ShutdownFlags, WaitsForAcks, WaitsForTimer
<1> QED
  BY <1>1, <1>2, CloseInvariant, PTL DEF Spec, CloseWorksOff
=============================================================================
