------------------------------- MODULE ConnClose -------------------------------
(***************************************************************************)
(* The end of one connection: Quic\Connection::close(), getCloseInfo(),    *)
(* setBlocking() and handleEvents().                                       *)
(*                                                                         *)
(* SSL_shutdown_ex works in phases: it waits until the data written to the *)
(* streams is acknowledged, then sends CONNECTION_CLOSE, then waits until  *)
(* the connection has terminated.  In non-blocking mode it does what it    *)
(* can and returns; the next phase takes another call.  The QUIC engine    *)
(* has no thread of its own: it runs inside the extension's calls.         *)
(***************************************************************************)
EXTENDS Naturals

CONSTANTS
    Codes,      \* application error codes
    MaxData,    \* bound: pieces of stream data waiting for their ACK
    None

ASSUME MaxDataAssumption == MaxData \in Nat

(* What getCloseInfo() reports of the end of a connection. *)
Causes == [code : Codes \cup {None}, local : BOOLEAN, transport : BOOLEAN]

ASSUME NoneAssumption == None \notin Codes \cup Causes

VARIABLES
    closed,     \* obj->closed
    blocking,   \* SSL_get_blocking_mode
    unacked,    \* stream data the peer has not acknowledged
    shutting,   \* OpenSSL: shutdown begun, no new stream or write
    chan,       \* "active", "closing", "draining" or "terminated"
    cause,      \* why the connection ends, or None
    sent,       \* our CONNECTION_CLOSE was sent
    pc,         \* "idle", or the phase of a blocking close()
    args,       \* the code that close() was called with
    asked       \* the code of the first close()

vars == <<closed, blocking, unacked, shutting, chan, cause, sent, pc, args, asked>>

engine == <<unacked, shutting, chan, cause, sent>>
object == <<closed, blocking, pc, args, asked>>

-----------------------------------------------------------------------------
(* OpenSSL: what one turn of the engine may find. *)

Ack ==
    /\ chan = "active" /\ unacked > 0
    /\ unacked' = unacked - 1
    /\ UNCHANGED <<shutting, chan, cause, sent>>

PeerCloses ==
    /\ chan = "active"
    /\ chan' = "draining"
    /\ \E c \in Codes : cause' = [code |-> c, local |-> FALSE, transport |-> FALSE]
    /\ UNCHANGED <<unacked, shutting, sent>>

(* Reported as a local transport error. *)
IdleTimeout ==
    /\ chan = "active"
    /\ chan' = "terminated"
    /\ cause' = [code |-> None, local |-> TRUE, transport |-> TRUE]
    /\ UNCHANGED <<unacked, shutting, sent>>

TerminationTimer ==
    /\ chan \in {"closing", "draining"}
    /\ chan' = "terminated"
    /\ UNCHANGED <<unacked, shutting, cause, sent>>

Tick == Ack \/ PeerCloses \/ IdleTimeout \/ TerminationTimer

(* ossl_quic_channel_local_close: nothing, once the connection is ending. *)
LocalClose(code) ==
    /\ chan' = IF chan = "active" THEN "closing" ELSE chan
    /\ cause' = IF chan = "active"
                THEN [code |-> code, local |-> TRUE, transport |-> FALSE] ELSE cause
    /\ sent' = (sent \/ chan = "active")

-----------------------------------------------------------------------------
(* Mutants: other flags for SSL_shutdown_ex. *)
FlagNoFlush == {"NO_STREAM_FLUSH"}
FlagWaitPeer == {"WAIT_PEER"}

(* close() passes no flag. *)
ShutdownFlags == {}

Flushed(n) == n = 0 \/ "NO_STREAM_FLUSH" \in ShutdownFlags

Init ==
    /\ closed = FALSE /\ blocking \in BOOLEAN
    /\ unacked = 0 /\ shutting = FALSE /\ chan = "active" /\ cause = None
    /\ sent = FALSE
    /\ pc = "idle" /\ args = None /\ asked = None

(* Stream::write(), for what it leaves to be acknowledged. *)
write ==
    /\ pc = "idle"
    /\ chan = "active" /\ ~shutting /\ unacked < MaxData
    /\ unacked' = unacked + 1
    /\ UNCHANGED <<object, shutting, chan, cause, sent>>

setBlocking ==
    /\ pc = "idle"
    /\ blocking' = ~blocking
    /\ UNCHANGED <<engine, closed, pc, args, asked>>

handleEvents ==
    /\ pc = "idle"
    /\ Tick
    /\ UNCHANGED object

(* Mutant: close() may be called again. *)
AlwaysClosable == TRUE

Closable == ~closed

Asked(code) == asked' = IF asked = None THEN code ELSE asked

(* SSL_shutdown_ex is called once, for as many phases as it can do now;     *)
(* what it returns is not looked at.                                        *)
close_nonblocking(code) ==
    /\ pc = "idle" /\ ~blocking
    /\ Closable
    /\ \E n \in 0 .. unacked :
          /\ unacked' = IF chan = "active" THEN n ELSE unacked
          /\ IF Flushed(n) THEN LocalClose(code) ELSE UNCHANGED <<chan, cause, sent>>
    /\ shutting' = TRUE
    /\ closed' = TRUE
    /\ Asked(code)
    /\ UNCHANGED <<blocking, pc, args>>

close_blocking(code) ==
    /\ pc = "idle" /\ blocking
    /\ Closable
    /\ pc' = "flush"
    /\ args' = code
    /\ shutting' = TRUE
    /\ Asked(code)
    /\ UNCHANGED <<closed, blocking, unacked, chan, cause, sent>>

(* The engine runs inside the call. *)
close_tick ==
    /\ pc # "idle"
    /\ Tick
    /\ UNCHANGED object

MaySend ==
    /\ pc = "flush"
    /\ Flushed(unacked) /\ ("WAIT_PEER" \in ShutdownFlags => chan # "active")

close_sends ==
    /\ MaySend
    /\ LocalClose(args)
    /\ pc' = "wait"
    /\ UNCHANGED <<closed, blocking, args, asked, unacked, shutting>>

(* The connection has terminated, or it ended before its data was flushed.  *)
MayReturn ==
    \/ pc = "wait" /\ chan = "terminated"
    \/ pc = "flush" /\ chan # "active" /\ ~Flushed(unacked)

(* Back from SSL_shutdown_ex. *)
close_returns ==
    /\ MayReturn
    /\ pc' = "idle"
    /\ args' = None
    /\ closed' = TRUE
    /\ UNCHANGED <<blocking, asked, engine>>

(* Mutant: after close() the answer is made from its arguments. *)
InfoFromClose ==
    IF closed THEN [code |-> asked, local |-> TRUE, transport |-> FALSE] ELSE cause

(* The array's error_code, local and transport, or null while it is open. *)
getCloseInfo == cause

-----------------------------------------------------------------------------
Next ==
    \/ write
    \/ setBlocking
    \/ handleEvents
    \/ \E c \in Codes : close_nonblocking(c) \/ close_blocking(c)
    \/ close_tick
    \/ close_sends
    \/ close_returns

Spec == Init /\ [][Next]_vars

(* Data in flight is acknowledged, or the connection times out: a peer that *)
(* has gone away leaves the idle timer running.  With nothing in flight a   *)
(* peer may keep the connection open for ever.                              *)
AckOrTimeout == unacked > 0 /\ (Ack \/ IdleTimeout)

(* The caller pumps events, and the termination timer runs out.  Nothing is *)
(* assumed of the peer's close.                                             *)
FairSpec ==
    /\ Spec
    /\ WF_vars(handleEvents /\ AckOrTimeout)
    /\ WF_vars(handleEvents /\ TerminationTimer)
    /\ WF_vars(close_tick /\ AckOrTimeout) /\ WF_vars(close_tick /\ TerminationTimer)
    /\ WF_vars(close_sends) /\ WF_vars(close_returns)

-----------------------------------------------------------------------------
(* Properties *)

(* CONNECTION_CLOSE leaves only after everything written before close() has *)
(* been acknowledged: close() does not cut off the last writes.             *)
DataBeforeClose == sent => unacked = 0

(* A connection closed from this side with an application code carries the  *)
(* code of the first close(), whatever later calls of close() ask for; and  *)
(* getCloseInfo() has an answer exactly when the connection is ending.      *)
FirstCodeSent ==
    /\ (getCloseInfo = None) = (chan = "active")
    /\ getCloseInfo # None =>
          (getCloseInfo.local /\ ~getCloseInfo.transport => getCloseInfo.code = asked)

(* getCloseInfo() names the first cause, and no later event rewrites it:    *)
(* neither a close() after the peer's, nor the peer's after ours.           *)
InfoIsFrozen ==
    [][getCloseInfo # None => getCloseInfo' = getCloseInfo]_vars

(* A blocking close() comes back although the peer never closes, and even   *)
(* if it has fallen silent with data unacknowledged.                        *)
CloseReturns == pc # "idle" ~> pc = "idle"

-----------------------------------------------------------------------------
(* A statement of the repository that the code does not keep. *)

(* quic.stub.php:233: close() closes the connection, "sending               *)
(* CONNECTION_CLOSE with the given application error code".                 *)
CloseIsSent == closed ~> chan # "active"
=============================================================================
