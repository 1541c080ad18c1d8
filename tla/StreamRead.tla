------------------------------ MODULE StreamRead ------------------------------
(***************************************************************************)
(* The receiving half of one QUIC stream: Quic\Stream::read() with its     *)
(* growing buffer, and the read operation of the php_stream that asStream()*)
(* makes.  SSL_read_ex runs the QUIC engine, so what the peer does (data,  *)
(* FIN, RESET_STREAM, CONNECTION_CLOSE, or the idle timeout) takes effect  *)
(* between any two of the calls that one read() makes.                     *)
(***************************************************************************)
EXTENDS Naturals

CONSTANTS
    Chunk,      \* first buffer size (65536)
    Lengths,    \* the $length arguments and php_stream counts that are tried
    MaxBytes    \* bound: bytes the peer sends

ASSUME ChunkAssumption == Chunk \in Nat \ {0}
ASSUME LengthsAssumption == Lengths \subseteq Nat \ {0}
ASSUME MaxBytesAssumption == MaxBytes \in Nat

VARIABLES
    sendOnly,   \* a unidirectional stream opened on this side
    arrived,    \* bytes of the stream the engine has received, in order
    recv,       \* "recv", "fin" (FIN received), "fin_read", or "reset"
    closed,     \* the connection has terminated
    kept,       \* whether a terminated connection still yields buffered data
    pulled,     \* bytes SSL_read_ex has taken out of the engine
    blocking,   \* SSL_get_blocking_mode
    pc,         \* "idle", or "loop" inside read()
    want, cap, total,   \* locals of read()
    delivered,  \* bytes returned to userland
    ret,        \* kind of the last return value
    over        \* how the end has been reported to userland, if it has

engine == <<sendOnly, arrived, recv, closed, kept>>
locals == <<want, cap, total>>
vars == <<sendOnly, arrived, recv, closed, kept, pulled, blocking, pc, want, cap,
          total, delivered, ret, over>>

-----------------------------------------------------------------------------
(* OpenSSL: what SSL_read_ex finds. *)

Buffered == arrived - pulled

ReadFails ==
    \/ sendOnly
    \/ recv = "reset"
    \/ closed /\ (~kept \/ (Buffered = 0 /\ recv = "recv"))

ReadYields == ~ReadFails /\ Buffered > 0

ReadAtEnd == ~ReadFails /\ Buffered = 0 /\ recv \in {"fin", "fin_read"}

ReadWouldWait == ~ReadFails /\ Buffered = 0 /\ recv = "recv"

Smaller(a, b) == IF a < b THEN a ELSE b

(* ZERO_RETURN marks the FIN as read. *)
FinRead == recv' = IF ReadAtEnd THEN "fin_read" ELSE recv

-----------------------------------------------------------------------------
Init ==
    /\ sendOnly \in BOOLEAN
    /\ arrived = 0 /\ recv = "recv" /\ closed = FALSE /\ kept = TRUE
    /\ pulled = 0 /\ blocking \in BOOLEAN
    /\ pc = "idle" /\ want = 0 /\ cap = 0 /\ total = 0
    /\ delivered = 0 /\ ret = "none" /\ over = "no"

(* The peer and the network, as the engine processes them. *)

Reader == <<pulled, blocking, pc, want, cap, total, delivered, ret, over>>

Arrive ==
    /\ ~sendOnly /\ ~closed /\ recv = "recv"
    /\ \E n \in arrived + 1 .. MaxBytes : arrived' = n
    /\ UNCHANGED <<sendOnly, recv, closed, kept, Reader>>

PeerFin ==
    /\ ~sendOnly /\ ~closed /\ recv = "recv"
    /\ recv' = "fin"
    /\ UNCHANGED <<sendOnly, arrived, closed, kept, Reader>>

(* RESET_STREAM discards what is buffered, unless the FIN was already read. *)
PeerReset ==
    /\ ~sendOnly /\ ~closed /\ recv \in {"recv", "fin"}
    /\ recv' = "reset"
    /\ UNCHANGED <<sendOnly, arrived, closed, kept, Reader>>

ConnTerminates ==
    /\ ~closed
    /\ closed' = TRUE
    /\ kept' \in BOOLEAN
    /\ UNCHANGED <<sendOnly, arrived, recv, Reader>>

-----------------------------------------------------------------------------
(* Connection::setBlocking(), between calls. *)
setBlocking ==
    /\ pc = "idle"
    /\ blocking' = ~blocking
    /\ UNCHANGED <<engine, pulled, pc, locals, delivered, ret, over>>

(* Quic\Stream::read($length), a positive length. *)
ReadCall(length) ==
    /\ pc = "idle"
    /\ pc' = "loop"
    /\ want' = length
    /\ cap' = Smaller(length, Chunk)
    /\ total' = 0
    /\ UNCHANGED <<engine, pulled, blocking, delivered, ret, over>>

(* Mutant: the buffer doubles past the requested length. *)
GrowPastWant == cap * 2

(* Mutant: the buffer stops growing after the first chunk. *)
GrowNever == cap

Grow == IF cap <= want \div 2 THEN cap * 2 ELSE want

(* Mutant: every call returns after the first chunk. *)
LoopOnce(t) == TRUE

(* The loop ends when the request is met, in blocking mode after the first  *)
(* read, and on a short read.                                               *)
LoopDone(t) == t >= want \/ blocking \/ t < cap

ReadMore ==
    LET t == total + Smaller(cap - total, Buffered)
    IN  /\ pc = "loop"
        /\ ReadYields
        /\ ~LoopDone(t)
        /\ pulled' = pulled + (t - total)
        /\ total' = t
        /\ cap' = Grow
        /\ UNCHANGED <<engine, blocking, pc, want, delivered, ret, over>>

(* zend_string_truncate to the bytes read. *)
Truncated(t) == t

Idle == pc' = "idle" /\ want' = 0 /\ cap' = 0 /\ total' = 0

ReadLast ==
    LET t == total + Smaller(cap - total, Buffered)
    IN  /\ pc = "loop"
        /\ ReadYields
        /\ LoopDone(t)
        /\ pulled' = pulled + (t - total)
        /\ delivered' = delivered + Truncated(t)
        /\ ret' = "data"
        /\ Idle
        /\ UNCHANGED <<engine, blocking, over>>

(* The end of the stream, reported to userland; the first report counts. *)
ReportOver == over' = IF over # "no" THEN over
                      ELSE IF ReadAtEnd THEN "clean" ELSE "cut"

(* Mutant: an error wins over the bytes read before it. *)
ErrorBeforeData == FALSE

(* Bytes read before the failing call are returned, not the failure. *)
DataBeforeError == total > 0

(* SSL_get_stream_read_state: WRONG_DIR is none of the states that end.     *)
EndsStream == ReadAtEnd \/ (ReadFails /\ ~sendOnly)

(* The call that fails: WANT (non-blocking only: a blocking SSL_read_ex     *)
(* waits in the engine), ZERO_RETURN, or an error.                          *)
ReadStop ==
    /\ pc = "loop"
    /\ ReadFails \/ ReadAtEnd \/ (ReadWouldWait /\ ~blocking)
    /\ FinRead
    /\ Idle
    /\ \/ /\ DataBeforeError
          /\ delivered' = delivered + Truncated(total) /\ ret' = "data" /\ UNCHANGED over
       \/ /\ ~DataBeforeError /\ ReadWouldWait
          /\ ret' = "empty" /\ UNCHANGED <<delivered, over>>
       \/ /\ ~DataBeforeError /\ EndsStream
          /\ ret' = "null" /\ ReportOver /\ UNCHANGED delivered
       \/ /\ ~DataBeforeError /\ ReadFails /\ ~EndsStream
          /\ ret' = "throw" /\ UNCHANGED <<delivered, over>>
    /\ UNCHANGED <<sendOnly, arrived, closed, kept, pulled, blocking>>

-----------------------------------------------------------------------------
(* fread() on the resource: one SSL_read_ex. *)

(* Mutant: WANT sets the php_stream's eof flag as the other failures do. *)
OpReadEofOnWant == ~ReadYields

(* stream->eof: at a FIN and on every error but WANT, WRONG_DIR of a        *)
(* send-only stream included.                                               *)
OpReadEof == ReadFails \/ ReadAtEnd

quic_stream_op_read(count) ==
    /\ pc = "idle"
    /\ ~ReadWouldWait \/ ~blocking
    /\ LET got == IF ReadYields THEN Smaller(count, Buffered) ELSE 0
       IN  pulled' = pulled + got /\ delivered' = delivered + got
    /\ FinRead
    /\ IF OpReadEof THEN ReportOver ELSE UNCHANGED over
    /\ ret' = IF ReadYields THEN "data" ELSE IF ReadFails THEN "failed" ELSE "zero"
    /\ UNCHANGED <<sendOnly, arrived, closed, kept, blocking, pc, locals>>

-----------------------------------------------------------------------------
Engine == Arrive \/ PeerFin \/ PeerReset \/ ConnTerminates

ReadStep == ReadMore \/ ReadLast \/ ReadStop

Next ==
    \/ Engine
    \/ setBlocking
    \/ \E n \in Lengths : ReadCall(n) \/ quic_stream_op_read(n)
    \/ ReadStep

Spec == Init /\ [][Next]_vars

(* read() runs on; of the peer and of the connection's end nothing is       *)
(* assumed, as a peer may keep the connection alive and this stream silent. *)
FairSpec == Spec /\ WF_vars(ReadStep)

-----------------------------------------------------------------------------
(* Properties *)

(* Counts are in range: no more is taken than arrived, and no more is       *)
(* returned than was taken.                                                 *)
TypeOK ==
    /\ sendOnly \in BOOLEAN /\ closed \in BOOLEAN /\ kept \in BOOLEAN
    /\ blocking \in BOOLEAN
    /\ recv \in {"recv", "fin", "fin_read", "reset"}
    /\ arrived \in Nat /\ pulled \in Nat /\ delivered \in Nat
    /\ delivered <= pulled /\ pulled <= arrived
    /\ pc \in {"idle", "loop"}
    /\ want \in Nat /\ cap \in Nat /\ total \in Nat
    /\ ret \in {"none", "data", "empty", "null", "throw", "zero", "failed"}
    /\ over \in {"no", "clean", "cut"}

(* Every SSL_read_ex of read() gets a non-empty room inside the buffer, and *)
(* the buffer never exceeds the requested length: the growth by doubling    *)
(* meets the limit exactly, for lengths that are no power-of-two multiple   *)
(* of the first chunk too.                                                  *)
LoopBounds ==
    pc = "loop" => total < cap /\ cap <= want

(* Bytes taken out of the engine reach userland: a FIN, reset or closed     *)
(* connection met by a later SSL_read_ex of the same read() does not        *)
(* swallow the bytes of the earlier ones.                                   *)
NoByteLost ==
    pulled = delivered + total /\ (pc = "idle" => total = 0)

(* In non-blocking mode read() hands out everything buffered, up to the     *)
(* requested length, across the reallocations of its buffer.                *)
Drains ==
    [][(ReadStep /\ ~blocking /\ ret' = "data" /\ pc' = "idle")
          => \/ delivered' - delivered = want
             \/ pulled' = arrived
             \/ ReadFails]_vars

(* read() comes back: in non-blocking mode whatever the peer does between   *)
(* the turns of the loop, in blocking mode once there is anything to return *)
(* (bytes, a FIN, a reset, a closed connection).  A blocking read() of a    *)
(* stream on which nothing happens may wait for ever.                       *)
ReadReturns ==
    (pc = "loop" /\ (~blocking \/ ~ReadWouldWait)) ~> pc = "idle"

(* The reader's contract. *)
Pipe ==
    INSTANCE BytePipe
        WITH arrived <- arrived, delivered <- delivered, over <- over

(* read() and fread() deliver the stream as BytePipe promises: once a null  *)
(* or an eof has been reported nothing follows, and a clean end is reported *)
(* only after the last byte.                                                *)
ImplementsPipe == Pipe!Spec
=============================================================================
