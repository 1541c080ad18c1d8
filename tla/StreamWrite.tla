------------------------------ MODULE StreamWrite ------------------------------
(***************************************************************************)
(* The sending half of one QUIC stream: Quic\Stream::write(), end() and    *)
(* reset(), fwrite() on the resource of asStream(), and what getResetCode()*)
(* makes of both halves when the stream is over.                           *)
(*                                                                         *)
(* OpenSSL is in its default all-or-nothing mode.  A non-blocking          *)
(* SSL_write_ex2 that finds too little room takes the part that fits,      *)
(* reports 0 bytes and WANT_WRITE, and remembers buffer, length and        *)
(* position; until that write is completed, only a retry with the same     *)
(* buffer and length is accepted.  A blocking one waits for room.          *)
(***************************************************************************)
EXTENDS Naturals

CONSTANTS
    Buffers,    \* the strings userland passes, by address
    Lengths,    \* their lengths
    SendBuffer, \* bytes the engine holds for the stream until acknowledged
    MaxBytes,   \* bound: bytes written to the stream
    Codes,      \* application error codes
    None

ASSUME LengthsAssumption == Lengths \subseteq Nat \ {0}
ASSUME SizesAssumption == SendBuffer \in Nat \ {0} /\ MaxBytes \in Nat

(* A write that waits: the string, its length, and how much of it is taken. *)
PendingWrites == [buf : Buffers, len : Nat, pos : Nat]
BlockedCalls == [len : Nat, pos : Nat, fin : BOOLEAN]

ASSUME NoneAssumption == None \notin Codes \cup PendingWrites \cup BlockedCalls

VARIABLES
    dir,        \* "both", "send" or "recv": the halves this side has
    blocking,   \* SSL_get_blocking_mode
    closed,     \* the connection is closing or has terminated
    accepted,   \* bytes the engine has taken from write()
    acked,      \* of these, acknowledged by the peer
    send,       \* "open", "fin", "done" (FIN, all acknowledged) or "reset"
    sendCode,   \* the code of our RESET_STREAM
    stopCode,   \* the code of the peer's STOP_SENDING
    recv,       \* "open", "fin", "fin_read" or "reset"
    recvCode,   \* the code of the peer's RESET_STREAM
    pend,       \* the all-or-nothing write in progress, or None
    call,       \* the blocking write that waits for room, or None
    reported,   \* bytes write() and fwrite() have said they wrote
    finBy,      \* "none", "write" (write($data, true)) or "end"
    told        \* what the null that read() returned stood for

state == <<dir, blocking, closed>>
data == <<accepted, reported, pend, call>>
codes == <<sendCode, stopCode, recvCode>>
vars == <<dir, blocking, closed, accepted, acked, send, sendCode, stopCode, recv,
          recvCode, pend, call, reported, finBy, told>>

-----------------------------------------------------------------------------
(* OpenSSL *)

Room == SendBuffer - (accepted - acked)

(* What SSL_write_ex2 and SSL_stream_conclude ask first. *)
Writable == dir # "recv" /\ ~closed /\ send = "open"

Smaller(a, b) == IF a < b THEN a ELSE b

(* Where the write of n bytes starts, and how much of it fits now. *)
Start == IF pend = None THEN 0 ELSE pend.pos
Fits(n) == Smaller(Room, n - Start)

BadRetry(b, n) == pend # None /\ (pend.buf # b \/ pend.len # n)

(* Everything fits: the write is whole, and concluded if it was so flagged. *)
WriteWhole(b, n, fin) ==
    /\ Writable /\ ~BadRetry(b, n) /\ Start + Fits(n) = n
    /\ accepted' = accepted + Fits(n)
    /\ pend' = None
    /\ send' = IF fin THEN "fin" ELSE send

WritePart(b, n) ==
    /\ Writable /\ ~BadRetry(b, n) /\ Start + Fits(n) < n
    /\ accepted' = accepted + Fits(n)

WriteRefused(b, n) ==
    /\ ~Writable \/ BadRetry(b, n)
    /\ UNCHANGED <<accepted, pend, send>>

(* SSL_stream_conclude; a write in progress is not looked at. *)
Conclude == Writable /\ send' = "fin"

-----------------------------------------------------------------------------
Init ==
    /\ dir \in {"both", "send", "recv"} /\ blocking \in BOOLEAN /\ closed = FALSE
    /\ accepted = 0 /\ acked = 0 /\ reported = 0
    /\ send = "open" /\ recv = "open"
    /\ sendCode = None /\ stopCode = None /\ recvCode = None
    /\ pend = None /\ call = None /\ finBy = "none" /\ told = "no"

(* The peer and the network *)

Ack ==
    /\ ~closed /\ send \in {"open", "fin"}
    /\ \/ \E n \in acked + 1 .. accepted : acked' = n /\ UNCHANGED send
       \/ send = "fin" /\ acked = accepted /\ send' = "done" /\ UNCHANGED acked
    /\ UNCHANGED <<state, data, codes, recv, finBy, told>>

(* The engine answers with a RESET_STREAM of the same code. *)
StopSending ==
    /\ dir # "recv" /\ ~closed /\ stopCode = None
    /\ \E c \in Codes :
          /\ stopCode' = c
          /\ sendCode' = IF send \in {"open", "fin"} THEN c ELSE sendCode
    /\ send' = IF send = "done" THEN send ELSE "reset"
    /\ UNCHANGED <<state, data, acked, recv, recvCode, finBy, told>>

PeerFin ==
    /\ dir # "send" /\ ~closed /\ recv = "open"
    /\ recv' = "fin"
    /\ UNCHANGED <<state, data, codes, acked, send, finBy, told>>

PeerReset ==
    /\ dir # "send" /\ ~closed /\ recv \in {"open", "fin"}
    /\ recv' = "reset"
    /\ \E c \in Codes : recvCode' = c
    /\ UNCHANGED <<state, data, acked, send, sendCode, stopCode, finBy, told>>

(* close(), CONNECTION_CLOSE from the peer, or the idle timeout. *)
ConnCloses ==
    /\ ~closed /\ closed' = TRUE
    /\ UNCHANGED <<dir, blocking, data, codes, acked, send, recv, finBy, told>>

-----------------------------------------------------------------------------
(* Quic\Stream::write() and fwrite() *)

(* Mutant: a copy of the data is passed, so that no retry is recognised. *)
DataCopied(b) == CHOOSE c \in Buffers : c # b \/ Buffers = {b}

(* The caller's own string is handed to SSL_write_ex2. *)
Data(b) == b

(* Mutant: WANT reports the bytes it was asked to write. *)
WantReportsAll(n) == n

(* SSL_write_ex2 sets written to 0 unless the whole write is done. *)
WantReports(n) == 0

(* Mutant: the FIN is sent by a conclude that does not wait for the data. *)
ConcludeAnyway(fin) ==
    /\ send' = IF fin THEN "fin" ELSE send
    /\ finBy' = IF fin THEN "write" ELSE finBy

(* SSL_WRITE_FLAG_CONCLUDE takes effect only with the last byte. *)
NotConcluded(fin) == UNCHANGED <<send, finBy>>

(* One SSL_write_ex2 in non-blocking mode; write() throws where fwrite()    *)
(* returns -1, and neither reports a byte.                                  *)
SSL_write_ex2(b, n, fin) ==
    \/ /\ WriteWhole(Data(b), n, fin)
       /\ reported' = reported + n
       /\ finBy' = IF fin THEN "write" ELSE finBy
    \/ /\ WritePart(Data(b), n)
       /\ pend' = IF Start + Fits(n) = 0 THEN None
                  ELSE [buf |-> Data(b), len |-> n, pos |-> Start + Fits(n)]
       /\ reported' = reported + WantReports(n)
       /\ NotConcluded(fin)
    \/ /\ WriteRefused(Data(b), n)
       /\ UNCHANGED <<reported, finBy>>

(* $data is not empty. *)
write(b, n, fin) ==
    /\ call = None /\ ~blocking
    /\ accepted + (n - Start) <= MaxBytes
    /\ SSL_write_ex2(b, n, fin)
    /\ UNCHANGED <<state, codes, acked, recv, call, told>>

(* A refused conclude is thrown and changes nothing. *)
end ==
    /\ call = None
    /\ Conclude
    /\ finBy' = "end"
    /\ UNCHANGED <<state, data, codes, acked, recv, told>>

(* A pure FIN with no payload: write("", true).  write("") does nothing. *)
write_empty == end

quic_stream_op_write(b, n) == write(b, n, FALSE)

(* In blocking mode the call sits in the engine until all bytes are taken. *)
write_blocking(b, n, fin) ==
    /\ call = None /\ blocking
    /\ accepted + n <= MaxBytes
    /\ Writable
    /\ call' = [len |-> n, pos |-> 0, fin |-> fin]
    /\ UNCHANGED <<state, codes, accepted, acked, send, recv, pend, reported, finBy, told>>

write_waiting ==
    /\ call # None /\ Writable /\ Room > 0 /\ call.pos + Room < call.len
    /\ accepted' = accepted + Room
    /\ call' = [call EXCEPT !.pos = @ + Room]
    /\ UNCHANGED <<state, codes, acked, send, recv, pend, reported, finBy, told>>

write_returns ==
    /\ call # None /\ call' = None
    /\ \/ /\ Writable /\ call.pos + Room >= call.len
          /\ accepted' = accepted + (call.len - call.pos)
          /\ reported' = reported + call.len
          /\ send' = IF call.fin THEN "fin" ELSE send
          /\ finBy' = IF call.fin THEN "write" ELSE finBy
       \/ /\ ~Writable
          /\ UNCHANGED <<accepted, reported, send, finBy>>
    /\ UNCHANGED <<state, codes, acked, recv, pend, told>>

-----------------------------------------------------------------------------
(* The other operations of the Stream *)

(* SSL_STREAM_RESET_ARGS: cleared, then given the application's code. *)
ResetArgs(c) == c

(* SSL_stream_reset may also take a concluded stream; a stream that is reset *)
(* already stays as it is.  Refusals are thrown and change nothing.          *)
reset(c) ==
    /\ call = None
    /\ dir # "recv" /\ ~closed /\ send \in {"open", "fin"}
    /\ send' = "reset"
    /\ sendCode' = ResetArgs(c)
    /\ UNCHANGED <<state, data, acked, recv, stopCode, recvCode, finBy, told>>

(* read() returns null: a FIN, a reset or a closed connection. *)
read_null ==
    /\ call = None
    /\ dir # "send" /\ told = "no"
    /\ \/ closed /\ told' = "closed" /\ UNCHANGED recv
       \/ ~closed /\ recv = "fin" /\ told' = "fin" /\ recv' = "fin_read"
       \/ ~closed /\ recv = "reset" /\ told' = "reset" /\ UNCHANGED recv
    /\ UNCHANGED <<state, data, codes, acked, send, finBy>>

(* OpenSSL: SSL_get_stream_{read,write}_error_code; a closed connection and *)
(* a FIN that was read hide a reset.                                        *)
ReadErrorCode ==
    IF dir = "send" \/ closed \/ recv # "reset" THEN None ELSE recvCode

WriteErrorCode ==
    IF dir = "recv" \/ closed THEN None
    ELSE IF send = "reset" THEN sendCode ELSE stopCode

(* Mutant: the write half is asked first. *)
WriteSideFirst == IF WriteErrorCode # None THEN WriteErrorCode ELSE ReadErrorCode

getResetCode == IF ReadErrorCode # None THEN ReadErrorCode ELSE WriteErrorCode

-----------------------------------------------------------------------------
Engine == Ack \/ StopSending \/ PeerFin \/ PeerReset \/ ConnCloses

(* The caller repeats a write that returned 0, with the same string. *)
Retry == pend # None /\ write(pend.buf, pend.len, FALSE)

Next ==
    \/ Engine
    \/ \E b \in Buffers, n \in Lengths :
          \/ \E fin \in BOOLEAN : write(b, n, fin) \/ write_blocking(b, n, fin)
          \/ quic_stream_op_write(b, n)
    \/ write_empty
    \/ write_waiting
    \/ write_returns
    \/ end
    \/ \E c \in Codes : reset(c)
    \/ read_null

Spec == Init /\ [][Next]_vars

(* A call runs on, a caller that was told 0 tries again, and a peer whose   *)
(* connection is open acknowledges (a silent one ends it: ConnCloses).      *)
FairSpec ==
    /\ Spec
    /\ WF_vars(write_waiting \/ write_returns)
    /\ WF_vars(Retry)
    /\ WF_vars(Ack)

-----------------------------------------------------------------------------
(* Properties *)

InFlight == IF pend # None THEN pend.pos ELSE IF call # None THEN call.pos ELSE 0

(* While the stream can be written, the bytes the engine has are the ones   *)
(* reported as written plus the begun part of the write that is not done:   *)
(* the retries of a write that returned 0 neither repeat nor drop a byte,   *)
(* whatever writes of other data were refused in between.                   *)
Accounted == Writable => accepted = reported + InFlight

(* A FIN that write($data, true) asked for is sent with the whole of $data, *)
(* even when it took several calls to get it in.                            *)
FinIsWhole == finBy = "write" => accepted = reported

(* A write that a full buffer cut short is completed by repeating it, and a *)
(* blocking write comes back, unless the stream or the connection ends.     *)
WriteCompletes ==
    /\ pend # None ~> pend = None \/ ~Writable
    /\ call # None ~> call = None

(* What read() meant by null, as far as getResetCode() can tell: while the  *)
(* connection is open a reset has the peer's code, whatever became of our   *)
(* own half before or since, and a clean FIN has a code only when our half  *)
(* was reset or stopped.                                                    *)
NullExplained ==
    ~closed =>
        /\ told = "reset" => getResetCode = recvCode
        /\ told = "fin" /\ getResetCode # None => send = "reset" \/ stopCode # None
=============================================================================
