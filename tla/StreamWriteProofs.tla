--------------------------- MODULE StreamWriteProofs ---------------------------
(***************************************************************************)
(* Proofs about StreamWrite for any strings, lengths, send buffer and      *)
(* error codes.                                                            *)
(***************************************************************************)
EXTENDS StreamWrite, TLAPS

WriteTypes ==
    /\ accepted \in Nat /\ acked \in Nat /\ reported \in Nat
    /\ pend \in PendingWrites \cup {None}
    /\ call \in BlockedCalls \cup {None}

(* The engine never holds more than its buffer. *)
BufferHolds == acked <= accepted /\ accepted - acked <= SendBuffer

(* A write that waits has something left to write, one that was cut short   *)
(* something written too, and only the mode it belongs to leaves one.       *)
WaitingIsShort ==
    /\ pend # None => ~blocking /\ 0 < pend.pos /\ pend.pos < pend.len
    /\ call # None => blocking /\ call.pos < call.len

(* After a FIN of write() nothing more is taken. *)
FinIsLast == finBy = "write" => send # "open" /\ accepted = reported

WriteInv == WriteTypes /\ BufferHolds /\ WaitingIsShort /\ FinIsLast /\ Accounted

LEMMA WriteInvInit == Init => WriteInv
<1> SUFFICES ASSUME Init PROVE WriteInv
  OBVIOUS
<1>1. WriteTypes /\ WaitingIsShort /\ FinIsLast
  BY DEF Init, WriteTypes, WaitingIsShort, FinIsLast
<1>2. BufferHolds /\ Accounted
  BY SizesAssumption DEF Init, BufferHolds, Accounted, InFlight
<1> QED
  BY <1>1, <1>2 DEF WriteInv

(* An acknowledgement only makes room. *)
LEMMA AckMakesRoom ==
    ASSUME NEW a \in Nat, NEW k \in Nat, NEW m \in Nat, NEW size \in Nat,
           a - k <= size, k <= m
    PROVE  a - m <= size
  OBVIOUS

(* The part of n bytes that fits is at most what is left and what the       *)
(* buffer has room for.                                                     *)
LEMMA FitsBounds ==
    ASSUME WriteInv, NEW n \in Nat, 0 < n, pend # None => pend.len = n
    PROVE  /\ Room \in Nat /\ Start \in Nat /\ Start < n
           /\ Fits(n) \in Nat /\ Fits(n) <= Room /\ Start + Fits(n) <= n
<1>1. Start \in Nat /\ Start < n
  BY DEF Start, WriteInv, WriteTypes, WaitingIsShort, PendingWrites
<1>2. Room \in Nat
  BY SizesAssumption DEF Room, WriteInv, WriteTypes, BufferHolds
<1> QED
  BY <1>1, <1>2 DEF Fits, Smaller

(* One non-blocking write of n bytes, in each of its three outcomes. *)
LEMMA WriteKeepsInv ==
    ASSUME WriteInv, NEW b \in Buffers, NEW n \in Nat, 0 < n, NEW fin \in BOOLEAN,
           write(b, n, fin)
    PROVE  WriteInv'
<1>0. WriteTypes /\ BufferHolds /\ WaitingIsShort /\ FinIsLast /\ Accounted
  BY DEF WriteInv
<1>1. /\ call = None /\ ~blocking
      /\ UNCHANGED <<dir, blocking, closed, acked, call>>
      /\ SSL_write_ex2(b, n, fin)
  BY DEF write, state
<1>2. InFlight = Start
  BY <1>1 DEF InFlight, Start
<1>3. CASE WriteRefused(b, n) /\ UNCHANGED <<reported, finBy>>
  BY <1>1, <1>3 DEF WriteRefused, WriteInv, WriteTypes, BufferHolds,
     WaitingIsShort, FinIsLast, Accounted, InFlight, Writable
<1>4. CASE /\ WriteWhole(b, n, fin) /\ reported' = reported + n
           /\ finBy' = IF fin THEN "write" ELSE finBy
  <2>1. /\ Writable /\ Start + Fits(n) = n /\ (pend # None => pend.len = n)
        /\ accepted' = accepted + Fits(n) /\ pend' = None
        /\ send' = IF fin THEN "fin" ELSE send
    BY <1>4 DEF WriteWhole, BadRetry
  <2>2. /\ Room \in Nat /\ Start \in Nat /\ Fits(n) \in Nat /\ Fits(n) <= Room
    BY <2>1, FitsBounds
  <2>3. accepted' = reported' /\ accepted' \in Nat /\ reported' \in Nat
    BY <1>0, <1>2, <1>4, <2>1, <2>2 DEF Accounted, WriteTypes
  <2>4. BufferHolds'
    BY <1>0, <1>1, <2>1, <2>2, SizesAssumption DEF BufferHolds, Room, WriteTypes
  <2>5. FinIsLast'
    BY <1>0, <1>4, <2>1, <2>3 DEF FinIsLast, Writable
  <2> QED
    BY <1>0, <1>1, <2>1, <2>3, <2>4, <2>5 DEF WriteInv, WriteTypes,
       WaitingIsShort, Accounted, InFlight
<1>5. CASE /\ WritePart(b, n)
           /\ pend' = IF Start + Fits(n) = 0 THEN None
                      ELSE [buf |-> b, len |-> n, pos |-> Start + Fits(n)]
           /\ reported' = reported /\ UNCHANGED <<send, finBy>>
  <2>1. /\ Writable /\ Start + Fits(n) < n /\ (pend # None => pend.len = n)
        /\ accepted' = accepted + Fits(n)
    BY <1>5 DEF WritePart, BadRetry
  <2>2. /\ Room \in Nat /\ Start \in Nat /\ Fits(n) \in Nat /\ Fits(n) <= Room
    BY <2>1, FitsBounds
  <2>3. /\ accepted' \in Nat /\ accepted' = reported + (Start + Fits(n))
    BY <1>0, <1>2, <2>1, <2>2 DEF Accounted, WriteTypes
  <2>4. BufferHolds'
    BY <1>0, <1>1, <2>1, <2>2, SizesAssumption DEF BufferHolds, Room, WriteTypes
  <2>5. FinIsLast'
    BY <1>0, <1>5, <2>1 DEF FinIsLast, Writable
  <2> DEFINE m == Start + Fits(n)
  <2>6. m \in Nat /\ m < n
    BY <2>1, <2>2
  <2> HIDE DEF m
  <2>7. pend' = IF m = 0 THEN None ELSE [buf |-> b, len |-> n, pos |-> m]
    BY <1>5 DEF m
  <2>8. [buf |-> b, len |-> n, pos |-> m] \in PendingWrites
    BY <2>6 DEF PendingWrites
  <2>9. /\ pend' \in PendingWrites \cup {None}
        /\ pend' # None => pend'.pos = m /\ pend'.len = n
        /\ pend' = None => m = 0
    BY <2>7, <2>8, NoneAssumption
  <2>10. accepted' = reported + m
    BY <2>3 DEF m
  <2>11. Accounted'
    BY <1>0, <1>1, <1>5, <2>6, <2>9, <2>10 DEF Accounted, InFlight, WriteTypes
  <2> QED
    BY <1>0, <1>1, <1>5, <2>3, <2>4, <2>5, <2>6, <2>9, <2>11
       DEF WriteInv, WriteTypes, WaitingIsShort
<1> QED
  BY <1>1, <1>3, <1>4, <1>5 DEF SSL_write_ex2, Data, WantReports, NotConcluded,
     WriteInv, WriteTypes

(* The steps of a blocking write. *)
LEMMA BlockingKeepsInv ==
    ASSUME WriteInv,
           \/ \E b \in Buffers, n \in Lengths, fin \in BOOLEAN : write_blocking(b, n, fin)
           \/ write_waiting \/ write_returns
    PROVE  WriteInv'
<1>0. /\ WriteTypes /\ BufferHolds /\ WaitingIsShort /\ FinIsLast /\ Accounted
      /\ Room \in Nat
  BY SizesAssumption DEF WriteInv, WriteTypes, BufferHolds, Room
<1>a. ASSUME call # None
      PROVE  /\ pend = None /\ InFlight = call.pos /\ call.pos < call.len
             /\ call.pos \in Nat /\ call.len \in Nat /\ call.fin \in BOOLEAN
             /\ call = [len |-> call.len, pos |-> call.pos, fin |-> call.fin]
  BY <1>0, <1>a DEF WaitingIsShort, WriteTypes, BlockedCalls, InFlight
<1>1. ASSUME NEW b \in Buffers, NEW n \in Lengths, NEW fin \in BOOLEAN,
             write_blocking(b, n, fin)
      PROVE  WriteInv'
  <2>1. /\ call = None /\ blocking /\ call' = [len |-> n, pos |-> 0, fin |-> fin]
        /\ UNCHANGED <<dir, blocking, closed, accepted, acked, send, pend,
                       reported, finBy>>
    BY <1>1 DEF write_blocking, state
  <2>2. n \in Nat /\ 0 < n
    BY LengthsAssumption
  <2>3. call' \in BlockedCalls /\ call'.pos = 0 /\ call'.len = n
    BY <2>1, <2>2 DEF BlockedCalls
  <2> QED
    BY <1>0, <2>1, <2>2, <2>3, NoneAssumption DEF WriteInv, WriteTypes,
       BufferHolds, WaitingIsShort, FinIsLast, Accounted, InFlight, Writable
<1>2. CASE write_waiting
  <2>1. /\ call # None /\ Writable /\ call.pos + Room < call.len
        /\ accepted' = accepted + Room
        /\ call' = [call EXCEPT !.pos = call.pos + Room]
        /\ UNCHANGED <<dir, blocking, closed, acked, send, pend, reported, finBy>>
    BY <1>2 DEF write_waiting, state
  <2>2. /\ call' \in BlockedCalls /\ call'.pos = call.pos + Room
        /\ call'.len = call.len
    BY <1>0, <1>a, <2>1 DEF BlockedCalls
  <2>3. accepted' = reported + call'.pos /\ accepted' \in Nat
    BY <1>0, <1>a, <2>1, <2>2 DEF Accounted, WriteTypes
  <2>4. BufferHolds'
    BY <1>0, <2>1, SizesAssumption DEF BufferHolds, Room, WriteTypes
  <2>5. FinIsLast'
    BY <1>0, <2>1 DEF FinIsLast, Writable
  <2> QED
    BY <1>0, <1>a, <2>1, <2>2, <2>3, <2>4, <2>5, NoneAssumption
       DEF WriteInv, WriteTypes, WaitingIsShort, Accounted, InFlight
<1>3. CASE write_returns
  <2>1. /\ call # None /\ call' = None
        /\ UNCHANGED <<dir, blocking, closed, acked, pend>>
    BY <1>3 DEF write_returns, state
  <2>2. CASE ~Writable /\ UNCHANGED <<accepted, reported, send, finBy>>
    BY <1>0, <2>1, <2>2 DEF WriteInv, WriteTypes, BufferHolds, WaitingIsShort,
       FinIsLast, Accounted, Writable
  <2>3. CASE /\ Writable /\ call.pos + Room >= call.len
             /\ accepted' = accepted + (call.len - call.pos)
             /\ reported' = reported + call.len
             /\ send' = IF call.fin THEN "fin" ELSE send
             /\ finBy' = IF call.fin THEN "write" ELSE finBy
    <3>1. accepted' = reported' /\ accepted' \in Nat /\ reported' \in Nat
      BY <1>0, <1>a, <2>1, <2>3 DEF Accounted, WriteTypes
    <3>2. BufferHolds'
      BY <1>0, <1>a, <2>1, <2>3, SizesAssumption DEF BufferHolds, Room, WriteTypes
    <3>3. FinIsLast'
      BY <1>0, <2>3, <3>1 DEF FinIsLast, Writable
    <3> QED
      BY <1>0, <1>a, <2>1, <3>1, <3>2, <3>3 DEF WriteInv, WriteTypes,
         WaitingIsShort, Accounted, InFlight
  <2> QED
    BY <1>3, <2>2, <2>3 DEF write_returns
<1> QED
  BY <1>1, <1>2, <1>3

LEMMA WriteInvStep == WriteInv /\ [Next]_vars => WriteInv'
<1> SUFFICES ASSUME WriteInv, [Next]_vars PROVE WriteInv'
  OBVIOUS
<1>0. WriteTypes /\ BufferHolds /\ WaitingIsShort /\ FinIsLast /\ Accounted
  BY DEF WriteInv
<1>1. CASE Ack
  <2>1. /\ UNCHANGED <<dir, blocking, closed, accepted, reported, pend, call, finBy>>
        /\ (send' = "open" => send = "open")
    BY <1>1 DEF Ack, state, data
  <2>2. acked' \in Nat /\ acked <= acked' /\ acked' <= accepted
    BY <1>0, <1>1 DEF Ack, WriteTypes, BufferHolds
  <2>3. BufferHolds' /\ acked' \in Nat
    <3>1. /\ accepted \in Nat /\ acked \in Nat /\ SendBuffer \in Nat
          /\ accepted - acked <= SendBuffer /\ accepted' = accepted
      BY <1>0, <2>1, SizesAssumption DEF BufferHolds, WriteTypes
    <3>2. accepted' - acked' <= SendBuffer
      BY <2>2, <3>1, AckMakesRoom
    <3> QED
      BY <2>2, <3>1, <3>2 DEF BufferHolds
  <2> QED
    BY <1>0, <2>1, <2>3 DEF WriteInv, WriteTypes, WaitingIsShort, FinIsLast,
       Accounted, InFlight, Writable
<1>2. ASSUME UNCHANGED <<dir, blocking, data, acked>>, closed => closed',
             send' = "open" => send = "open", finBy' \in {finBy, "end"}
      PROVE  WriteInv'
  BY <1>0, <1>2 DEF data, WriteInv, WriteTypes, BufferHolds, WaitingIsShort,
     FinIsLast, Accounted, InFlight, Writable
<1>3. CASE StopSending \/ PeerFin \/ PeerReset \/ ConnCloses
  BY <1>2, <1>3 DEF StopSending, PeerFin, PeerReset, ConnCloses, state
<1>4. CASE end \/ write_empty \/ read_null \/ \E c \in Codes : reset(c)
  BY <1>2, <1>4 DEF end, write_empty, read_null, reset, Conclude, state
<1>5. ASSUME NEW b \in Buffers, NEW n \in Lengths, NEW fin \in BOOLEAN,
             write(b, n, fin) \/ quic_stream_op_write(b, n)
      PROVE  WriteInv'
  <2>1. n \in Nat /\ 0 < n
    BY LengthsAssumption
  <2> QED
    BY <1>5, <2>1, WriteKeepsInv DEF quic_stream_op_write
<1>6. CASE UNCHANGED vars
  BY <1>2, <1>6 DEF vars, data
<1> QED
  BY <1>1, <1>3, <1>4, <1>5, <1>6, BlockingKeepsInv DEF Next, Engine

LEMMA WriteInvariant == Spec => []WriteInv
  BY WriteInvInit, WriteInvStep, PTL DEF Spec

(* No byte is repeated or dropped by the retries of a write that was cut    *)
(* short, whatever other writes were refused in between.                    *)
THEOREM EveryByteAccounted == Spec => []Accounted
<1>1. WriteInv => Accounted
  BY DEF WriteInv
<1> QED
  BY <1>1, WriteInvariant, PTL

(* The FIN of write($data, true) follows the whole of $data. *)
THEOREM FinAfterAllData == Spec => []FinIsWhole
<1>1. WriteInv => FinIsWhole
  BY DEF WriteInv, FinIsLast, FinIsWhole
<1> QED
  BY <1>1, WriteInvariant, PTL

-----------------------------------------------------------------------------
(* What read() was told agrees with the receiving half for ever: a FIN that *)
(* was read cannot become a reset, nor a reset anything else.               *)
NullInv ==
    /\ told = "fin" => recv = "fin_read"
    /\ told = "reset" => recv = "reset" /\ dir # "send"
    /\ recv = "reset" => recvCode # None

LEMMA NullInvariant == Spec => []NullInv
<1>1. Init => NullInv
  BY DEF Init, NullInv
<1>2. NullInv /\ [Next]_vars => NullInv'
  <2> SUFFICES ASSUME NullInv, [Next]_vars PROVE NullInv'
    OBVIOUS
  <2>1. CASE UNCHANGED <<dir, recv, recvCode, told>>
    BY <2>1 DEF NullInv
  <2>2. CASE PeerFin \/ PeerReset \/ read_null
    BY <2>2, NoneAssumption DEF PeerFin, PeerReset, read_null, NullInv, state, codes
  <2>3. CASE Ack \/ StopSending \/ ConnCloses \/ end \/ write_empty
             \/ write_waiting \/ write_returns \/ \E c \in Codes : reset(c)
    BY <2>1, <2>3 DEF Ack, StopSending, ConnCloses, end, write_empty, write_waiting,
       write_returns, reset, state, codes
  <2>4. ASSUME NEW b \in Buffers, NEW n \in Lengths, NEW fin \in BOOLEAN,
               \/ write(b, n, fin) \/ write_blocking(b, n, fin)
               \/ quic_stream_op_write(b, n)
        PROVE  UNCHANGED <<dir, recv, recvCode, told>>
    BY <2>4 DEF write, write_blocking, quic_stream_op_write, state, codes
  <2>5. CASE UNCHANGED vars
    BY <2>1, <2>5 DEF vars
  <2> QED
    BY <2>1, <2>2, <2>3, <2>4, <2>5 DEF Next, Engine
<1> QED
  BY <1>1, <1>2, PTL DEF Spec

(* While the connection is open, getResetCode() after a null of read() has  *)
(* the peer's code for a reset, and a code after a clean FIN only when our  *)
(* own half was reset or stopped.                                           *)
THEOREM NullIsExplained == Spec => []NullExplained
<1>1. NullInv => NullExplained
  BY DEF NullInv, NullExplained, getResetCode, ReadErrorCode, WriteErrorCode
<1> QED
  BY <1>1, NullInvariant, PTL

-----------------------------------------------------------------------------
(* A write that was cut short is finished as a whole or goes on where it    *)
(* stopped: no step gives it up, starts it over or puts another write in    *)
(* its place, and nothing is reported before it is done.                    *)
PendingStep ==
    \/ /\ pend' = None
       /\ accepted' = accepted + (pend.len - pend.pos)
       /\ reported' = reported + pend.len
    \/ /\ pend' # None /\ pend'.buf = pend.buf /\ pend'.len = pend.len
       /\ pend.pos <= pend'.pos
       /\ accepted' = accepted + (pend'.pos - pend.pos)
       /\ reported' = reported

(* So does a blocking one, which the end of the stream may cut off. *)
CallStep ==
    \/ /\ call' = None /\ Writable
       /\ accepted' = accepted + (call.len - call.pos)
       /\ reported' = reported + call.len
    \/ call' = None /\ ~Writable /\ UNCHANGED <<accepted, reported>>
    \/ /\ call' # None /\ call'.len = call.len /\ call'.fin = call.fin
       /\ call.pos <= call'.pos
       /\ accepted' = accepted + (call'.pos - call.pos)
       /\ reported' = reported

(* A retry that finds room gets further, and so does every turn of a        *)
(* blocking write.                                                          *)
Further ==
    /\ Retry /\ Writable /\ Room > 0 => pend' = None \/ pend.pos < pend'.pos
    /\ write_waiting => call.pos < call'.pos

Advances == (pend # None => PendingStep) /\ (call # None => CallStep) /\ Further

WritesAdvance == [][Advances]_vars

(* A full buffer is one that an acknowledgement can empty. *)
RoomOrAck == Room > 0 \/ acked < accepted

(* The three outcomes of a non-blocking write for one that was cut short. *)
LEMMA WriteAdvances ==
    ASSUME WriteInv, NEW b \in Buffers, NEW n \in Nat, 0 < n, NEW fin \in BOOLEAN,
           write(b, n, fin), pend # None
    PROVE  /\ PendingStep
           /\ b = pend.buf /\ n = pend.len /\ Writable /\ Room > 0 =>
                 pend' = None \/ pend.pos < pend'.pos
<1>0. /\ accepted \in Nat /\ pend \in PendingWrites
      /\ Start = pend.pos /\ pend.pos \in Nat /\ 0 < pend.pos
  BY DEF WriteInv, WriteTypes, WaitingIsShort, PendingWrites, Start
<1>1. SSL_write_ex2(b, n, fin)
  BY DEF write
<1>2. CASE WriteRefused(b, n) /\ UNCHANGED <<reported, finBy>>
  BY <1>0, <1>2 DEF WriteRefused, BadRetry, PendingStep
<1>3. CASE WriteWhole(b, n, fin) /\ reported' = reported + n
  <2>1. /\ pend.len = n /\ pend' = None /\ Start + Fits(n) = n
        /\ accepted' = accepted + Fits(n)
    BY <1>3 DEF WriteWhole, BadRetry
  <2>2. Fits(n) \in Nat
    BY <2>1, FitsBounds
  <2>3. Fits(n) = pend.len - pend.pos
    BY <1>0, <2>1, <2>2
  <2> QED
    BY <1>3, <2>1, <2>3 DEF PendingStep
<1>4. CASE /\ WritePart(b, n) /\ reported' = reported
           /\ pend' = IF Start + Fits(n) = 0 THEN None
                      ELSE [buf |-> b, len |-> n, pos |-> Start + Fits(n)]
  <2>1. /\ pend.len = n /\ pend.buf = b /\ accepted' = accepted + Fits(n)
        /\ Start + Fits(n) < n
    BY <1>4 DEF WritePart, BadRetry
  <2>2. Fits(n) \in Nat /\ Room \in Nat
    BY <2>1, FitsBounds
  <2> DEFINE m == Start + Fits(n)
  <2>3. /\ m \in Nat /\ m # 0 /\ pend.pos <= m /\ Fits(n) = m - pend.pos
        /\ Room > 0 => pend.pos < m
    BY <1>0, <2>1, <2>2 DEF Fits, Smaller
  <2> HIDE DEF m
  <2>4. pend' = [buf |-> b, len |-> n, pos |-> m]
    BY <1>4, <2>3 DEF m
  <2>5. pend' # None /\ pend'.buf = b /\ pend'.len = n /\ pend'.pos = m
    BY <2>3, <2>4, NoneAssumption DEF PendingWrites
  <2> QED
    BY <1>4, <2>1, <2>3, <2>5 DEF PendingStep
<1> QED
  BY <1>1, <1>2, <1>3, <1>4 DEF SSL_write_ex2, Data, WantReports, NotConcluded,
     WriteInv, WriteTypes

(* The turns and the return of a blocking write. *)
LEMMA BlockingAdvances ==
    ASSUME WriteInv, write_waiting \/ write_returns
    PROVE  CallStep /\ (write_waiting => call.pos < call'.pos)
<1>0. /\ call # None /\ Room \in Nat /\ accepted \in Nat
      /\ call.pos \in Nat /\ call.len \in Nat /\ call \in BlockedCalls
  BY SizesAssumption DEF WriteInv, WriteTypes, BufferHolds, Room, BlockedCalls,
     write_waiting, write_returns
<1>1. CASE write_waiting
  <2>1. /\ Room > 0 /\ accepted' = accepted + Room /\ reported' = reported
        /\ call' = [call EXCEPT !.pos = call.pos + Room]
    BY <1>1 DEF write_waiting
  <2>2. /\ call' \in BlockedCalls /\ call'.pos = call.pos + Room
        /\ call'.len = call.len /\ call'.fin = call.fin
    BY <1>0, <2>1 DEF BlockedCalls
  <2>3. call' # None
    BY <2>2, NoneAssumption
  <2> QED
    BY <1>0, <2>1, <2>2, <2>3 DEF CallStep
<1>2. CASE write_returns
  BY <1>1, <1>2 DEF write_returns, CallStep
<1> QED
  BY <1>1, <1>2

(* A step that leaves writes, string and bytes alone advances trivially. *)
LEMMA NothingWritten ==
    ASSUME WriteInv, UNCHANGED <<accepted, reported, pend, call>>
    PROVE  (pend # None => PendingStep) /\ (call # None => CallStep)
<1>1. /\ accepted \in Nat
      /\ pend # None => pend.pos \in Nat /\ pend.len \in Nat
      /\ call # None => call.pos \in Nat /\ call.len \in Nat
  BY DEF WriteInv, WriteTypes, PendingWrites, BlockedCalls
<1> QED
  BY <1>1 DEF PendingStep, CallStep

(* Every step of the specification. *)
LEMMA AdvancesStep == ASSUME WriteInv, Next PROVE Advances
<1>0. /\ WriteTypes /\ WaitingIsShort
      /\ \A n \in Lengths : n \in Nat /\ 0 < n
  BY LengthsAssumption DEF WriteInv
<1>1. ASSUME Retry, Writable, Room > 0 PROVE pend' = None \/ pend.pos < pend'.pos
  <2>1. pend # None /\ pend.buf \in Buffers /\ pend.len \in Nat /\ 0 < pend.len
    BY <1>0, <1>1 DEF Retry, WriteTypes, WaitingIsShort, PendingWrites
  <2>2. write(pend.buf, pend.len, FALSE)
    BY <1>1 DEF Retry
  <2> QED
    BY <1>1, <2>1, <2>2, WriteAdvances
<1>2. write_waiting => call.pos < call'.pos
  BY BlockingAdvances
<1>3. Further
  BY <1>1, <1>2 DEF Further
<1>4. CASE write_waiting \/ write_returns
  <2>1. call # None /\ CallStep
    BY <1>4, BlockingAdvances DEF write_waiting, write_returns
  <2>2. pend = None
    BY <1>0, <2>1 DEF WaitingIsShort
  <2> QED
    BY <1>3, <2>1, <2>2 DEF Advances
<1>5. ASSUME NEW b \in Buffers, NEW n \in Lengths, NEW fin \in BOOLEAN,
             write(b, n, fin) \/ quic_stream_op_write(b, n)
      PROVE  Advances
  <2>1. call = None
    BY <1>5 DEF write, quic_stream_op_write
  <2>2. pend # None => PendingStep
    BY <1>0, <1>5, WriteAdvances DEF quic_stream_op_write
  <2> QED
    BY <1>3, <2>1, <2>2 DEF Advances
<1>6. ASSUME NEW b \in Buffers, NEW n \in Lengths, NEW fin \in BOOLEAN,
             write_blocking(b, n, fin)
      PROVE  Advances
  <2>1. call = None /\ pend = None
    BY <1>0, <1>6 DEF write_blocking, WaitingIsShort
  <2> QED
    BY <1>3, <2>1 DEF Advances
<1>7. CASE \/ Engine \/ end \/ write_empty \/ read_null
           \/ \E c \in Codes : reset(c)
  <2>1. UNCHANGED <<accepted, reported, pend, call>>
    BY <1>7 DEF Engine, Ack, StopSending, PeerFin, PeerReset, ConnCloses, end,
       write_empty, read_null, reset, data
  <2> QED
    BY <1>3, <2>1, NothingWritten DEF Advances
<1> QED
  BY <1>4, <1>5, <1>6, <1>7 DEF Next

(* A write that was begun is only ever continued or completed, by whatever  *)
(* sequence of calls; each retry that finds room and each turn of a         *)
(* blocking write gets further, and room always comes with an ACK: the      *)
(* safety half of WriteCompletes, for every buffer size.                    *)
THEOREM BegunWritesAdvance == Spec => WritesAdvance /\ []RoomOrAck
<1>1. WriteInv /\ [Next]_vars => [Advances]_vars
  BY AdvancesStep
<1>2. WriteInv => RoomOrAck
  BY SizesAssumption DEF WriteInv, WriteTypes, BufferHolds, Room, RoomOrAck
<1> QED
  BY <1>1, <1>2, WriteInvariant, PTL DEF Spec, WritesAdvance
================================================================================
