--------------------------- MODULE StreamReadProofs ---------------------------
(***************************************************************************)
(* Proofs about StreamRead for every first buffer size, every set of       *)
(* lengths and every amount of data.                                       *)
(***************************************************************************)
EXTENDS StreamRead, TLAPS

(* Once the end has been reported the engine has nothing to yield, now or   *)
(* later, and no read() is holding bytes.                                   *)
EndStays ==
    /\ recv = "fin_read" => pulled = arrived
    /\ over # "no" => /\ total = 0
                      /\ \/ sendOnly
                         \/ recv = "reset"
                         \/ recv = "fin_read"
                         \/ closed /\ (~kept \/ (pulled = arrived /\ recv = "recv"))

Inv == TypeOK /\ LoopBounds /\ NoByteLost /\ EndStays

LEMMA InvInit == Init => Inv
<1> SUFFICES ASSUME Init PROVE Inv
  OBVIOUS
<1>1. closed \in BOOLEAN /\ kept \in BOOLEAN /\ sendOnly \in BOOLEAN /\ blocking \in BOOLEAN
  BY Zenon DEF Init
<1>2. TypeOK
  BY <1>1, SMT DEF Init, TypeOK
<1> QED
  BY <1>2 DEF Init, Inv, LoopBounds, NoByteLost, EndStays

(* The buffer grows, and not past the requested length. *)
LEMMA GrowBounds ==
    ASSUME cap \in Nat, want \in Nat, 0 < cap, cap < want
    PROVE  Grow \in Nat /\ cap < Grow /\ Grow <= want
  BY DEF Grow

LEMMA SmallerBounds ==
    ASSUME NEW a \in Nat, NEW b \in Nat
    PROVE  /\ Smaller(a, b) \in Nat /\ Smaller(a, b) <= a /\ Smaller(a, b) <= b
           /\ Smaller(a, b) = a \/ Smaller(a, b) = b
  BY DEF Smaller

LEMMA EngineKeepsInv == ASSUME Inv, Engine PROVE Inv'
<1> USE DEF Inv, TypeOK, LoopBounds, NoByteLost, EndStays, Reader
<1>1. CASE Arrive
  BY <1>1, MaxBytesAssumption DEF Arrive
<1>2. CASE PeerFin
  BY <1>2 DEF PeerFin
<1>3. CASE PeerReset
  BY <1>3 DEF PeerReset
<1>4. CASE ConnTerminates
  BY <1>4 DEF ConnTerminates
<1> QED
  BY <1>1, <1>2, <1>3, <1>4 DEF Engine

(* What one successful SSL_read_ex of the loop gets. *)
LEMMA GotBounds ==
    ASSUME Inv, pc = "loop", ReadYields,
           NEW t, t = total + Smaller(cap - total, Buffered)
    PROVE  /\ t \in Nat /\ total < t /\ t <= cap
           /\ t - total \in Nat /\ pulled + (t - total) <= arrived
           /\ cap <= want /\ 0 < cap
           /\ over = "no" /\ recv # "fin_read"
<1> DEFINE g == Smaller(cap - total, Buffered)
<1>1. /\ total \in Nat /\ cap \in Nat /\ want \in Nat
      /\ arrived \in Nat /\ pulled \in Nat
      /\ cap - total \in Nat /\ 0 < cap - total /\ cap <= want
      /\ Buffered = arrived - pulled /\ Buffered \in Nat /\ 0 < Buffered
  BY DEF Inv, TypeOK, LoopBounds, ReadYields, Buffered
<1>2. g \in Nat /\ 0 < g /\ g <= cap - total /\ g <= Buffered
  BY <1>1, SmallerBounds
<1>3. recv # "fin_read" /\ over = "no"
  BY <1>1 DEF Inv, EndStays, TypeOK, ReadYields, ReadFails
<1> HIDE DEF g
<1> QED
  BY <1>1, <1>2, <1>3 DEF g

LEMMA ReadStepKeepsInv == ASSUME Inv, ReadStep PROVE Inv'
<1> DEFINE t == total + Smaller(cap - total, Buffered)
<1> USE DEF engine
<1>1. CASE ReadMore
  <2>1. /\ ~LoopDone(t) /\ pulled' = pulled + (t - total) /\ total' = t /\ cap' = Grow
        /\ pc = "loop" /\ ReadYields
        /\ UNCHANGED <<engine, blocking, pc, want, delivered, ret, over>>
    BY <1>1 DEF ReadMore
  <2>2. /\ t \in Nat /\ total < t /\ t <= cap
        /\ t - total \in Nat /\ pulled + (t - total) <= arrived
        /\ cap <= want /\ 0 < cap /\ over = "no" /\ recv # "fin_read"
    BY <2>1, GotBounds
  <2> HIDE DEF t
  <2>3. t = cap /\ t < want
    BY <2>1, <2>2 DEF LoopDone, Inv, TypeOK
  <2>4. Grow \in Nat /\ cap < Grow /\ Grow <= want
    BY <2>2, <2>3, GrowBounds DEF Inv, TypeOK
  <2> QED
    BY <2>1, <2>2, <2>3, <2>4 DEF Inv, TypeOK, LoopBounds, NoByteLost, EndStays
<1>2. CASE ReadLast
  <2>1. /\ pulled' = pulled + (t - total) /\ delivered' = delivered + t
        /\ ret' = "data" /\ pc' = "idle" /\ want' = 0 /\ cap' = 0 /\ total' = 0
        /\ pc = "loop" /\ ReadYields
        /\ UNCHANGED <<engine, blocking, over>>
    BY <1>2 DEF ReadLast, Idle, Truncated
  <2>2. /\ t \in Nat /\ total < t /\ t <= cap
        /\ t - total \in Nat /\ pulled + (t - total) <= arrived
        /\ over = "no" /\ recv # "fin_read"
    BY <2>1, GotBounds
  <2> HIDE DEF t
  <2> QED
    BY <2>1, <2>2 DEF Inv, TypeOK, LoopBounds, NoByteLost, EndStays
<1>3. CASE ReadStop
  <2>1. /\ pc' = "idle" /\ want' = 0 /\ cap' = 0 /\ total' = 0
        /\ recv' = IF ReadAtEnd THEN "fin_read" ELSE recv
        /\ UNCHANGED <<sendOnly, arrived, closed, kept, pulled, blocking>>
    BY <1>3 DEF ReadStop, Idle, FinRead
  <2>2. CASE total > 0
    <3>1. delivered' = delivered + total /\ ret' = "data" /\ over' = over
      BY <1>3, <2>2 DEF ReadStop, DataBeforeError, Truncated
    <3> QED
      BY <2>1, <2>2, <3>1 DEF Inv, TypeOK, LoopBounds, NoByteLost, EndStays,
         ReadAtEnd, Buffered
  <2>3. CASE ~(total > 0)
    <3>1. /\ delivered' = delivered /\ ret' \in {"empty", "null", "throw"}
          /\ \/ over' = over
             \/ ReportOver /\ EndsStream
      BY <1>3, <2>3 DEF ReadStop, DataBeforeError
    <3>2. total = 0
      BY <2>3 DEF Inv, TypeOK
    <3>3. CASE over' = over
      BY <2>1, <3>1, <3>2, <3>3 DEF Inv, TypeOK, LoopBounds, NoByteLost, EndStays,
         ReadAtEnd, Buffered
    <3>4. CASE ReportOver /\ EndsStream
      BY <2>1, <3>1, <3>2, <3>4 DEF Inv, TypeOK, LoopBounds, NoByteLost, EndStays,
         ReportOver, EndsStream, ReadAtEnd, ReadFails, Buffered
    <3> QED
      BY <3>1, <3>3, <3>4
  <2> QED
    BY <2>2, <2>3
<1> QED
  BY <1>1, <1>2, <1>3 DEF ReadStep

LEMMA OpReadKeepsInv ==
    ASSUME Inv, NEW n \in Lengths, quic_stream_op_read(n)
    PROVE  Inv'
<1> DEFINE got == IF ReadYields THEN Smaller(n, Buffered) ELSE 0
<1>1. /\ pulled' = pulled + got /\ delivered' = delivered + got
      /\ recv' = IF ReadAtEnd THEN "fin_read" ELSE recv
      /\ over' = over \/ (ReportOver /\ OpReadEof)
      /\ ret' \in {"data", "failed", "zero"}
      /\ pc = "idle"
      /\ UNCHANGED <<sendOnly, arrived, closed, kept, blocking, pc, locals>>
  BY DEF quic_stream_op_read, FinRead
<1>2. /\ Buffered = arrived - pulled /\ Buffered \in Nat /\ n \in Nat
  BY LengthsAssumption DEF Inv, TypeOK, Buffered
<1>3. got \in Nat /\ pulled + got <= arrived /\ (~ReadYields => got = 0)
  BY <1>2, SmallerBounds DEF Inv, TypeOK
<1>4. over # "no" \/ recv = "fin_read" => ~ReadYields
  BY <1>2 DEF Inv, TypeOK, EndStays, ReadYields, ReadFails
<1> HIDE DEF got
<1>5. CASE over' = over
  BY <1>1, <1>3, <1>4, <1>5 DEF Inv, TypeOK, LoopBounds, NoByteLost, EndStays,
     ReadAtEnd, ReadYields, Buffered, locals
<1>6. CASE ReportOver /\ OpReadEof
  BY <1>1, <1>3, <1>4, <1>6 DEF Inv, TypeOK, LoopBounds, NoByteLost, EndStays,
     ReportOver, OpReadEof, ReadAtEnd, ReadFails, ReadYields, Buffered, locals
<1> QED
  BY <1>1, <1>5, <1>6

LEMMA InvInductive == Inv /\ [Next]_vars => Inv'
<1> SUFFICES ASSUME Inv, [Next]_vars PROVE Inv'
  OBVIOUS
<1>1. CASE Engine
  BY <1>1, EngineKeepsInv
<1>2. CASE setBlocking
  BY <1>2 DEF setBlocking, Inv, TypeOK, LoopBounds, NoByteLost, EndStays, engine, locals
<1>3. ASSUME NEW n \in Lengths, ReadCall(n) PROVE Inv'
  <2>1. n \in Nat /\ 0 < n /\ Chunk \in Nat /\ 0 < Chunk
    BY LengthsAssumption, ChunkAssumption
  <2>2. cap' \in Nat /\ 0 < cap' /\ cap' <= n
    BY <1>3, <2>1 DEF ReadCall, Smaller
  <2> QED
    BY <1>3, <2>1, <2>2 DEF ReadCall, Inv, TypeOK, LoopBounds, NoByteLost, EndStays, engine
<1>4. ASSUME NEW n \in Lengths, quic_stream_op_read(n) PROVE Inv'
  BY <1>4, OpReadKeepsInv
<1>5. CASE ReadStep
  BY <1>5, ReadStepKeepsInv
<1>6. CASE UNCHANGED vars
  BY <1>6 DEF vars, Inv, TypeOK, LoopBounds, NoByteLost, EndStays
<1> QED
  BY <1>1, <1>2, <1>3, <1>4, <1>5, <1>6 DEF Next

(* The invariant and with it all that is read off it. *)
THEOREM ReadInvariant == Spec => []Inv
  BY InvInit, InvInductive, PTL DEF Spec

(* Each SSL_read_ex of read() gets a non-empty room inside a buffer that    *)
(* never exceeds the requested length, whatever the length and the chunk.   *)
THEOREM BufferBounds == Spec => []LoopBounds
<1>1. Inv => LoopBounds
  BY DEF Inv
<1> QED
  BY <1>1, ReadInvariant, PTL

(* Every byte taken out of the engine is returned to userland. *)
THEOREM EveryByteReturned == Spec => []NoByteLost
<1>1. Inv => NoByteLost
  BY DEF Inv
<1> QED
  BY <1>1, ReadInvariant, PTL

(* A short read means an empty engine: SSL_read_ex gave less than the room. *)
LEMMA ShortReadEmpties ==
    ASSUME Inv, pc = "loop", ReadYields,
           NEW t, t = total + Smaller(cap - total, Buffered), t < cap
    PROVE  pulled + (t - total) = arrived
<1>1. /\ cap \in Nat /\ total \in Nat /\ pulled \in Nat /\ arrived \in Nat
      /\ total < cap /\ pulled <= arrived
  BY DEF Inv, TypeOK, LoopBounds
<1>2. Buffered = arrived - pulled
  BY DEF Buffered
<1> QED
  BY <1>1, <1>2 DEF Smaller

(* A step that makes read() return data in non-blocking mode. *)
LEMMA DrainingStep ==
    ASSUME Inv, ReadStep, ~blocking, ret' = "data", pc' = "idle"
    PROVE  \/ delivered' - delivered = want
           \/ pulled' = arrived
           \/ ReadFails
<1>1. CASE ReadMore
  BY <1>1 DEF ReadMore
<1>2. CASE ReadLast
  <2> DEFINE t == total + Smaller(cap - total, Buffered)
  <2>1. /\ pc = "loop" /\ ReadYields /\ LoopDone(t)
        /\ pulled' = pulled + (t - total) /\ delivered' = delivered + t
    BY <1>2 DEF ReadLast, Truncated
  <2>2. t \in Nat /\ t <= cap /\ cap <= want
    BY <2>1, GotBounds
  <2>3. t >= want \/ t < cap
    BY <2>1 DEF LoopDone
  <2>4. t < cap => pulled' = arrived
    BY <2>1, ShortReadEmpties
  <2> HIDE DEF t
  <2>5. t >= want => delivered' - delivered = want
    BY <2>1, <2>2 DEF Inv, TypeOK
  <2> QED
    BY <2>3, <2>4, <2>5
<1>3. CASE ReadStop
  BY <1>3 DEF ReadStop, ReadAtEnd, ReadWouldWait, Buffered, Inv, TypeOK
<1> QED
  BY <1>1, <1>2, <1>3 DEF ReadStep

(* In non-blocking mode a read() that returns data has returned all that    *)
(* was asked for, or all that the engine had, unless the stream broke off;  *)
(* for every first chunk, length and sequence of reallocations.             *)
THEOREM ReadDrains == Spec => Drains
<1>1. Inv /\ [Next]_vars =>
         [(ReadStep /\ ~blocking /\ ret' = "data" /\ pc' = "idle")
             => \/ delivered' - delivered = want
                \/ pulled' = arrived
                \/ ReadFails]_vars
  BY DrainingStep
<1> QED
  BY <1>1, ReadInvariant, PTL DEF Spec, Drains

(* Every turn of the loop of read() takes at least one byte, and only the   *)
(* last can meet the request, so that there are never more turns than       *)
(* bytes were asked for: what ReadReturns rests on besides fairness.        *)
TurnsBounded == [][ReadMore => total < total' /\ total' < want /\ want' = want]_vars

(* The loop of read() runs at most once per byte of the requested length.   *)
THEOREM ReadTurnsBounded == Spec => TurnsBounded
<1>1. ASSUME Inv, ReadMore
      PROVE  total < total' /\ total' < want /\ want' = want
  <2> DEFINE t == total + Smaller(cap - total, Buffered)
  <2>1. pc = "loop" /\ ReadYields /\ ~LoopDone(t) /\ total' = t /\ want' = want
    BY <1>1 DEF ReadMore
  <2>2. t \in Nat /\ total < t
    BY <1>1, <2>1, GotBounds
  <2> HIDE DEF t
  <2>3. t < want
    BY <1>1, <2>1, <2>2 DEF LoopDone, Inv, TypeOK
  <2> QED
    BY <2>1, <2>2, <2>3
<1>2. Inv /\ [Next]_vars =>
         [ReadMore => total < total' /\ total' < want /\ want' = want]_vars
  BY <1>1
<1> QED
  BY <1>2, ReadInvariant, PTL DEF Spec, TurnsBounded

-----------------------------------------------------------------------------
(* A step of the reader is a step of the pipe or leaves it alone. *)
LEMMA StepSimulation == Inv /\ [Next]_vars => [Pipe!Next]_(Pipe!pipeVars)
<1> SUFFICES ASSUME Inv, [Next]_vars
             PROVE  \/ Pipe!Arrive \/ Pipe!Deliver \/ Pipe!ReportEnd
                    \/ UNCHANGED <<arrived, delivered, over>>
  BY DEF Pipe!Next, Pipe!pipeVars
<1> USE DEF engine, locals, Reader
<1>1. CASE Arrive
  <2>1. arrived' \in Nat /\ arrived' > arrived
    BY <1>1, MaxBytesAssumption DEF Arrive, Inv, TypeOK
  <2> QED
    BY <1>1, <2>1 DEF Arrive, Pipe!Arrive
<1>2. CASE PeerFin \/ PeerReset \/ ConnTerminates \/ setBlocking
  BY <1>2 DEF PeerFin, PeerReset, ConnTerminates, setBlocking
<1>3. ASSUME NEW n \in Lengths, ReadCall(n)
      PROVE  UNCHANGED <<arrived, delivered, over>>
  BY <1>3 DEF ReadCall
<1>4. CASE ReadMore
  BY <1>4 DEF ReadMore
<1>5. CASE ReadLast
  <2> DEFINE t == total + Smaller(cap - total, Buffered)
  <2>1. /\ t \in Nat /\ total < t
        /\ t - total \in Nat /\ pulled + (t - total) <= arrived
        /\ over = "no"
    BY <1>5, GotBounds DEF ReadLast
  <2>2. delivered' = delivered + t /\ UNCHANGED <<arrived, over>>
    BY <1>5 DEF ReadLast, Truncated
  <2> HIDE DEF t
  <2>3. delivered' \in Nat /\ delivered < delivered' /\ delivered' <= arrived
    BY <2>1, <2>2 DEF Inv, TypeOK, NoByteLost
  <2> QED
    BY <2>1, <2>2, <2>3 DEF Pipe!Deliver
<1>6. CASE ReadStop
  <2>1. arrived' = arrived
    BY <1>6 DEF ReadStop
  <2>2. CASE total > 0
    <3>1. delivered' = delivered + total /\ over' = over
      BY <1>6, <2>2 DEF ReadStop, DataBeforeError, Truncated
    <3>2. over = "no" /\ delivered' \in Nat /\ delivered < delivered'
          /\ delivered' <= arrived
      BY <2>2, <3>1 DEF Inv, TypeOK, NoByteLost, EndStays
    <3> QED
      BY <2>1, <3>1, <3>2 DEF Pipe!Deliver
  <2>3. CASE ~(total > 0)
    <3>1. delivered' = delivered /\ (over' = over \/ ReportOver)
      BY <1>6, <2>3 DEF ReadStop, DataBeforeError
    <3>2. ReadAtEnd => delivered = arrived
      BY <2>3 DEF ReadAtEnd, Buffered, Inv, TypeOK, NoByteLost
    <3> QED
      BY <2>1, <3>1, <3>2 DEF ReportOver, Pipe!ReportEnd
  <2> QED
    BY <2>2, <2>3
<1>7. ASSUME NEW n \in Lengths, quic_stream_op_read(n)
      PROVE  \/ Pipe!Deliver \/ Pipe!ReportEnd
             \/ UNCHANGED <<arrived, delivered, over>>
  <2>1. arrived' = arrived /\ pc = "idle"
    BY <1>7 DEF quic_stream_op_read
  <2>2. CASE ReadYields
    <3> DEFINE got == Smaller(n, Buffered)
    <3>1. delivered' = delivered + got /\ over' = over
      BY <1>7, <2>2 DEF quic_stream_op_read, OpReadEof, ReadYields, ReadAtEnd
    <3>2. /\ Buffered = arrived - pulled /\ Buffered \in Nat /\ 0 < Buffered
          /\ n \in Nat /\ 0 < n
      BY <2>2, LengthsAssumption DEF Inv, TypeOK, Buffered, ReadYields
    <3>3. got \in Nat /\ 0 < got /\ got <= Buffered
      BY <3>2, SmallerBounds
    <3>4. over = "no"
      BY <2>2, <3>2 DEF Inv, TypeOK, EndStays, ReadYields, ReadFails
    <3> HIDE DEF got
    <3>5. delivered' \in Nat /\ delivered < delivered' /\ delivered' <= arrived
      BY <3>1, <3>2, <3>3 DEF Inv, TypeOK, NoByteLost
    <3> QED
      BY <2>1, <3>1, <3>4, <3>5 DEF Pipe!Deliver
  <2>3. CASE ~ReadYields
    <3>1. delivered' = delivered /\ (over' = over \/ ReportOver)
      BY <1>7, <2>3 DEF quic_stream_op_read, Inv, TypeOK
    <3>2. ReadAtEnd => delivered = arrived
      BY <2>1 DEF ReadAtEnd, Buffered, Inv, TypeOK, NoByteLost
    <3> QED
      BY <2>1, <3>1, <3>2 DEF ReportOver, Pipe!ReportEnd
  <2> QED
    BY <2>2, <2>3
<1>8. CASE UNCHANGED vars
  BY <1>8 DEF vars
<1> QED
  BY <1>1, <1>2, <1>3, <1>4, <1>5, <1>6, <1>7, <1>8 DEF Next, Engine, ReadStep

(* read() and fread() implement the byte pipe: bytes once and in order, a   *)
(* clean end only after the last one, nothing after a reported end.         *)
THEOREM ReadImplementsPipe == Spec => ImplementsPipe
<1>1. Init => Pipe!Init
  BY DEF Init, Pipe!Init
<1> QED
  BY <1>1, StepSimulation, ReadInvariant, PTL DEF Spec, ImplementsPipe, Pipe!Spec
=============================================================================
