------------------------------ MODULE PollProofs ------------------------------
(***************************************************************************)
(* Proofs about Poll for any items, any handles, any size of the stack     *)
(* array and any timeout.                                                  *)
(***************************************************************************)
EXTENDS Poll, TLAPS

PollTypes ==
    /\ n \in 0 .. MaxItems /\ DOMAIN items = 1 .. n
    /\ \A j \in 1 .. n : items[j] \in Entry
    /\ timeout \in Timeouts
    /\ pc \in {"start", "fill", "wait", "map", "done"}
    /\ out \in {"none", "array", "throw"} /\ (out = "array" => pc = "done")
    /\ i \in 1 .. n + 1 /\ (pc = "start" => i = 1)

(* How many items the first walk has copied. *)
Copied == IF pc = "start" THEN 0 ELSE IF pc = "fill" THEN i - 1 ELSE n

(* The array holds, in order, the objects of the items that were copied. *)
CopiedInOrder ==
    pc # "done" =>
        /\ array \in Seq([desc : Handles, events : SUBSET Events])
        /\ Len(array) = Copied
        /\ \A j \in 1 .. Copied :
              /\ items[j].form = "pair"
              /\ array[j] = [desc |-> items[j].obj, events |-> items[j].events]

(* What was copied is alive, unless an $events has been converted since.    *)
CopiedAlive ==
    pc \in {"fill", "wait"} =>
        \A j \in 1 .. Copied :
            items[j].obj \in alive \/ \E k \in j .. Copied : items[k].converts

(* The events that the caller asked for and that are ready. *)
EventsOf(j) == items[j].events \cap ready[items[j].obj]

(* Every SSL_POLL_ITEM has its own answer. *)
Answered == pc = "map" => \A j \in 1 .. n : revents[j] = EventsOf(j)

(* The answers of the first m items are in place, and no others. *)
MappedSoFar(m) ==
    LET some == {j \in 1 .. m : EventsOf(j) # {}}
    IN  /\ DOMAIN result = {Key(j) : j \in some}
        /\ \A j \in some : result[Key(j)] = EventsOf(j)

Mapped ==
    /\ pc \in {"start", "fill", "wait"} => DOMAIN result = {}
    /\ pc = "map" => MappedSoFar(i - 1)

PollInv ==
    /\ PollTypes /\ HeapBalanced /\ CopiedInOrder /\ CopiedAlive
    /\ Answered /\ Mapped /\ ResultByKey /\ TimevalNeverLonger

-----------------------------------------------------------------------------
(* The quotient and the remainder make up the number. *)
LEMMA DivMod ==
    ASSUME NEW c \in Nat, NEW u \in Nat \ {0}
    PROVE  /\ c \div u \in Nat /\ c % u \in 0 .. u - 1
           /\ (c \div u) * u + (c % u) = c
  OBVIOUS

(* A quotient is within the limit that its dividend is within. *)
LEMMA QuotientBound ==
    ASSUME NEW q \in Nat, NEW r \in Nat, NEW u \in Nat \ {0}, NEW l \in Nat,
           q * u + r <= l * u
    PROVE  q <= l
<1> SUFFICES ASSUME q >= l + 1 PROVE FALSE
  OBVIOUS
<1>1. PICK d \in Nat : q = l + 1 + d
  <2>1. q - l - 1 \in Nat /\ q = l + 1 + (q - l - 1)
    OBVIOUS
  <2> QED
    BY <2>1
<1>2. q * u = l * u + u + d * u
  BY <1>1
<1>3. d * u \in Nat /\ l * u \in Nat
  OBVIOUS
<1> QED
  BY <1>2, <1>3

(* What TimevalNeverLonger says of the fields of a timeval. *)
FaithfulTo(t, sec, frac) ==
    LET total == sec * Unit + frac
    IN  /\ sec \in 0 .. LongMax /\ frac \in 0 .. Unit - 1
        /\ t <= 0 => total = 0
        /\ t \in 0 .. Limit * Unit => total \in {t - 1, t}
        /\ t \in 0 .. Limit * Unit /\ t % Unit = 0 => total = t
        /\ t > Limit * Unit => total = Limit * Unit

(* A multiple of the unit leaves no fraction. *)
LEMMA WholeSeconds ==
    ASSUME NEW l \in Nat, NEW u \in Nat \ {0}
    PROVE  (l * u) % u = 0
<1> DEFINE q == (l * u) \div u
           r == (l * u) % u
<1>1. l * u \in Nat
  OBVIOUS
<1>2. q \in Nat /\ r \in 0 .. u - 1 /\ q * u + r = l * u
  BY <1>1, DivMod
<1> HIDE DEF q, r
<1>3. q <= l
  BY <1>2, QuotientBound
<1>4. PICK d \in Nat : l = q + d
  <2>1. l - q \in Nat /\ l = q + (l - q)
    BY <1>2, <1>3
  <2> QED
    BY <2>1
<1>5. l * u = q * u + d * u
  BY <1>2, <1>4
<1>6. r = d * u
  BY <1>2, <1>5
<1>7. d = 0
  <2> SUFFICES ASSUME d >= 1 PROVE FALSE
    BY <1>4
  <2>1. PICK e \in Nat : d = e + 1
    <3>1. d - 1 \in Nat /\ d = (d - 1) + 1
      BY <1>4
    <3> QED
      BY <3>1
  <2>2. d * u = e * u + u /\ e * u \in Nat
    BY <2>1
  <2> QED
    BY <1>2, <1>6, <2>2
<1> QED
  BY <1>6, <1>7 DEF r

(* What the clamp and the split make of a number of seconds, whichever way  *)
(* the fraction is rounded.                                                 *)
LEMMA ClampedSplit ==
    ASSUME NEW t \in Int, NEW f \in Fractions(Clamped(t))
    PROVE  FaithfulTo(t, Clamped(t) \div Unit, f)
<1> DEFINE c == Clamped(t)
           top == Limit * Unit
           q == c \div Unit
           r == c % Unit
<1>1. top \in Nat
  BY BoundsAssumption
<1>2. c = IF t < 0 THEN 0 ELSE IF t > top THEN top ELSE t
  BY DEF Clamped
<1> HIDE DEF top
<1>3. c \in Nat /\ c <= top
  <2> HIDE DEF c
  <2> QED
    BY <1>1, <1>2
<1>4. f \in Nat /\ (f = r \/ f = r - 1)
  BY DEF Fractions
<1> HIDE DEF c
<1>5. q \in Nat /\ r \in 0 .. Unit - 1 /\ q * Unit + r = c
  BY <1>3, BoundsAssumption, DivMod
<1>6. q <= Limit
  <2>1. q \in Nat /\ r \in Nat /\ q * Unit + r <= Limit * Unit
    BY <1>3, <1>5, BoundsAssumption DEF top
  <2> HIDE DEF q, r
  <2> QED
    BY <2>1, BoundsAssumption, QuotientBound
<1>7. c = top => r = 0
  BY WholeSeconds, BoundsAssumption DEF top
<1>8. t \in 0 .. top => r = t % Unit
  BY <1>1, <1>2
<1>9. c = 0 => r = 0
  BY BoundsAssumption
<1> DEFINE total == q * Unit + f
<1> HIDE DEF q, r
<1>10. total \in Int /\ (total = c \/ (total = c - 1 /\ r # 0))
  <2>1. q * Unit \in Int
    BY <1>5, BoundsAssumption
  <2> QED
    BY <1>4, <1>5, <2>1, BoundsAssumption
<1> HIDE DEF total
<1>11. /\ t <= 0 => total = 0
       /\ t \in 0 .. top => total \in {t - 1, t}
       /\ t \in 0 .. top /\ t % Unit = 0 => total = t
       /\ t > top => total = top
  <2>1. t <= 0 => c = 0
    BY <1>1, <1>2
  <2>2. t \in 0 .. top => c = t
    BY <1>1, <1>2
  <2>3. t > top => c = top
    BY <1>1, <1>2
  <2> QED
    BY <1>7, <1>8, <1>9, <1>10, <2>1, <2>2, <2>3
<1>12. q \in 0 .. LongMax /\ f \in 0 .. Unit - 1
  BY <1>4, <1>5, <1>6, BoundsAssumption
<1> QED
  BY <1>11, <1>12 DEF FaithfulTo, total, top, q, c

-----------------------------------------------------------------------------
(* A function on 1 .. m is a sequence of length m. *)
LEMMA SeqOfLength ==
    ASSUME NEW S, NEW m \in Nat, NEW q \in [1 .. m -> S]
    PROVE  q \in Seq(S) /\ Len(q) = m
  OBVIOUS

LEMMA PollInvInit == Init => PollInv
<1> SUFFICES ASSUME Init PROVE PollInv
  OBVIOUS
<1>1. PICK m \in 0 .. MaxItems : items \in [1 .. m -> Entry]
  BY DEF Init
<1>2. m \in Nat
  BY BoundsAssumption
<1>3. n = m /\ items \in [1 .. n -> Entry]
  BY <1>1, <1>2, SeqOfLength DEF n
<1>4. PollTypes
  BY <1>1, <1>2, <1>3 DEF PollTypes, Init
<1>5. HeapBalanced
  BY DEF HeapBalanced, Init
<1>6. CopiedInOrder /\ CopiedAlive /\ Answered /\ Mapped
  BY DEF CopiedInOrder, CopiedAlive, Answered, Mapped, Copied, Init
<1>7. ResultByKey /\ TimevalNeverLonger
  BY DEF ResultByKey, TimevalNeverLonger, Init
<1> QED
  BY <1>4, <1>5, <1>6, <1>7 DEF PollInv

(* No two items share a key. *)
LEMMA KeysDistinct ==
    ASSUME NEW j \in Nat, NEW k \in Nat, Key(j) = Key(k)
    PROVE  j = k
  BY BoundsAssumption DEF Key

(* The call itself. *)
LEMMA StartKeepsInv ==
    ASSUME PollInv, Quic_poll
    PROVE  PollInv'
<1> USE DEF PollInv, Quic_poll
<1>1. n' = n /\ pc = "start" /\ pc' \in {"done", "fill"} /\ i' = 1 /\ i = 1
      /\ UNCHANGED <<items, timeout, alive, array, tv, ready, revents, result>>
  BY DEF n, PollTypes, args, answer
<1>2. PollTypes'
  BY <1>1 DEF PollTypes
<1>3. HeapBalanced'
  BY <1>1, BoundsAssumption DEF HeapBalanced, PollTypes
<1>4. CopiedInOrder' /\ CopiedAlive'
  BY <1>1 DEF CopiedInOrder, CopiedAlive, Copied
<1>5. Answered' /\ Mapped' /\ TimevalNeverLonger'
  BY <1>1 DEF Answered, Mapped, TimevalNeverLonger
<1>6. ResultByKey'
  <2>1. CASE n = 0
    BY <1>1, <2>1 DEF ResultByKey, Mapped
  <2>2. CASE n # 0
    BY <1>1, <2>2 DEF ResultByKey, PollTypes
  <2> QED
    BY <2>1, <2>2
<1> QED
  BY <1>2, <1>3, <1>4, <1>5, <1>6

(* The ways out with an exception. *)
LEMMA ThrowKeepsInv ==
    ASSUME PollInv, FillNotArray \/ FillShort \/ FillNotLive \/ PollThrows
    PROVE  PollInv'
<1>1. /\ pc' = "done" /\ out' = "throw" /\ heap' = FALSE
      /\ UNCHANGED <<items, timeout, alive, i, array, tv, ready, revents, result>>
  BY DEF FillNotArray, FillShort, FillNotLive, PollThrows, Throw, FreeItems, args,
     answer
<1>2. n' = n
  BY <1>1 DEF n
<1> QED
  BY <1>1, <1>2 DEF PollInv, PollTypes, HeapBalanced, CopiedInOrder, CopiedAlive,
                    Answered, Mapped, ResultByKey, TimevalNeverLonger

(* One turn of the first walk. *)
LEMMA FillKeepsInv ==
    ASSUME PollInv, Fill
    PROVE  PollInv'
<1> USE DEF PollInv
<1> DEFINE item == [desc |-> items[i].obj, events |-> items[i].events]
           Items == [desc : Handles, events : SUBSET Events]
<1>1. /\ pc = "fill" /\ i <= n /\ i' = i + 1
      /\ items[i].form = "pair" /\ items[i].obj \in alive
      /\ array' = Append(array, item)
      /\ UNCHANGED <<items, timeout, pc, heap, tv, ready, revents, result, out>>
  BY DEF Fill, Filled, AtItem, php_quic_obj_ssl, args, answer
<1>2. n' = n /\ n \in Nat /\ i \in 1 .. n
  BY <1>1, BoundsAssumption DEF n, PollTypes
<1>3. item \in Items
  <2>1. items[i] \in Entry
    BY <1>2 DEF PollTypes
  <2> QED
    BY <1>1, <2>1 DEF Entry
<1>4. PollTypes'
  BY <1>1, <1>2 DEF PollTypes
<1>5. HeapBalanced' /\ Answered' /\ Mapped' /\ ResultByKey' /\ TimevalNeverLonger'
  BY <1>1, <1>2 DEF HeapBalanced, Answered, Mapped, ResultByKey, TimevalNeverLonger,
     PollTypes
<1>6. Copied = i - 1 /\ Copied' = i
  BY <1>1, <1>2 DEF Copied
<1>7. array \in Seq(Items) /\ Len(array) = i - 1
  BY <1>1, <1>6 DEF CopiedInOrder
<1>8. CopiedInOrder'
  <2> HIDE DEF item, Items
  <2>1. /\ array' \in Seq(Items) /\ Len(array') = i /\ array'[i] = item
        /\ \A j \in 1 .. i - 1 : array'[j] = array[j]
    BY <1>1, <1>2, <1>3, <1>7
  <2> USE DEF item, Items
  <2> QED
    BY <1>1, <1>2, <1>6, <2>1 DEF CopiedInOrder
<1>9. CopiedAlive'
  <2> SUFFICES ASSUME NEW j \in 1 .. i, \A k \in j .. i : ~items[k].converts
               PROVE  items[j].obj \in alive'
    BY <1>1, <1>6 DEF CopiedAlive
  <2>1. alive' = alive
    BY <1>2 DEF Fill
  <2>2. CASE j = i
    BY <1>1, <2>1, <2>2
  <2>3. CASE j # i
    <3>1. j \in 1 .. i - 1 /\ \A k \in j .. i - 1 : ~items[k].converts
      BY <1>2, <2>3
    <3> QED
      BY <1>1, <1>6, <2>1, <3>1 DEF CopiedAlive
  <2> QED
    BY <2>2, <2>3
<1> QED
  BY <1>4, <1>5, <1>8, <1>9

(* The end of the first walk, and the timeval. *)
LEMMA SetTimeoutKeepsInv ==
    ASSUME PollInv, SetTimeout
    PROVE  PollInv'
<1> USE DEF PollInv
<1>1. /\ pc = "fill" /\ pc' = "wait" /\ i = n + 1 /\ tv' \in TimevalOf(timeout)
      /\ UNCHANGED <<items, timeout, alive, i, array, heap, ready, revents,
                     result, out>>
  BY DEF SetTimeout, args, answer
<1>2. n' = n /\ n \in Nat
  BY <1>1, BoundsAssumption DEF n, PollTypes
<1>3. Copied = n /\ Copied' = n
  BY <1>1, <1>2 DEF Copied
<1>4. PollTypes' /\ HeapBalanced' /\ Answered' /\ Mapped' /\ ResultByKey'
  BY <1>1, <1>2 DEF PollTypes, HeapBalanced, Answered, Mapped, ResultByKey
<1>5. CopiedInOrder' /\ CopiedAlive'
  BY <1>1, <1>2, <1>3 DEF CopiedInOrder, CopiedAlive
<1>6. TimevalNeverLonger'
  <2> SUFFICES ASSUME timeout \notin {Null, NaN}
               PROVE  FaithfulTo(timeout, tv'.sec, tv'.frac)
    BY <1>1 DEF TimevalNeverLonger, FaithfulTo
  <2>1. timeout \in Int
    BY ArgumentsAssumption DEF PollTypes
  <2>2. PICK f \in Fractions(Clamped(timeout)) :
           tv' = [sec |-> Clamped(timeout) \div Unit, frac |-> f]
    BY <1>1 DEF TimevalOf, Timevals
  <2>3. tv'.sec = Clamped(timeout) \div Unit /\ tv'.frac = f
    BY <2>2
  <2> QED
    BY <2>1, <2>3, ClampedSplit
<1> QED
  BY <1>4, <1>5, <1>6

(* SSL_poll answers: the second walk starts over. *)
LEMMA WaitKeepsInv ==
    ASSUME PollInv, SSL_poll
    PROVE  PollInv'
<1> USE DEF PollInv
<1>1. /\ pc = "wait" /\ pc' = "map" /\ i' = 1
      /\ UNCHANGED <<items, timeout, alive, array, heap, tv, result, out>>
  BY DEF SSL_poll, args
<1>2. n' = n /\ n \in Nat
  BY <1>1, BoundsAssumption DEF n, PollTypes
<1>3. Copied = n /\ Copied' = n
  BY <1>1, <1>2 DEF Copied
<1>4. PollTypes' /\ HeapBalanced' /\ ResultByKey' /\ TimevalNeverLonger'
  BY <1>1, <1>2 DEF PollTypes, HeapBalanced, ResultByKey, TimevalNeverLonger
<1>5. CopiedInOrder' /\ CopiedAlive'
  BY <1>1, <1>2, <1>3 DEF CopiedInOrder, CopiedAlive
<1>6. Answered'
  <2> SUFFICES ASSUME NEW j \in 1 .. n
               PROVE  revents'[j] = items[j].events \cap ready'[items[j].obj]
    BY <1>1, <1>2 DEF Answered, EventsOf
  <2>1. Len(array) = n
        /\ array[j] = [desc |-> items[j].obj, events |-> items[j].events]
    BY <1>1, <1>3 DEF CopiedInOrder
  <2>2. revents'[j] = array[j].events \cap ready'[array[j].desc]
    BY <2>1 DEF SSL_poll
  <2> QED
    BY <2>1, <2>2
<1>7. Mapped'
  <2>1. i' - 1 = 0 /\ DOMAIN result' = {}
    BY <1>1 DEF Mapped
  <2> QED
    BY <1>1, <2>1 DEF Mapped, MappedSoFar
<1> QED
  BY <1>4, <1>5, <1>6, <1>7

(* One turn of the second walk. *)
LEMMA MapKeepsInv ==
    ASSUME PollInv, MapResult
    PROVE  PollInv'
<1> USE DEF PollInv
<1> DEFINE ev(j) == EventsOf(j)
           r == ev(i)
           old == {j \in 1 .. i - 1 : ev(j) # {}}
           new == {j \in 1 .. i : ev(j) # {}}
<1>1. /\ pc = "map" /\ i <= n /\ i' = i + 1
      /\ UNCHANGED <<items, timeout, alive, pc, array, heap, tv, ready, revents, out>>
  BY DEF MapResult, args, answer
<1>2. n' = n /\ n \in Nat /\ i \in 1 .. n
  BY <1>1, BoundsAssumption DEF n, PollTypes
<1>3. Copied = n /\ Copied' = n
  BY <1>1, <1>2 DEF Copied
<1>4. PollTypes' /\ HeapBalanced' /\ ResultByKey' /\ TimevalNeverLonger'
  BY <1>1, <1>2 DEF PollTypes, HeapBalanced, ResultByKey, TimevalNeverLonger
<1>5. CopiedInOrder' /\ CopiedAlive'
  BY <1>1, <1>2, <1>3 DEF CopiedInOrder, CopiedAlive
<1>6. revents[Index(i)] = r /\ Answered'
  BY <1>1, <1>2 DEF Answered, Index, EventsOf
<1>7. result' = IF r = {} THEN result
                ELSE [k \in DOMAIN result \cup {Key(i)} |->
                         IF k = Key(i) THEN r ELSE result[k]]
  BY <1>6 DEF MapResult
<1>8. MappedSoFar(i - 1)
  BY <1>1 DEF Mapped
<1>9. DOMAIN result' = {Key(j) : j \in new} /\ \A j \in new : result'[Key(j)] = ev(j)
  <2>1. DOMAIN result = {Key(j) : j \in old} /\ \A j \in old : result[Key(j)] = ev(j)
    BY <1>8 DEF MappedSoFar
  <2>2. CASE r = {}
    <3>1. new = old
      BY <1>2, <2>2
    <3> QED
      BY <1>7, <2>1, <2>2, <3>1
  <2>3. CASE r # {}
    <3>1. new = old \cup {i}
      BY <1>2, <2>3
    <3>2. \A j \in old : Key(j) # Key(i)
      BY <1>2, KeysDistinct
    <3>3. DOMAIN result' = DOMAIN result \cup {Key(i)} /\ result'[Key(i)] = r
      BY <1>7, <2>3
    <3>4. \A j \in old : result'[Key(j)] = ev(j)
      BY <1>7, <2>1, <2>3, <3>2
    <3> QED
      BY <2>1, <3>1, <3>3, <3>4
  <2> QED
    BY <2>2, <2>3
<1>10. Mapped'
  <2>1. i' - 1 = i
    BY <1>1, <1>2
  <2> QED
    BY <1>1, <1>9, <2>1 DEF Mapped, MappedSoFar, EventsOf, Key
<1> QED
  BY <1>4, <1>5, <1>6, <1>10

(* The end of the second walk. *)
LEMMA ReturnKeepsInv ==
    ASSUME PollInv, Return
    PROVE  PollInv'
<1> USE DEF PollInv
<1>1. /\ pc = "map" /\ i = n + 1 /\ heap' = FALSE /\ pc' = "done" /\ out' = "array"
      /\ UNCHANGED <<items, timeout, alive, i, array, tv, ready, revents, result>>
  BY DEF Return, FreeItems, args, answer
<1>2. n' = n /\ n \in Nat /\ i - 1 = n
  BY <1>1, BoundsAssumption DEF n, PollTypes
<1>3. /\ PollTypes' /\ HeapBalanced' /\ TimevalNeverLonger'
      /\ CopiedInOrder' /\ CopiedAlive' /\ Answered' /\ Mapped'
  BY <1>1, <1>2 DEF PollTypes, HeapBalanced, TimevalNeverLonger, CopiedInOrder,
     CopiedAlive, Answered, Mapped
<1>4. MappedSoFar(n)
  BY <1>1, <1>2 DEF Mapped
<1>5. \A j \in 1 .. n : items[j].form = "pair"
  BY <1>1 DEF CopiedInOrder, Copied
<1>6. ResultByKey'
  BY <1>1, <1>2, <1>4, <1>5 DEF ResultByKey, MappedSoFar, EventsOf, Key
<1> QED
  BY <1>3, <1>6

LEMMA PollInvKept == PollInv /\ [Next]_vars => PollInv'
<1> SUFFICES ASSUME PollInv, [Next]_vars PROVE PollInv'
  OBVIOUS
<1>1. CASE UNCHANGED vars
  <2>1. /\ UNCHANGED <<items, timeout, alive, pc, i, array, heap, tv, ready, revents,
                       result, out>>
        /\ n' = n /\ Copied' = Copied
    BY <1>1 DEF vars, n, Copied
  <2> QED
    BY <2>1 DEF PollInv, PollTypes, HeapBalanced, CopiedInOrder, CopiedAlive, Answered,
                Mapped, MappedSoFar, EventsOf, Key, ResultByKey, TimevalNeverLonger
<1> QED
  BY <1>1, StartKeepsInv, ThrowKeepsInv, FillKeepsInv, SetTimeoutKeepsInv, WaitKeepsInv,
     MapKeepsInv, ReturnKeepsInv DEF Next

LEMMA PollInvHolds == Spec => []PollInv
  BY PollInvInit, PollInvKept, PTL DEF Spec

-----------------------------------------------------------------------------
(* Quic\poll() frees the heap array on every way out, for any number of     *)
(* items and any size of the stack array.                                   *)
THEOREM PollHeapBalanced == Spec => []HeapBalanced
  BY PollInvHolds, PTL DEF PollInv

(* What Quic\poll() returns is, key by key, the events that were asked for  *)
(* and were ready on the caller's items: the two walks stay in step         *)
(* whichever items are ready.                                               *)
THEOREM PollResultByKey == Spec => []ResultByKey
  BY PollInvHolds, PTL DEF PollInv

(* SSL_poll waits on a released SSL object only if userland code ran for    *)
(* the conversion of the same or of a later item's $events, for any number  *)
(* of items and whatever that code releases.                                *)
THEOREM PollStaleOnlyByConversion == Spec => []StaleOnlyByConversion
<1>1. PollInv => StaleOnlyByConversion
  <2> SUFFICES ASSUME PollInv, pc = "wait", NEW j \in 1 .. n
               PROVE  array[j].desc \in alive \/ \E k \in j .. n : items[k].converts
    BY DEF StaleOnlyByConversion
  <2>1. array[j].desc = items[j].obj
    BY DEF PollInv, CopiedInOrder, Copied
  <2> QED
    BY <2>1 DEF PollInv, CopiedAlive, Copied
<1> QED
  BY <1>1, PollInvHolds, PTL

(* The timeval is well formed, at most a microsecond short of the timeout   *)
(* and never longer, for any timeout that is a number, any fraction of a    *)
(* second and any width of a long that holds the limit.                     *)
THEOREM PollTimevalNeverLonger == Spec => []TimevalNeverLonger
  BY PollInvHolds, PTL DEF PollInv
=============================================================================
