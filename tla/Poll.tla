--------------------------------- MODULE Poll ---------------------------------
(***************************************************************************)
(* Quic\poll(): the caller's items are copied into an array of             *)
(* SSL_POLL_ITEMs (on the stack when they fit, else on the heap), the      *)
(* float timeout becomes a timeval, SSL_poll waits, and its answers are    *)
(* put back under the caller's keys by walking the items a second time.    *)
(*                                                                         *)
(* Converting $events to an integer runs userland code when it is none (a  *)
(* warning goes to the error handler), in the middle of the copying.  That *)
(* code may release a handle: by Listener::close(), or with the last       *)
(* reference to an object, when the item is in the array by reference.     *)
(***************************************************************************)
EXTENDS Integers, Sequences

CONSTANTS
    Handles,    \* the Connections, Listeners and Streams of the script
    Events,     \* the bits of an events mask
    MaxItems,   \* bound: items of one call
    StackItems, \* items that fit the array on the stack (16)
    Timeouts,   \* the $timeout arguments, in fractions of a second
    Unit,       \* the fractions of a second
    Limit,      \* the longest timeout, in seconds (10^8)
    LongMax,    \* the largest long
    Null, NaN

ASSUME BoundsAssumption ==
    /\ MaxItems \in Nat /\ StackItems \in Nat /\ Unit \in Nat \ {0}
    /\ Limit \in Nat /\ LongMax \in Nat /\ Limit <= LongMax
ASSUME ArgumentsAssumption == Timeouts \subseteq Int \cup {Null, NaN}

Entry ==
    [form : {"pair"}, obj : Handles, events : SUBSET Events, converts : BOOLEAN]
       \cup [form : {"not_array", "short"}]

VARIABLES
    items,      \* $items: the entries in the order of the hash
    timeout,    \* $timeout
    alive,      \* the handles whose ssl is not NULL
    pc,         \* "start", "fill", "wait", "map" or "done"
    i,          \* position in the hash, from 1
    array,      \* desc and events of the SSL_POLL_ITEMs filled so far
    heap,       \* poll_items is on the heap
    tv,         \* the timeval given to SSL_poll, or Null
    ready,      \* the events of each handle when SSL_poll looks
    revents,    \* the revents of the SSL_POLL_ITEMs
    result,     \* the array that is returned, key by key
    out         \* "none", "array" or "throw"

args == <<items, timeout>>
answer == <<ready, revents>>
vars == <<items, timeout, alive, pc, i, array, heap, tv, ready, revents, result, out>>

n == Len(items)

(* Keys in no relation to positions: a list's keys would hide a mix-up. *)
Key(j) == MaxItems + 1 - j

-----------------------------------------------------------------------------
Init ==
    /\ items \in UNION {[1 .. m -> Entry] : m \in 0 .. MaxItems}
    /\ timeout \in Timeouts
    /\ alive \in SUBSET Handles
    /\ pc = "start" /\ i = 1 /\ array = <<>> /\ heap = FALSE /\ tv = Null
    /\ ready = [h \in Handles |-> {}] /\ revents = <<>>
    /\ result = [k \in {} |-> {}] /\ out = "none"

(* if (poll_items != stackbuf) efree(poll_items), before every way out. *)
FreeItems == heap' = FALSE

Throw == pc' = "done" /\ out' = "throw"

(* No items: an empty array at once. *)
Quic_poll ==
    /\ pc = "start"
    /\ IF n = 0
       THEN pc' = "done" /\ out' = "array" /\ UNCHANGED heap
       ELSE pc' = "fill" /\ heap' = (n > StackItems) /\ UNCHANGED out
    /\ UNCHANGED <<args, alive, i, array, tv, answer, result>>

(* Mutant: a handle without an SSL object is accepted. *)
AnyHandle(h) == TRUE

(* php_quic_obj_ssl finds an SSL object. *)
php_quic_obj_ssl(h) == h \in alive

AtItem == pc = "fill" /\ i <= n

FillNotArray ==
    /\ AtItem /\ items[i].form = "not_array"
    /\ FreeItems /\ Throw
    /\ UNCHANGED <<args, alive, i, array, tv, answer, result>>

FillShort ==
    /\ AtItem /\ items[i].form = "short"
    /\ FreeItems /\ Throw
    /\ UNCHANGED <<args, alive, i, array, tv, answer, result>>

NotLive(e) == e.form = "pair" /\ ~php_quic_obj_ssl(e.obj)

(* Mutant: this one of the error paths forgets the efree. *)
FillNotLiveLeaks ==
    /\ AtItem /\ NotLive(items[i])
    /\ Throw /\ UNCHANGED heap
    /\ UNCHANGED <<args, alive, i, array, tv, answer, result>>

FillNotLive ==
    /\ AtItem /\ NotLive(items[i])
    /\ FreeItems /\ Throw
    /\ UNCHANGED <<args, alive, i, array, tv, answer, result>>

(* desc and events of the next SSL_POLL_ITEM. *)
Filled(e) == Append(array, [desc |-> e.obj, events |-> e.events])

(* The item is checked, then its $events is converted. *)
Fill ==
    /\ AtItem /\ items[i].form = "pair" /\ php_quic_obj_ssl(items[i].obj)
    /\ array' = Filled(items[i])
    /\ alive' \in IF items[i].converts THEN SUBSET alive ELSE {alive}
    /\ i' = i + 1
    /\ UNCHANGED <<args, pc, heap, tv, answer, result, out>>

(* Mutant: no upper limit. *)
ClampedBelow(t) == IF t < 0 THEN 0 ELSE t

Clamped(t) ==
    IF t < 0 THEN 0 ELSE IF t > Limit * Unit THEN Limit * Unit ELSE t

(* The fraction of a number of seconds is a double: the product of which    *)
(* the microseconds are the whole part may fall short of a whole number (of *)
(* 4.35 seconds 349999 are left, of 4.5 seconds 500000), unless there is    *)
(* no fraction at all.                                                      *)
Fractions(c) == {c % Unit, (c % Unit) - 1} \cap Nat

(* NaN fails both comparisons and its conversion to long may give anything. *)
Timevals(t) ==
    IF t = NaN
    THEN [sec : {-LongMax - 1, 0, LongMax}, frac : {-LongMax - 1, 0, LongMax}]
    ELSE {[sec |-> Clamped(t) \div Unit, frac |-> f] : f \in Fractions(Clamped(t))}

TimevalOf(t) == IF t = Null THEN {Null} ELSE Timevals(t)

SetTimeout ==
    /\ pc = "fill" /\ i = n + 1
    /\ tv' \in TimevalOf(timeout)
    /\ pc' = "wait"
    /\ UNCHANGED <<args, alive, i, array, heap, answer, result, out>>

(* SSL_poll fails. *)
PollThrows ==
    /\ pc = "wait"
    /\ FreeItems /\ Throw
    /\ UNCHANGED <<args, alive, i, array, tv, answer, result>>

(* SSL_poll waits until an item has one of the events it asks for, or for   *)
(* the timeout, and tells each item those of its own events.  What it finds *)
(* of a handle that is not alive any more may be anything.                  *)
SSL_poll ==
    /\ pc = "wait"
    /\ ready' \in [Handles -> SUBSET Events]
    /\ revents' = [j \in 1 .. Len(array) |-> array[j].events \cap ready'[array[j].desc]]
    /\ tv = Null => \E j \in 1 .. Len(array) : revents'[j] # {}
    /\ pc' = "map" /\ i' = 1
    /\ UNCHANGED <<args, alive, array, heap, tv, result, out>>

(* Mutant: the walk counts the ready items only. *)
IndexOfReady(j) ==
    1 + Len(SelectSeq(SubSeq(revents, 1, j - 1), LAMBDA r : r # {}))

(* poll_items[i] lines up with the i-th key. *)
Index(j) == j

MapResult ==
    /\ pc = "map" /\ i <= n
    /\ LET r == revents[Index(i)]
       IN  result' = IF r = {} THEN result
                     ELSE [k \in DOMAIN result \cup {Key(i)} |->
                              IF k = Key(i) THEN r ELSE result[k]]
    /\ i' = i + 1
    /\ UNCHANGED <<args, alive, pc, array, heap, tv, answer, out>>

Return ==
    /\ pc = "map" /\ i = n + 1
    /\ FreeItems
    /\ pc' = "done" /\ out' = "array"
    /\ UNCHANGED <<args, alive, i, array, tv, answer, result>>

Next ==
    \/ Quic_poll
    \/ FillNotArray \/ FillShort \/ FillNotLive \/ Fill
    \/ SetTimeout \/ PollThrows \/ SSL_poll
    \/ MapResult \/ Return

Spec == Init /\ [][Next]_vars

-----------------------------------------------------------------------------
(* Properties *)

(* The heap array is freed on every one of the six ways out, and is there   *)
(* exactly when the items do not fit the stack array until then.            *)
HeapBalanced ==
    heap = (pc \in {"fill", "wait", "map"} /\ n > StackItems)

(* What is returned is, key by key, the events that the caller asked for    *)
(* under that key and that were ready on the object under it, for every     *)
(* item with such an event and no other, one object under several keys with *)
(* different masks included; a call with a malformed item returns nothing.  *)
ResultByKey ==
    (pc = "done" /\ out = "array") =>
        LET ev(j) == items[j].events \cap ready[items[j].obj]
            some == {j \in 1 .. n : ev(j) # {}}
        IN  /\ \A j \in 1 .. n : items[j].form = "pair"
            /\ DOMAIN result = {Key(j) : j \in some}
            /\ \A j \in some : result[Key(j)] = ev(j)

(* An item is checked when it is copied and used when SSL_poll runs.  It is *)
(* waited on although its SSL object is gone only if its own $events, or    *)
(* that of a later item, had to be converted: code that ran for an earlier  *)
(* item has been answered for by the check.                                 *)
StaleOnlyByConversion ==
    pc = "wait" =>
        \A j \in 1 .. n :
            array[j].desc \in alive \/ \E k \in j .. n : items[k].converts

(* The timeval is well formed, fits its fields, and asks SSL_poll to wait   *)
(* as long as the caller said or a microsecond less, up to the limit and    *)
(* never longer; a whole number of seconds, zero above all, is exact.  NaN, *)
(* which passes both clamps, is the exception.                              *)
TimevalNeverLonger ==
    (pc = "wait" /\ timeout \notin {Null, NaN}) =>
        LET total == tv.sec * Unit + tv.frac
        IN  /\ tv.sec \in 0 .. LongMax /\ tv.frac \in 0 .. Unit - 1
            /\ timeout <= 0 => total = 0
            /\ timeout \in 0 .. Limit * Unit => total \in {timeout - 1, timeout}
            /\ timeout \in 0 .. Limit * Unit /\ timeout % Unit = 0 => total = timeout
            /\ timeout > Limit * Unit => total = Limit * Unit
=============================================================================
