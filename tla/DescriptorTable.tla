---------------------------- MODULE DescriptorTable ----------------------------
(***************************************************************************)
(* How the extension's objects may use descriptors: the object that opened *)
(* one is the only one that closes it, once, and never passes it on.       *)
(***************************************************************************)

CONSTANTS
    Owners,     \* objects that may open a descriptor
    Fds,        \* descriptor numbers
    None

VARIABLES
    open,       \* descriptors that are open
    holder      \* the descriptor each object is going to close, or None

tableVars == <<open, holder>>

Init == open = {} /\ holder = [o \in Owners |-> None]

Acquire(o, f) ==
    /\ holder[o] = None /\ f \notin open
    /\ open' = open \cup {f}
    /\ holder' = [holder EXCEPT ![o] = f]

Release(o) ==
    /\ holder[o] \in open
    /\ open' = open \ {holder[o]}
    /\ holder' = [holder EXCEPT ![o] = None]

Next ==
    \E o \in Owners : Release(o) \/ \E f \in Fds : Acquire(o, f)

Spec == Init /\ [][Next]_tableVars
=============================================================================
