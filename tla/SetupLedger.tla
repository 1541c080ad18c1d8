----------------------------- MODULE SetupLedger -----------------------------
(***************************************************************************)
(* What the two constructors that open a socket have in common: C locals   *)
(* that hold what was allocated so far, a reference-counted SSL_CTX, and a *)
(* cleanup label that tests each local before it frees it.                 *)
(***************************************************************************)
EXTENDS Naturals

Things == {"alpn", "adata", "res", "peer", "sock", "ctx", "ssl"}

VARIABLES
    pc,         \* next statement
    addrs,      \* resolved addresses that have not been tried yet
    locals,     \* C locals that are not NULL / -1
    alloc,      \* what is really allocated (the SSL_CTX: while referenced)
    ctxRefs,    \* references to the SSL_CTX
    bio,        \* the SSL object does its I/O on the socket
    object      \* fields of the PHP object that are not NULL / -1

held == <<locals, alloc, ctxRefs, bio>>

(* The listener's ALPN data owns the encoded string inside it. *)
Parts(x) == IF x = "adata" THEN {"adata", "alpn"} ELSE {x}

Goto(label) == pc' = label

Allocate(x) == alloc' = alloc \cup {x} /\ locals' = locals \cup {x}

(* A call that fails leads to the cleanup label and changes nothing else. *)
Fails == Goto("alpn") /\ UNCHANGED <<addrs, held>>

(* Freeing the SSL object drops the reference it holds on the SSL_CTX. *)
CtxRefsDropped(x, set) ==
    IF x \in {"ctx", "ssl"} /\ x \in set THEN 1 ELSE 0

(* Frees x when the local or field is set; the SSL_CTX goes with its last   *)
(* reference, the BIO with the SSL object.                                  *)
FreeIfSet(x, set) ==
    LET left == ctxRefs - CtxRefsDropped(x, set)
        gone == (IF x \in set THEN Parts(x) \ {"ctx"} ELSE {})
                    \cup (IF left = 0 THEN {"ctx"} ELSE {})
    IN  /\ ctxRefs' = left
        /\ alloc' = alloc \ gone
        /\ bio' = (bio /\ "ssl" \notin gone)

(* Every pointer that is not NULL, and every descriptor that is not -1,     *)
(* refers to something that has not been freed.  As the code frees only     *)
(* what it finds set, nothing is freed twice.                               *)
PointersAlive == \A x \in locals \cup object : Parts(x) \subseteq alloc

(* While the SSL object exists the descriptor of its BIO is open, in        *)
(* particular when SSL_free() tears the engine down.                        *)
BioSocketOpen == bio => {"ssl", "sock"} \subseteq alloc

(* At every statement of the constructors, their cleanup and the release:   *)
(* no pointer to something freed, no BIO on a closed descriptor, and an     *)
(* SSL_CTX that exists exactly while it is referenced.                      *)
LedgerSound ==
    /\ PointersAlive
    /\ BioSocketOpen
    /\ ctxRefs \in Nat /\ ("ctx" \in alloc <=> ctxRefs > 0)
=============================================================================
