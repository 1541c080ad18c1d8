---------------------------- MODULE ListenerSetup ----------------------------
(***************************************************************************)
(* Quic\Listener::__construct() and quic_listener_release(): one listener  *)
(* object that is bound, closed and bound again, with every call on the    *)
(* way that may fail.  The ALPN list is owned by the local `alpn' first,   *)
(* then by the callback data, then by the object.  (What the connections a *)
(* listener has accepted still share with it is QuicObjects' subject.)     *)
(***************************************************************************)
EXTENDS SetupLedger

CONSTANT MaxAddrs   \* bound: addresses the bind address resolves to

ASSUME MaxAddrsAssumption == MaxAddrs \in Nat \ {0}

VARIABLES
    SO_REUSEPORT, \* whether the platform has it
    reuse_port, \* the option of this call
    listens     \* the engine accepts handshakes, and so runs the ALPN callback

options == <<SO_REUSEPORT, reuse_port>>

vars == <<pc, addrs, held, object, options, listens>>

Init ==
    /\ pc = "idle" /\ addrs = 0
    /\ locals = {} /\ alloc = {} /\ ctxRefs = 0 /\ bio = FALSE
    /\ object = {} /\ listens = FALSE
    /\ SO_REUSEPORT \in BOOLEAN /\ reuse_port = FALSE

-----------------------------------------------------------------------------
(* Port, host, no alpn or a malformed one: thrown before anything is held.  *)
(* An object that already listens is refused too.  The check and the        *)
(* conversion of the options are one step: userland code that the           *)
(* conversion runs (__toString of an ALPN entry) is taken not to construct  *)
(* the same object once more.                                               *)
Arguments ==
    /\ pc = "idle"
    /\ "ssl" \notin object
    /\ reuse_port' \in BOOLEAN
    /\ Allocate("alpn")
    /\ Goto("lookup")
    /\ UNCHANGED <<SO_REUSEPORT, addrs, ctxRefs, bio, object, listens>>

(* php_quic_udp_server(): the resolver's list, or a failure. *)
Lookup ==
    /\ pc = "lookup"
    /\ \/ Goto("returned") /\ UNCHANGED <<addrs, alloc>>
       \/ /\ Goto("socket")
          /\ addrs' \in 1 .. MaxAddrs
          /\ alloc' = alloc \cup {"res"}
    /\ UNCHANGED <<locals, ctxRefs, bio, object, options, listens>>

(* socket() for the next address: a failure leaves it for the one after. *)
Socket ==
    /\ pc = "socket"
    /\ \/ addrs > 0 /\ addrs' = addrs - 1 /\ UNCHANGED <<pc, alloc, locals>>
       \/ addrs > 0 /\ Allocate("sock") /\ Goto("bind") /\ UNCHANGED addrs
       \/ /\ addrs = 0
          /\ alloc' = alloc \ {"res"} /\ Goto("returned")
          /\ UNCHANGED <<addrs, locals>>
    /\ UNCHANGED <<ctxRefs, bio, object, options, listens>>

(* Mutant: after a failed option, bind or fcntl the socket stays open. *)
CloseTriedLeft == alloc

(* BIO_closesocket(sock) before the next address is tried. *)
CloseTried == alloc \ {"sock"}

(* setsockopt, bind() and non-blocking mode may each fail and leave it to   *)
(* the next address; without SO_REUSEPORT the option ends the search.       *)
Bind ==
    LET Unsupported == reuse_port /\ ~SO_REUSEPORT
    IN  /\ pc = "bind"
        /\ \/ /\ ~Unsupported
              /\ alloc' = alloc \ {"res"}
              /\ Goto("returned") /\ UNCHANGED <<addrs, locals>>
           \/ /\ ~Unsupported
              /\ alloc' = CloseTried /\ locals' = locals \ {"sock"}
              /\ addrs' = addrs - 1
              /\ Goto("socket")
           \/ /\ Unsupported
              /\ alloc' = CloseTried \ {"res"} /\ locals' = locals \ {"sock"}
              /\ Goto("returned") /\ UNCHANGED addrs
        /\ UNCHANGED <<ctxRefs, bio, object, options, listens>>

(* Back in the constructor: fd == -1 is thrown without the cleanup label. *)
UdpReturned ==
    /\ pc = "returned"
    /\ addrs' = 0
    /\ IF "sock" \in locals
       THEN Goto("ctx_new") /\ UNCHANGED <<alloc, locals>>
       ELSE Goto("idle") /\ alloc' = alloc \ {"alpn"} /\ locals' = {}
    /\ UNCHANGED <<ctxRefs, bio, object, options, listens>>

CtxNew ==
    /\ pc = "ctx_new"
    /\ \/ Fails
       \/ Allocate("ctx") /\ ctxRefs' = 1 /\ Goto("configure") /\ UNCHANGED <<addrs, bio>>
    /\ UNCHANGED <<object, options, listens>>

(* Mutant: the local `alpn' still points at the string it handed over. *)
AlpnMovedKept == locals \cup {"adata"}

(* alpn = NULL: the callback data owns the string now. *)
AlpnMoved == (locals \cup {"adata"}) \ {"alpn"}

(* php_quic_configure_ctx(), then the ALPN data and its callback. *)
Configure ==
    /\ pc = "configure"
    /\ \/ Fails
       \/ /\ alloc' = alloc \cup {"adata"} /\ locals' = AlpnMoved
          /\ Goto("new_listener") /\ UNCHANGED <<addrs, ctxRefs, bio>>
    /\ UNCHANGED <<object, options, listens>>

(* The SSL object takes a reference on the SSL_CTX; the listener keeps its. *)
NewListener ==
    /\ pc = "new_listener"
    /\ \/ Fails
       \/ Allocate("ssl") /\ ctxRefs' = ctxRefs + 1 /\ Goto("bio_new") /\ UNCHANGED <<addrs, bio>>
    /\ UNCHANGED <<object, options, listens>>

BioNew ==
    /\ pc = "bio_new"
    /\ \/ Fails
       \/ bio' = TRUE /\ Goto("listen") /\ UNCHANGED <<addrs, locals, alloc, ctxRefs>>
    /\ UNCHANGED <<object, options, listens>>

(* SSL_listen, and what the locals hold moves into the object. *)
Listen ==
    /\ pc = "listen"
    /\ \/ Fails /\ UNCHANGED <<object, listens>>
       \/ /\ listens' = TRUE
          /\ object' = locals /\ locals' = {}
          /\ Goto("idle") /\ UNCHANGED <<addrs, alloc, ctxRefs, bio>>
    /\ UNCHANGED options

-----------------------------------------------------------------------------
(* The order of the cleanup label. *)
CleanupNext(x) ==
    [alpn |-> "adata", adata |-> "ssl", ssl |-> "ctx", ctx |-> "sock", sock |-> "idle"][x]

Cleanup(x) ==
    /\ pc = x
    /\ FreeIfSet(x, locals)
    /\ locals' = locals \ {x}
    /\ Goto(CleanupNext(x))
    /\ UNCHANGED <<addrs, object, options, listens>>

(* Listener::close(), or the object's free handler; on a closed or unbound  *)
(* listener too.                                                            *)
Close ==
    /\ pc = "idle"
    /\ Goto("free_ssl")
    /\ UNCHANGED <<addrs, held, object, options, listens>>

(* Mutant: the ALPN data goes first. *)
ReleaseOrderAlpnFirst == <<"adata", "ssl", "sock", "ctx">>

(* The order of quic_listener_release(). *)
ReleaseOrder == <<"ssl", "sock", "ctx", "adata">>

ReleaseStep == [free_ssl |-> 1, free_fd |-> 2, free_ctx |-> 3, free_alpn |-> 4]

ReleaseNext == [free_ssl |-> "free_fd", free_fd |-> "free_ctx",
                free_ctx |-> "free_alpn", free_alpn |-> "idle"]

quic_listener_release ==
    /\ pc \in DOMAIN ReleaseStep
    /\ LET x == ReleaseOrder[ReleaseStep[pc]]
       IN  /\ FreeIfSet(x, object)
           /\ object' = object \ {x}
           /\ listens' = (listens /\ x # "ssl")
    /\ Goto(ReleaseNext[pc])
    /\ UNCHANGED <<addrs, locals, options>>

Next ==
    \/ Arguments \/ Lookup \/ Socket \/ Bind \/ UdpReturned
    \/ CtxNew \/ Configure \/ NewListener \/ BioNew \/ Listen
    \/ \E x \in {"alpn", "adata", "ssl", "ctx", "sock"} : Cleanup(x)
    \/ Close \/ quic_listener_release

Spec == Init /\ [][Next]_vars

-----------------------------------------------------------------------------
(* Properties *)

(* Between calls a listener holds all that listening takes or nothing:      *)
(* neither a constructor that throws at any of its calls, nor close(), nor  *)
(* any number of either one after the other, leaves a socket, a context or  *)
(* a string behind.                                                         *)
AllOrNothing ==
    pc = "idle" =>
        \/ /\ object = {"ssl", "ctx", "sock", "adata"}
           /\ alloc = object \cup {"alpn"} /\ ctxRefs = 2 /\ bio /\ listens
        \/ object = {} /\ alloc = {} /\ ctxRefs = 0 /\ ~listens

(* As long as the engine takes handshakes, the data its ALPN callback reads *)
(* is allocated.                                                            *)
AlpnWhileListening == listens => {"ctx", "adata", "alpn"} \subseteq alloc
=============================================================================
