------------------------------ MODULE QuicObjects ------------------------------
(***************************************************************************)
(* Lifetimes of the extension's PHP objects (Quic\Listener,                *)
(* Quic\Connection, Quic\Stream and the php_stream resources made by       *)
(* Stream::asStream()), of the OpenSSL QUIC engines behind them and of the *)
(* UDP descriptors they use.                                               *)
(*                                                                         *)
(* An engine is shared: a Listener, the Connections it accepted and their  *)
(* Streams each hold an SSL object on the same engine, which OpenSSL keeps *)
(* until the last of these is freed.  A descriptor is not: the object that *)
(* opened it closes it (every datagram BIO is BIO_NOCLOSE).  An accepted   *)
(* Connection only borrows its listener's descriptor number.               *)
(*                                                                         *)
(* The Zend engine is external.  It destroys an object when its last       *)
(* reference goes, it collects garbage cycles (all the objects that only a *)
(* cycle keeps alive, in no order the extension controls), and at the end  *)
(* of a request it closes the resources and then frees whatever is left.   *)
(***************************************************************************)

CONSTANTS
    Listeners, Connections, Streams,    \* handles of the PHP objects
    Resources,                          \* php_stream resources
    Engines,                            \* OpenSSL QUIC engines
    Fds,                                \* descriptor numbers of the process
    None                                \* NULL, -1 or UNDEF, as the field has it

Objects == Listeners \cup Connections \cup Streams

ASSUME ObjectsDisjoint ==
    /\ Listeners \cap Connections = {}
    /\ Listeners \cap Streams = {}
    /\ Connections \cap Streams = {}

ASSUME NoneAssumption == None \notin (Objects \cup Engines \cup Fds)

VARIABLES
    listener,    \* php_quic_listener of each handle
    connection,  \* php_quic_connection of each handle
    stream,      \* php_quic_stream of each handle
    resource,    \* the abstract pointer of each php_stream resource
    live,        \* handles of the allocated objects
    rooted,      \* objects a userland variable still refers to
    cyclic,      \* objects referred to from a garbage cycle of userland values
    doomed,      \* objects whose free_obj handler is about to run
    request,     \* "running", or "shutdown" once the script has ended
    bio,         \* the descriptor an engine's datagram BIO does its I/O on
    sock         \* the engine the socket open at a descriptor was made for

vars == <<listener, connection, stream, resource, live, rooted, cyclic,
          doomed, request, bio, sock>>

-----------------------------------------------------------------------------
(* What the create_object handlers leave in a fresh object. *)

quic_listener_create == [ssl |-> None, fd |-> None]

quic_connection_create ==
    [ssl |-> None, fd |-> None, owns_fd |-> FALSE, closed |-> FALSE,
     listener |-> None]

quic_stream_create == [ssl |-> None, connection |-> None]

(* OpenSSL: an engine lives as long as an SSL object refers to it. *)
EngineAlive(e) ==
    \/ \E l \in Listeners : listener[l].ssl = e
    \/ \E c \in Connections : connection[c].ssl = e
    \/ \E s \in Streams : stream[s].ssl = e

(* Mutant: asStream() without its GC_ADDREF. *)
HeldByResourceNot(o) == FALSE

(* asStream()'s GC_ADDREF, for as long as the resource is open. *)
HeldByResource(o) == \E r \in Resources : resource[r] = o

(* Mutant: a Stream that borrows its Connection's zval without ZVAL_COPY. *)
HeldByStreamNot(o) == FALSE

(* The ZVAL_COPY of the Connection into a Stream. *)
HeldByStream(o) == \E s \in Streams : stream[s].connection = o

(* The ZVAL_COPY of the Listener into an accepted Connection. *)
HeldByConnection(o) == \E c \in Connections : connection[c].listener = o

(* Zend: some reference keeps the object's count above zero. *)
Referenced(o) ==
    \/ o \in rooted
    \/ o \in cyclic
    \/ HeldByResource(o)
    \/ HeldByStream(o)
    \/ HeldByConnection(o)

(* The references the get_gc handlers report to the cycle collector. *)
quic_stream_get_gc(ss) == {stream[s].connection : s \in ss}
quic_connection_get_gc(cs) == {connection[c].listener : c \in cs}

(* Zend: what the collector finds referenced from outside the garbage. *)
Reachable ==
    LET held == rooted \cup {resource[r] : r \in Resources}
        cs   == Connections \cap (held \cup quic_stream_get_gc(Streams \cap held))
    IN  held \cup cs \cup quic_connection_get_gc(cs)

(* Userland code runs only between two destructions and before shutdown. *)
Idle == doomed = {} /\ request = "running"

(* A method runs on a new object or on one a variable refers to. *)
Callable(o) == o \notin live \/ o \in rooted

(* Mutant: a constructor that does not ask whether it already ran. *)
UnsetUnchecked(ssl) == TRUE

(* The constructors' check that the object has no SSL object yet. *)
Unset(ssl) == ssl = None

(* socket() and a BIO_NOCLOSE datagram BIO on it, for a new engine. *)
OpenSocket(f, e) ==
    /\ sock[f] = None
    /\ ~EngineAlive(e)
    /\ sock' = [sock EXCEPT ![f] = e]
    /\ bio' = [bio EXCEPT ![e] = f]

(* Mutant: the descriptor is left to the BIO, which is BIO_NOCLOSE. *)
CloseSocketLeft(f) == UNCHANGED sock

(* BIO_closesocket, when the descriptor is there to close. *)
CloseSocket(f) ==
    sock' = IF f = None THEN sock ELSE [sock EXCEPT ![f] = None]

(* SSL_free: the engine goes, and its BIO with it, after the last SSL. *)
SSL_free ==
    bio' = [e \in Engines |-> IF EngineAlive(e)' THEN bio[e] ELSE None]

(* Zend: the object dies with its last reference. *)
Unreferenced(o) == {x \in live : x = o /\ ~Referenced(x)'}

(* Mutant: a zval released although its object was freed before. *)
ReleaseZvalTwice(o) == {x \in Objects : x = o /\ ~Referenced(x)'}

(* Mutant: a free handler that forgets the zval it holds. *)
ReleaseZvalKept(o) == {}

(* The free handlers' zval_ptr_dtor of what they hold, if they hold it. *)
ReleaseZval(o) == Unreferenced(o)

NewReference(o) == live' = live \cup {o} /\ rooted' = rooted \cup {o}

-----------------------------------------------------------------------------
Init ==
    /\ listener = [l \in Listeners |-> quic_listener_create]
    /\ connection = [c \in Connections |-> quic_connection_create]
    /\ stream = [s \in Streams |-> quic_stream_create]
    /\ resource = [r \in Resources |-> None]
    /\ live = {} /\ rooted = {} /\ cyclic = {} /\ doomed = {}
    /\ request = "running"
    /\ bio = [e \in Engines |-> None]
    /\ sock = [f \in Fds |-> None]

-----------------------------------------------------------------------------
(* Quic\Listener *)

(* A closed listener may be given a second life by calling __construct again. *)
Listener_construct(l, e, f) ==
    /\ Idle
    /\ Callable(l)
    /\ Unset(listener[l].ssl)
    /\ OpenSocket(f, e)
    /\ listener' = [listener EXCEPT ![l] = [ssl |-> e, fd |-> f]]
    /\ NewReference(l)
    /\ UNCHANGED <<connection, stream, resource, cyclic, doomed, request>>

(* Mutant: accept() hands the listener's descriptor over instead of lending it. *)
InitObjectOwning(c, l) ==
    connection' = [connection EXCEPT ![c] =
                      [ssl |-> listener[l].ssl, fd |-> listener[l].fd,
                       owns_fd |-> TRUE, closed |-> FALSE, listener |-> l]]

php_quic_connection_init_object(c, l) ==
    connection' = [connection EXCEPT ![c] =
                      [ssl |-> listener[l].ssl, fd |-> listener[l].fd,
                       owns_fd |-> FALSE, closed |-> FALSE, listener |-> l]]

Listener_accept(l, c) ==
    /\ Idle
    /\ l \in rooted /\ listener[l].ssl # None
    /\ c \notin live
    /\ php_quic_connection_init_object(c, l)
    /\ NewReference(c)
    /\ UNCHANGED <<listener, stream, resource, cyclic, doomed, request, bio, sock>>

quic_listener_release(l) ==
    /\ listener' = [listener EXCEPT ![l] = quic_listener_create]
    /\ CloseSocket(listener[l].fd)
    /\ UNCHANGED <<connection, stream>>
    /\ SSL_free

Listener_close(l) ==
    /\ Idle
    /\ l \in rooted
    /\ quic_listener_release(l)
    /\ UNCHANGED <<resource, live, rooted, cyclic, doomed, request>>

quic_listener_free(l) ==
    /\ l \in doomed
    /\ quic_listener_release(l)
    /\ live' = live \ {l}
    /\ doomed' = doomed \ {l}
    /\ UNCHANGED <<resource, rooted, cyclic, request>>

-----------------------------------------------------------------------------
(* Quic\Connection *)

Connection_construct(c, e, f) ==
    /\ Idle
    /\ Callable(c)
    /\ Unset(connection[c].ssl)
    /\ OpenSocket(f, e)
    /\ connection' = [connection EXCEPT ![c] =
                         [ssl |-> e, fd |-> f, owns_fd |-> TRUE,
                          closed |-> FALSE, listener |-> None]]
    /\ NewReference(c)
    /\ UNCHANGED <<listener, stream, resource, cyclic, doomed, request>>

php_quic_stream_init_object(s, c) ==
    stream' = [stream EXCEPT ![s] = [ssl |-> connection[c].ssl, connection |-> c]]

(* OpenSSL refuses a new stream on a connection that is shutting down. *)
Connection_openStream(c, s) ==
    /\ Idle
    /\ c \in rooted /\ connection[c].ssl # None /\ ~connection[c].closed
    /\ s \notin live
    /\ php_quic_stream_init_object(s, c)
    /\ NewReference(s)
    /\ UNCHANGED <<listener, connection, resource, cyclic, doomed, request, bio, sock>>

Connection_acceptStream(c, s) ==
    /\ Idle
    /\ c \in rooted /\ connection[c].ssl # None
    /\ s \notin live
    /\ php_quic_stream_init_object(s, c)
    /\ NewReference(s)
    /\ UNCHANGED <<listener, connection, resource, cyclic, doomed, request, bio, sock>>

Connection_close(c) ==
    /\ Idle
    /\ c \in rooted
    /\ connection[c].ssl # None /\ ~connection[c].closed
    /\ connection' = [connection EXCEPT ![c].closed = TRUE]
    /\ UNCHANGED <<listener, stream, resource, live, rooted, cyclic, doomed,
                   request, bio, sock>>

(* Mutant: the descriptor is closed whether it is owned or borrowed. *)
AnyFd(c) == connection[c].fd

(* Accepted connections borrow the listener's socket and must not close it. *)
OwnedFd(c) == IF connection[c].owns_fd THEN connection[c].fd ELSE None

quic_connection_free(c) ==
    /\ c \in doomed
    /\ connection' = [connection EXCEPT ![c] = quic_connection_create]
    /\ CloseSocket(OwnedFd(c))
    /\ UNCHANGED <<listener, stream, resource, rooted, cyclic, request>>
    /\ SSL_free
    /\ live' = live \ {c}
    /\ doomed' = (doomed \ {c}) \cup ReleaseZval(connection[c].listener)

-----------------------------------------------------------------------------
(* Quic\Stream and its php_stream wrapper *)

Stream_construct(s, c) ==
    /\ Idle
    /\ Callable(s)
    /\ Unset(stream[s].ssl)
    /\ c \in rooted /\ connection[c].ssl # None /\ ~connection[c].closed
    /\ php_quic_stream_init_object(s, c)
    /\ NewReference(s)
    /\ UNCHANGED <<listener, connection, resource, cyclic, doomed, request, bio, sock>>

Stream_getConnection(s) ==
    /\ Idle
    /\ s \in rooted
    /\ stream[s].connection # None
    /\ rooted' = rooted \cup {stream[s].connection}
    /\ UNCHANGED <<listener, connection, stream, resource, live, cyclic, doomed,
                   request, bio, sock>>

Stream_asStream(s, r) ==
    /\ Idle
    /\ s \in rooted
    /\ stream[s].ssl # None
    /\ resource[r] = None
    /\ resource' = [resource EXCEPT ![r] = s]
    /\ UNCHANGED <<listener, connection, stream, live, rooted, cyclic, doomed,
                   request, bio, sock>>

(* fclose(), the last reference to the resource, or the end of the request. *)
quic_stream_op_close(r) ==
    /\ doomed = {}
    /\ resource[r] # None
    /\ resource' = [resource EXCEPT ![r] = None]
    /\ UNCHANGED <<listener, connection, stream, live, rooted, cyclic, request,
                   bio, sock>>
    /\ doomed' = Unreferenced(resource[r])

quic_stream_free(s) ==
    /\ s \in doomed
    /\ stream' = [stream EXCEPT ![s] = quic_stream_create]
    /\ UNCHANGED <<listener, connection, resource, rooted, cyclic, request, sock>>
    /\ SSL_free
    /\ live' = live \ {s}
    /\ doomed' = (doomed \ {s}) \cup ReleaseZval(stream[s].connection)

-----------------------------------------------------------------------------
(* The Zend engine and userland *)

(* unset($o), the variable goes out of scope, or the request ends. *)
DropVariable(o) ==
    /\ doomed = {}
    /\ o \in rooted
    /\ rooted' = rooted \ {o}
    /\ UNCHANGED <<listener, connection, stream, resource, live, cyclic,
                   request, bio, sock>>
    /\ doomed' = Unreferenced(o)

(* The last variable is a field of userland values that refer to each other. *)
DropIntoCycle(o) ==
    /\ Idle
    /\ o \in rooted
    /\ rooted' = rooted \ {o}
    /\ cyclic' = cyclic \cup {o}
    /\ UNCHANGED <<listener, connection, stream, resource, live, doomed,
                   request, bio, sock>>

CollectCycles ==
    /\ Idle
    /\ cyclic # {}
    /\ cyclic' = {}
    /\ doomed' = live \ Reachable
    /\ UNCHANGED <<listener, connection, stream, resource, live, rooted,
                   request, bio, sock>>

RequestShutdown ==
    /\ Idle
    /\ request' = "shutdown"
    /\ UNCHANGED <<listener, connection, stream, resource, live, rooted, cyclic,
                   doomed, bio, sock>>

(* Once the variables and resources are gone, frees every object that is    *)
(* still in the store, whatever its reference count.                        *)
FreeObjectStorage ==
    /\ request = "shutdown" /\ doomed = {}
    /\ rooted = {}
    /\ \A r \in Resources : resource[r] = None
    /\ live # {}
    /\ doomed' = live
    /\ cyclic' = {}
    /\ UNCHANGED <<listener, connection, stream, resource, live, rooted, request,
                   bio, sock>>

(* The worker process serves another request. *)
NewRequest ==
    /\ request = "shutdown" /\ live = {}
    /\ request' = "running"
    /\ UNCHANGED <<listener, connection, stream, resource, live, rooted, cyclic,
                   doomed, bio, sock>>

-----------------------------------------------------------------------------
FreeObject ==
    \/ \E s \in Streams : quic_stream_free(s)
    \/ \E c \in Connections : quic_connection_free(c)
    \/ \E l \in Listeners : quic_listener_free(l)

Userland ==
    \/ \E l \in Listeners, e \in Engines, f \in Fds : Listener_construct(l, e, f)
    \/ \E l \in Listeners, c \in Connections : Listener_accept(l, c)
    \/ \E l \in Listeners : Listener_close(l)
    \/ \E c \in Connections, e \in Engines, f \in Fds : Connection_construct(c, e, f)
    \/ \E c \in Connections, s \in Streams : Connection_openStream(c, s)
    \/ \E c \in Connections, s \in Streams : Connection_acceptStream(c, s)
    \/ \E c \in Connections : Connection_close(c)
    \/ \E s \in Streams, c \in Connections : Stream_construct(s, c)
    \/ \E s \in Streams : Stream_getConnection(s)
    \/ \E s \in Streams, r \in Resources : Stream_asStream(s, r)
    \/ \E o \in Objects : DropIntoCycle(o)

DropReference ==
    \/ \E o \in Objects : DropVariable(o)
    \/ \E r \in Resources : quic_stream_op_close(r)

Next ==
    \/ Userland
    \/ DropReference
    \/ FreeObject
    \/ CollectCycles
    \/ RequestShutdown
    \/ FreeObjectStorage
    \/ NewRequest

Spec == Init /\ [][Next]_vars

(* The engine that destroys objects is a sequential loop that never waits. *)
FairSpec ==
    /\ Spec
    /\ WF_vars(FreeObject)
    /\ WF_vars(request = "shutdown" /\ DropReference)
    /\ WF_vars(FreeObjectStorage)

-----------------------------------------------------------------------------
(* Properties *)

ListenerRecord == [ssl : Engines \cup {None}, fd : Fds \cup {None}]

ConnectionRecord ==
    [ssl : Engines \cup {None}, fd : Fds \cup {None}, owns_fd : BOOLEAN,
     closed : BOOLEAN, listener : Listeners \cup {None}]

StreamRecord == [ssl : Engines \cup {None}, connection : Connections \cup {None}]

(* The fields hold what their C types and comments say (php_quic.h). *)
TypeOK ==
    /\ listener \in [Listeners -> ListenerRecord]
    /\ connection \in [Connections -> ConnectionRecord]
    /\ stream \in [Streams -> StreamRecord]
    /\ resource \in [Resources -> Streams \cup {None}]
    /\ live \in SUBSET Objects
    /\ rooted \in SUBSET Objects
    /\ cyclic \in SUBSET Objects
    /\ doomed \in SUBSET live
    /\ request \in {"running", "shutdown"}
    /\ bio \in [Engines -> Fds \cup {None}]
    /\ sock \in [Fds -> Engines \cup {None}]

Surviving == live \ doomed

(* Nothing that survives refers to an object that is freed or being freed:  *)
(* a resource's Stream, a Stream's Connection, a Connection's Listener and  *)
(* whatever userland still holds stay allocated (asStream()'s GC_ADDREF and *)
(* the ZVAL_COPYs of the init_object functions).                            *)
NoDanglingReference ==
    /\ rooted \cup cyclic \subseteq Surviving
    /\ \A r \in Resources : resource[r] # None => resource[r] \in Surviving
    /\ \A s \in Streams \cap Surviving : stream[s].connection \in Surviving
    /\ \A c \in Connections \cap Surviving :
          connection[c].listener # None => connection[c].listener \in Surviving

(* The counts balance: an object that nothing refers to any more is being   *)
(* destroyed, and does not wait for the end of the request with its engine  *)
(* and its descriptor (each free handler releases the zval it copied).      *)
NothingForgotten == \A o \in live : Referenced(o) \/ o \in doomed

OwnsSocket(o, f) ==
    \/ o \in Listeners /\ listener[o].fd = f
    \/ o \in Connections /\ connection[o].owns_fd /\ connection[o].fd = f

SSLOf(o) == IF o \in Listeners THEN listener[o].ssl ELSE connection[o].ssl

(* Every open descriptor has exactly one object that will close it, the one *)
(* whose engine uses it, and no object believes it owns a closed one: no    *)
(* descriptor is leaked, and none is closed twice (which would close        *)
(* whatever the process has since opened under that number).                *)
DescriptorOwnedOnce ==
    \A f \in Fds :
        IF sock[f] = None
        THEN \A o \in Objects : ~OwnsSocket(o, f)
        ELSE \E o \in Objects :
                /\ OwnsSocket(o, f)
                /\ SSLOf(o) = sock[f]
                /\ \A p \in Objects : OwnsSocket(p, f) => p = o

(* A Connection that opened its socket, or whose Listener still listens on  *)
(* the engine it was accepted from, reports by getFd() the descriptor its   *)
(* engine does I/O on, and the socket there is still that engine's.         *)
FdIsEngineSocket ==
    \A c \in Connections \cap live :
        LET conn == connection[c]
            listens == \E l \in Listeners : conn.listener = l /\ listener[l].ssl = conn.ssl
        IN  (conn.owns_fd \/ listens)
               => bio[conn.ssl] = conn.fd /\ sock[conn.fd] = conn.ssl

(* A Stream that survives runs on the engine of the Connection that         *)
(* getConnection() returns, and that engine has not been shut away by the   *)
(* destruction of the Connection's own SSL object.                          *)
StreamOnItsConnection ==
    \A s \in Streams \cap Surviving :
        /\ stream[s].ssl # None
        /\ connection[stream[s].connection].ssl = stream[s].ssl

(* The end of a request closes every descriptor and ends every engine,      *)
(* whatever references and cycles the script left behind.                   *)
ShutdownReleasesAll ==
    request = "shutdown" ~>
        /\ \A f \in Fds : sock[f] = None
        /\ \A e \in Engines : ~EngineAlive(e)

(* The descriptor an object closes when it is released or freed. *)
DescriptorOf(o) == IF o \in Listeners THEN listener[o].fd ELSE OwnedFd(o)

Table ==
    INSTANCE DescriptorTable
        WITH Owners <- Listeners \cup Connections,
             open   <- {f \in Fds : sock[f] # None},
             holder <- [o \in Listeners \cup Connections |-> DescriptorOf(o)]

(* Constructors, accept(), close(), the free handlers and the end of a      *)
(* request use descriptors as DescriptorTable allows: whoever opened one    *)
(* closes it, once, and an accepted Connection takes no part in it.         *)
ImplementsTable == Table!Spec

-----------------------------------------------------------------------------
(* A statement of the repository that the code does not keep. *)

(* quic.stub.php:353: Listener::close() is safe to call with connections    *)
(* still open.  If it is, their engine never does I/O on a socket that the  *)
(* process opened for something else.                                       *)
EngineNeverOnForeignSocket ==
    \A e \in Engines : EngineAlive(e) => sock[bio[e]] \in {e, None}
=============================================================================
