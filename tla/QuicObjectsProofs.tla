-------------------------- MODULE QuicObjectsProofs --------------------------
(***************************************************************************)
(* Proofs about QuicObjects for any number of objects, resources, engines  *)
(* and descriptors.                                                        *)
(***************************************************************************)
EXTENDS QuicObjects, TLAPS

(* The fields of every object have the types php_quic.h gives them, and the *)
(* handlers never queue a freed object for destruction.                     *)
THEOREM TypeCorrect == Spec => []TypeOK
<1>1. Init => TypeOK
  BY DEF Init, TypeOK, quic_listener_create, quic_connection_create,
     quic_stream_create, ListenerRecord, ConnectionRecord, StreamRecord
<1>2. TypeOK /\ [Next]_vars => TypeOK'
  <2> SUFFICES ASSUME TypeOK, [Next]_vars PROVE TypeOK'
    OBVIOUS
  <2> USE DEF TypeOK
  <2>1. ASSUME NEW l \in Listeners, NEW e \in Engines, NEW f \in Fds,
               Listener_construct(l, e, f)
        PROVE  TypeOK'
    BY <2>1 DEF Listener_construct, OpenSocket, NewReference, ListenerRecord, Objects
  <2>2. ASSUME NEW l \in Listeners, NEW c \in Connections, Listener_accept(l, c)
        PROVE  TypeOK'
    BY <2>2 DEF Listener_accept, php_quic_connection_init_object, NewReference,
       ListenerRecord, ConnectionRecord, Objects
  <2>3. ASSUME NEW l \in Listeners, Listener_close(l)
        PROVE  TypeOK'
    BY <2>3 DEF Listener_close, quic_listener_release, quic_listener_create,
       CloseSocket, SSL_free, ListenerRecord
  <2>4. ASSUME NEW l \in Listeners, quic_listener_free(l)
        PROVE  TypeOK'
    BY <2>4 DEF quic_listener_free, quic_listener_release, quic_listener_create,
       CloseSocket, SSL_free, ListenerRecord
  <2>5. ASSUME NEW c \in Connections, NEW e \in Engines, NEW f \in Fds,
               Connection_construct(c, e, f)
        PROVE  TypeOK'
    BY <2>5 DEF Connection_construct, OpenSocket, NewReference, ConnectionRecord, Objects
  <2>6. ASSUME NEW c \in Connections, NEW s \in Streams,
               \/ Connection_openStream(c, s)
               \/ Connection_acceptStream(c, s)
               \/ Stream_construct(s, c)
        PROVE  TypeOK'
    BY <2>6 DEF Connection_openStream, Connection_acceptStream, Stream_construct,
       php_quic_stream_init_object, NewReference, StreamRecord, ConnectionRecord, Objects
  <2>7. ASSUME NEW c \in Connections, Connection_close(c)
        PROVE  TypeOK'
    BY <2>7 DEF Connection_close, ConnectionRecord
  <2>8. ASSUME NEW c \in Connections, quic_connection_free(c)
        PROVE  TypeOK'
    <3>1. connection[c].listener # c
      BY ObjectsDisjoint, NoneAssumption DEF ConnectionRecord, Objects
    <3>2. doomed' \in SUBSET live'
      BY <2>8, <3>1 DEF quic_connection_free, ReleaseZval, Unreferenced
    <3>3. connection' \in [Connections -> ConnectionRecord]
      BY <2>8 DEF quic_connection_free, quic_connection_create, ConnectionRecord
    <3>4. sock' \in [Fds -> Engines \cup {None}]
      BY <2>8 DEF quic_connection_free, CloseSocket, OwnedFd, ConnectionRecord
    <3> QED
      BY <2>8, <3>2, <3>3, <3>4 DEF quic_connection_free, SSL_free
  <2>9. ASSUME NEW s \in Streams, Stream_getConnection(s)
        PROVE  TypeOK'
    BY <2>9 DEF Stream_getConnection, StreamRecord, Objects
  <2>10. ASSUME NEW s \in Streams, NEW r \in Resources, Stream_asStream(s, r)
         PROVE  TypeOK'
    BY <2>10 DEF Stream_asStream
  <2>11. ASSUME NEW r \in Resources, quic_stream_op_close(r)
         PROVE  TypeOK'
    BY <2>11 DEF quic_stream_op_close, Unreferenced
  <2>12. ASSUME NEW s \in Streams, quic_stream_free(s)
         PROVE  TypeOK'
    <3>1. stream[s].connection # s
      BY ObjectsDisjoint, NoneAssumption DEF StreamRecord, Objects
    <3>2. doomed' \in SUBSET live'
      BY <2>12, <3>1 DEF quic_stream_free, ReleaseZval, Unreferenced
    <3>3. stream' \in [Streams -> StreamRecord]
      BY <2>12 DEF quic_stream_free, quic_stream_create, StreamRecord
    <3> QED
      BY <2>12, <3>2, <3>3 DEF quic_stream_free, SSL_free
  <2>13. ASSUME NEW o \in Objects, DropVariable(o) \/ DropIntoCycle(o)
         PROVE  TypeOK'
    BY <2>13 DEF DropVariable, DropIntoCycle, Unreferenced
  <2>14. ASSUME \/ CollectCycles \/ RequestShutdown
                \/ FreeObjectStorage \/ NewRequest
         PROVE  TypeOK'
    BY <2>14 DEF CollectCycles, RequestShutdown, FreeObjectStorage, NewRequest
  <2>15. CASE UNCHANGED vars
    BY <2>15 DEF vars
  <2> QED
    BY <2>1, <2>2, <2>3, <2>4, <2>5, <2>6, <2>7, <2>8, <2>9, <2>10, <2>11,
       <2>12, <2>13, <2>14, <2>15 DEF Next, Userland, DropReference, FreeObject
<1> QED
  BY <1>1, <1>2, PTL DEF Spec

-----------------------------------------------------------------------------
(* A reference that a step keeps or makes protects its target: dropping one *)
(* reference dooms an object only if no other is left.                      *)
LEMMA UnreferencedIsNot ==
    ASSUME NEW o, NEW x \in Unreferenced(o)
    PROVE  /\ x \in live /\ x = o
           /\ x \notin rooted' /\ x \notin cyclic'
           /\ \A r \in Resources : resource'[r] # x
           /\ \A s \in Streams : stream'[s].connection # x
           /\ \A c \in Connections : connection'[c].listener # x
  BY DEF Unreferenced, Referenced, HeldByResource, HeldByStream, HeldByConnection

(* What survives refers only to what survives: a resource's Stream, a       *)
(* Stream's Connection, a Connection's Listener.                            *)
THEOREM ReferencesStayAlive == Spec => []NoDanglingReference
<1>1. Init => NoDanglingReference
  BY DEF Init, NoDanglingReference, Surviving
<1>2. TypeOK /\ NoDanglingReference /\ [Next]_vars => NoDanglingReference'
  <2> SUFFICES ASSUME TypeOK, NoDanglingReference, [Next]_vars
               PROVE  NoDanglingReference'
    OBVIOUS
  <2> USE DEF NoDanglingReference, Surviving
  <2>a. /\ \A s \in Streams : stream[s].connection \in Connections \cup {None}
        /\ \A c \in Connections : connection[c].listener \in Listeners \cup {None}
        /\ \A r \in Resources : resource[r] \in Streams \cup {None}
        /\ stream \in [Streams -> StreamRecord]
        /\ connection \in [Connections -> ConnectionRecord]
        /\ resource \in [Resources -> Streams \cup {None}]
    BY DEF TypeOK, StreamRecord, ConnectionRecord
  <2>b. /\ \A s \in Streams : s \notin Connections /\ s \notin Listeners /\ s # None
        /\ \A c \in Connections : c \notin Listeners /\ c # None
        /\ \A l \in Listeners : l # None
        /\ None \notin live /\ doomed \subseteq live
    BY ObjectsDisjoint, NoneAssumption DEF Objects, TypeOK
  <2>1. ASSUME NEW l \in Listeners, NEW e \in Engines, NEW f \in Fds,
               Listener_construct(l, e, f)
        PROVE  NoDanglingReference'
    BY <2>1, <2>a, <2>b DEF Listener_construct, NewReference, Idle
  <2>2. ASSUME NEW l \in Listeners, NEW c \in Connections, Listener_accept(l, c)
        PROVE  NoDanglingReference'
    BY <2>2, <2>a, <2>b DEF Listener_accept, php_quic_connection_init_object,
       NewReference, Idle
  <2>3. ASSUME NEW l \in Listeners, Listener_close(l)
        PROVE  NoDanglingReference'
    BY <2>3 DEF Listener_close, quic_listener_release
  <2>4. ASSUME NEW l \in Listeners, quic_listener_free(l)
        PROVE  NoDanglingReference'
    BY <2>4, <2>b DEF quic_listener_free, quic_listener_release
  <2>5. ASSUME NEW c \in Connections, NEW e \in Engines, NEW f \in Fds,
               Connection_construct(c, e, f)
        PROVE  NoDanglingReference'
    BY <2>5, <2>a, <2>b DEF Connection_construct, NewReference, Idle
  <2>6. ASSUME NEW c \in Connections, NEW s \in Streams,
               \/ Connection_openStream(c, s)
               \/ Connection_acceptStream(c, s)
               \/ Stream_construct(s, c)
        PROVE  NoDanglingReference'
    BY <2>6, <2>a, <2>b DEF Connection_openStream, Connection_acceptStream,
       Stream_construct, php_quic_stream_init_object, NewReference, Idle
  <2>7. ASSUME NEW c \in Connections, Connection_close(c)
        PROVE  NoDanglingReference'
    <3>1. \A d \in Connections : connection'[d].listener = connection[d].listener
      BY <2>7, <2>a DEF Connection_close, ConnectionRecord
    <3> QED
      BY <2>7, <3>1 DEF Connection_close
  <2>8. ASSUME NEW c \in Connections, quic_connection_free(c)
        PROVE  NoDanglingReference'
    <3> DEFINE new == Unreferenced(connection[c].listener)
    <3>1. /\ doomed' = (doomed \ {c}) \cup new
          /\ live' = live \ {c}
          /\ connection' = [connection EXCEPT ![c] = quic_connection_create]
          /\ UNCHANGED <<stream, resource, rooted, cyclic>>
          /\ c \in doomed
      BY <2>8 DEF quic_connection_free, ReleaseZval
    <3>2. \A x \in new : /\ x \notin rooted /\ x \notin cyclic
                         /\ \A r \in Resources : resource[r] # x
                         /\ \A s \in Streams : stream[s].connection # x
                         /\ \A d \in Connections : connection'[d].listener # x
      BY <3>1, UnreferencedIsNot
    <3>3. \A d \in Connections : d # c => connection'[d] = connection[d]
      BY <3>1, <2>a
    <3> HIDE DEF new
    <3> QED
      BY <3>1, <3>2, <3>3, <2>a, <2>b
  <2>9. ASSUME NEW s \in Streams, Stream_getConnection(s)
        PROVE  NoDanglingReference'
    BY <2>9, <2>a, <2>b DEF Stream_getConnection, Idle
  <2>10. ASSUME NEW s \in Streams, NEW r \in Resources, Stream_asStream(s, r)
         PROVE  NoDanglingReference'
    BY <2>10, <2>a DEF Stream_asStream, Idle
  <2>11. ASSUME NEW r \in Resources, quic_stream_op_close(r)
         PROVE  NoDanglingReference'
    <3> DEFINE new == Unreferenced(resource[r])
    <3>1. /\ doomed = {} /\ doomed' = new
          /\ resource' = [resource EXCEPT ![r] = None]
          /\ UNCHANGED <<connection, stream, live, rooted, cyclic>>
      BY <2>11 DEF quic_stream_op_close
    <3>2. \A x \in new : /\ x \notin rooted /\ x \notin cyclic
                         /\ \A q \in Resources : resource'[q] # x
                         /\ \A s \in Streams : stream[s].connection # x
                         /\ \A d \in Connections : connection[d].listener # x
      BY <3>1, UnreferencedIsNot
    <3> HIDE DEF new
    <3> QED
      BY <3>1, <3>2, <2>a
  <2>12. ASSUME NEW s \in Streams, quic_stream_free(s)
         PROVE  NoDanglingReference'
    <3> DEFINE new == Unreferenced(stream[s].connection)
    <3>1. /\ doomed' = (doomed \ {s}) \cup new
          /\ live' = live \ {s}
          /\ stream' = [stream EXCEPT ![s] = quic_stream_create]
          /\ UNCHANGED <<connection, resource, rooted, cyclic>>
          /\ s \in doomed
      BY <2>12 DEF quic_stream_free, ReleaseZval
    <3>2. \A x \in new : /\ x \notin rooted /\ x \notin cyclic
                         /\ \A r \in Resources : resource[r] # x
                         /\ \A q \in Streams : stream'[q].connection # x
                         /\ \A d \in Connections : connection[d].listener # x
      BY <3>1, UnreferencedIsNot
    <3>3. \A q \in Streams : q # s => stream'[q] = stream[q]
      BY <3>1, <2>a
    <3> HIDE DEF new
    <3> QED
      BY <3>1, <3>2, <3>3, <2>a, <2>b
  <2>13. ASSUME NEW o \in Objects, DropVariable(o)
         PROVE  NoDanglingReference'
    <3>1. \A x \in doomed' : /\ x \notin rooted' /\ x \notin cyclic
                             /\ \A r \in Resources : resource[r] # x
                             /\ \A s \in Streams : stream[s].connection # x
                             /\ \A d \in Connections : connection[d].listener # x
      BY <2>13, UnreferencedIsNot DEF DropVariable
    <3> QED
      BY <2>13, <3>1 DEF DropVariable
  <2>14. ASSUME NEW o \in Objects, DropIntoCycle(o)
         PROVE  NoDanglingReference'
    BY <2>14 DEF DropIntoCycle
  <2>15. CASE CollectCycles
    <3>1. /\ doomed = {} /\ doomed' = live \ Reachable /\ cyclic' = {}
          /\ UNCHANGED <<listener, connection, stream, resource, live, rooted>>
      BY <2>15 DEF CollectCycles, Idle
    <3> DEFINE held == rooted \cup {resource[r] : r \in Resources}
               cs == Connections \cap
                        (held \cup quic_stream_get_gc(Streams \cap held))
    <3>2. Reachable = held \cup cs \cup quic_connection_get_gc(cs)
      BY DEF Reachable
    <3>3. \A s \in Streams \cap live : s \in Reachable =>
             stream[s].connection \in Reachable
      <4> SUFFICES ASSUME NEW s \in Streams, s \in live, s \in Reachable
                   PROVE  stream[s].connection \in Reachable
        OBVIOUS
      <4>0. s \notin quic_connection_get_gc(cs) /\ s \notin cs
        BY <2>a, <2>b DEF quic_connection_get_gc
      <4>1. s \in held
        BY <3>2, <4>0
      <4>2. stream[s].connection \in quic_stream_get_gc(Streams \cap held)
        BY <4>1 DEF quic_stream_get_gc
      <4>3. stream[s].connection \in Connections
        BY <3>1, <2>a, <2>b
      <4> QED
        BY <3>2, <4>2, <4>3
    <3>4. \A c \in Connections \cap live : c \in Reachable =>
             connection[c].listener \in Reachable
      <4> SUFFICES ASSUME NEW c \in Connections, c \in live, c \in Reachable
                   PROVE  connection[c].listener \in Reachable
        OBVIOUS
      <4>1. c \in cs
        BY <3>2, <2>a, <2>b DEF quic_connection_get_gc
      <4> QED
        BY <3>2, <4>1 DEF quic_connection_get_gc
    <3> HIDE DEF cs
    <3>5. \A r \in Resources : resource[r] \in Reachable
      BY <3>2
    <3>6. rooted \subseteq Reachable
      BY <3>2
    <3> QED
      BY <3>1, <3>3, <3>4, <3>5, <3>6
  <2>16. CASE FreeObjectStorage
    BY <2>16 DEF FreeObjectStorage
  <2>17. CASE RequestShutdown \/ NewRequest
    BY <2>17 DEF RequestShutdown, NewRequest
  <2>18. CASE UNCHANGED vars
    BY <2>18 DEF vars
  <2> QED
    BY <2>1, <2>2, <2>3, <2>4, <2>5, <2>6, <2>7, <2>8, <2>9, <2>10, <2>11, <2>12,
       <2>13, <2>14, <2>15, <2>16, <2>17, <2>18
       DEF Next, Userland, DropReference, FreeObject
<1> QED
  BY <1>1, <1>2, TypeCorrect, PTL DEF Spec

-----------------------------------------------------------------------------
(* The fields of an object agree with each other: a Connection has an SSL   *)
(* object exactly while it is allocated, a Listener a descriptor exactly    *)
(* while it has an SSL object.                                              *)
LiveRecords ==
    /\ \A c \in Connections : IF c \in live THEN connection[c].ssl \in Engines
                                            ELSE connection[c] = quic_connection_create
    /\ \A l \in Listeners : listener[l].ssl = None <=> listener[l].fd = None

(* A listening Listener and a client Connection hold the descriptor of      *)
(* their engine's BIO; an accepted Connection has its Listener's number.    *)
EngineSockets ==
    /\ \A l \in Listeners : listener[l].ssl # None
          => /\ bio[listener[l].ssl] = listener[l].fd
             /\ sock[listener[l].fd] = listener[l].ssl
    /\ \A c \in Connections : connection[c].owns_fd
          => /\ connection[c].fd \in Fds
             /\ bio[connection[c].ssl] = connection[c].fd
             /\ sock[connection[c].fd] = connection[c].ssl
    /\ \A c \in Connections, l \in Listeners :
          (connection[c].listener = l /\ listener[l].ssl = connection[c].ssl
             /\ connection[c].ssl # None) => connection[c].fd = listener[l].fd

SocketInv == LiveRecords /\ EngineSockets /\ DescriptorOwnedOnce

LEMMA SocketInvInit == Init => SocketInv
  BY NoneAssumption DEF Init, SocketInv, LiveRecords, EngineSockets,
     DescriptorOwnedOnce, OwnsSocket, quic_listener_create, quic_connection_create

(* A step that leaves the Listeners, the Connections and the descriptors    *)
(* alone, and frees no engine one of them uses, keeps the invariant.        *)
LEMMA SocketInvFrame ==
    ASSUME TypeOK, SocketInv, UNCHANGED <<listener, connection, sock>>,
           \A c \in Connections : c \in live' <=> c \in live,
           UNCHANGED bio \/ SSL_free
    PROVE  SocketInv'
<1>1. LiveRecords'
  BY DEF SocketInv, LiveRecords, quic_connection_create
<1>2. DescriptorOwnedOnce'
  BY DEF SocketInv, DescriptorOwnedOnce, OwnsSocket, SSLOf
<1>3. ASSUME NEW e \in Engines,
             \/ \E l \in Listeners : listener[l].ssl = e
             \/ \E c \in Connections : connection[c].ssl = e
      PROVE  bio'[e] = bio[e]
  BY <1>3 DEF SSL_free, EngineAlive
<1>4. \A l \in Listeners : listener[l].ssl # None => listener[l].ssl \in Engines
  BY DEF TypeOK, ListenerRecord
<1>5. \A c \in Connections : connection[c].owns_fd => connection[c].ssl \in Engines
  BY DEF SocketInv, LiveRecords, quic_connection_create
<1>6. EngineSockets'
  BY <1>3, <1>4, <1>5 DEF SocketInv, EngineSockets
<1> QED
  BY <1>1, <1>2, <1>6 DEF SocketInv

LEMMA SocketInvListenerConstruct ==
    ASSUME TypeOK, SocketInv, NEW l \in Listeners, NEW e \in Engines, NEW f \in Fds,
           Listener_construct(l, e, f)
    PROVE  SocketInv'
<1> DEFINE rec == [ssl |-> e, fd |-> f]
<1>1. /\ listener' = [listener EXCEPT ![l] = rec]
      /\ listener[l].ssl = None /\ listener[l].fd = None
      /\ connection' = connection
      /\ sock' = [sock EXCEPT ![f] = e] /\ sock[f] = None
      /\ bio' = [bio EXCEPT ![e] = f]
      /\ \A c \in Connections : c \in live' <=> c \in live
  BY ObjectsDisjoint DEF Listener_construct, OpenSocket, Unset, NewReference,
     SocketInv, LiveRecords
<1>2. /\ \A k \in Listeners : listener[k].ssl # e
      /\ \A c \in Connections : connection[c].ssl # e
  BY DEF Listener_construct, OpenSocket, EngineAlive
<1>3. /\ listener'[l] = rec
      /\ \A k \in Listeners : k # l => listener'[k] = listener[k]
      /\ sock'[f] = e /\ \A g \in Fds : g # f => sock'[g] = sock[g]
      /\ bio'[e] = f /\ \A d \in Engines : d # e => bio'[d] = bio[d]
  BY <1>1 DEF TypeOK
<1>4. e # None /\ f # None
  BY NoneAssumption
<1>5. LiveRecords'
  <2>1. \A k \in Listeners : listener'[k].ssl = None <=> listener'[k].fd = None
    BY <1>3, <1>4 DEF SocketInv, LiveRecords
  <2> QED
    BY <1>1, <2>1 DEF SocketInv, LiveRecords, quic_connection_create
<1>6. /\ \A k \in Listeners : listener[k].ssl # None
            => listener[k].ssl \in Engines /\ listener[k].fd \in Fds
      /\ \A c \in Connections : connection[c].owns_fd => connection[c].ssl \in Engines
  BY DEF TypeOK, ListenerRecord, SocketInv, LiveRecords, quic_connection_create
<1>7. EngineSockets'
  <2>1. ASSUME NEW k \in Listeners, listener'[k].ssl # None
        PROVE  /\ bio'[listener'[k].ssl] = listener'[k].fd
               /\ sock'[listener'[k].fd] = listener'[k].ssl
    <3>1. CASE k = l
      BY <3>1, <1>3
    <3>2. CASE k # l
      BY <3>2, <2>1, <1>1, <1>2, <1>3, <1>6 DEF SocketInv, EngineSockets
    <3> QED BY <3>1, <3>2
  <2>2. ASSUME NEW c \in Connections, connection'[c].owns_fd
        PROVE  /\ connection'[c].fd \in Fds
               /\ bio'[connection'[c].ssl] = connection'[c].fd
               /\ sock'[connection'[c].fd] = connection'[c].ssl
    BY <2>2, <1>1, <1>2, <1>3, <1>6, NoneAssumption DEF SocketInv, EngineSockets
  <2>3. ASSUME NEW c \in Connections, NEW k \in Listeners,
               connection'[c].listener = k, listener'[k].ssl = connection'[c].ssl,
               connection'[c].ssl # None
        PROVE  connection'[c].fd = listener'[k].fd
    BY <2>3, <1>1, <1>2, <1>3 DEF SocketInv, EngineSockets
  <2> QED
    BY <2>1, <2>2, <2>3 DEF EngineSockets
<1>8. DescriptorOwnedOnce'
  <2>1. \A o \in Objects, g \in Fds :
           OwnsSocket(o, g)' <=> OwnsSocket(o, g) \/ (o = l /\ g = f)
    BY <1>1, <1>3, <1>4, ObjectsDisjoint, NoneAssumption DEF OwnsSocket, Objects
  <2>2. \A o \in Objects : o # l => SSLOf(o)' = SSLOf(o)
    BY <1>1, <1>3 DEF SSLOf
  <2>3. SSLOf(l)' = e /\ l \in Objects
    BY <1>3 DEF SSLOf, Objects
  <2>4. \A g \in Fds : ~OwnsSocket(l, g)
    BY <1>1, NoneAssumption, ObjectsDisjoint DEF OwnsSocket
  <2>5. DescriptorOwnedOnce
    BY DEF SocketInv
  <2> QED
    BY <1>1, <1>3, <1>4, <2>1, <2>2, <2>3, <2>4, <2>5 DEF DescriptorOwnedOnce
<1> QED
  BY <1>5, <1>7, <1>8 DEF SocketInv

LEMMA SocketInvConnectionConstruct ==
    ASSUME TypeOK, SocketInv, NEW c \in Connections, NEW e \in Engines, NEW f \in Fds,
           Connection_construct(c, e, f)
    PROVE  SocketInv'
<1> DEFINE rec == [ssl |-> e, fd |-> f, owns_fd |-> TRUE, closed |-> FALSE,
                   listener |-> None]
<1>1. /\ connection' = [connection EXCEPT ![c] = rec]
      /\ connection[c].ssl = None
      /\ listener' = listener
      /\ sock' = [sock EXCEPT ![f] = e] /\ sock[f] = None
      /\ bio' = [bio EXCEPT ![e] = f]
      /\ live' = live \cup {c}
  BY DEF Connection_construct, OpenSocket, Unset, NewReference
<1>2. /\ \A l \in Listeners : listener[l].ssl # e
      /\ \A d \in Connections : connection[d].ssl # e
  BY DEF Connection_construct, OpenSocket, EngineAlive
<1>3. /\ connection'[c] = rec
      /\ \A d \in Connections : d # c => connection'[d] = connection[d]
      /\ sock'[f] = e /\ \A g \in Fds : g # f => sock'[g] = sock[g]
      /\ bio'[e] = f /\ \A d \in Engines : d # e => bio'[d] = bio[d]
  BY <1>1 DEF TypeOK
<1>4. connection[c].owns_fd = FALSE
  BY <1>1, NoneAssumption DEF SocketInv, LiveRecords, quic_connection_create
<1>5. LiveRecords'
  <2>1. \A d \in Connections : IF d \in live' THEN connection'[d].ssl \in Engines
                               ELSE connection'[d] = quic_connection_create
    BY <1>1, <1>3 DEF SocketInv, LiveRecords
  <2> QED
    BY <1>1, <2>1 DEF SocketInv, LiveRecords, quic_connection_create
<1>6. /\ \A k \in Listeners : listener[k].ssl # None
            => listener[k].ssl \in Engines /\ listener[k].fd \in Fds
      /\ \A d \in Connections : connection[d].owns_fd => connection[d].ssl \in Engines
  BY DEF TypeOK, ListenerRecord, SocketInv, LiveRecords, quic_connection_create
<1>7. EngineSockets'
  <2>1. ASSUME NEW k \in Listeners, listener'[k].ssl # None
        PROVE  /\ bio'[listener'[k].ssl] = listener'[k].fd
               /\ sock'[listener'[k].fd] = listener'[k].ssl
    BY <2>1, <1>1, <1>2, <1>3, <1>6 DEF SocketInv, EngineSockets
  <2>2. ASSUME NEW d \in Connections, connection'[d].owns_fd
        PROVE  /\ connection'[d].fd \in Fds
               /\ bio'[connection'[d].ssl] = connection'[d].fd
               /\ sock'[connection'[d].fd] = connection'[d].ssl
    <3>1. CASE d = c
      BY <3>1, <1>3
    <3>2. CASE d # c
      BY <3>2, <2>2, <1>1, <1>2, <1>3, <1>6, NoneAssumption DEF SocketInv, EngineSockets
    <3> QED BY <3>1, <3>2
  <2>3. ASSUME NEW d \in Connections, NEW k \in Listeners,
               connection'[d].listener = k, listener'[k].ssl = connection'[d].ssl,
               connection'[d].ssl # None
        PROVE  connection'[d].fd = listener'[k].fd
    BY <2>3, <1>1, <1>2, <1>3, NoneAssumption DEF SocketInv, EngineSockets, Objects
  <2> QED
    BY <2>1, <2>2, <2>3 DEF EngineSockets
<1>8. DescriptorOwnedOnce'
  <2>1. \A o \in Objects, g \in Fds :
           OwnsSocket(o, g)' <=> OwnsSocket(o, g) \/ (o = c /\ g = f)
    BY <1>1, <1>3, <1>4, ObjectsDisjoint DEF OwnsSocket, Objects
  <2>2. \A o \in Connections \cup Listeners : o # c => SSLOf(o)' = SSLOf(o)
    BY <1>1, <1>3 DEF SSLOf
  <2>3. SSLOf(c)' = e /\ c \in Objects
    BY <1>3, ObjectsDisjoint DEF SSLOf, Objects
  <2>4. \A g \in Fds : ~OwnsSocket(c, g)
    BY <1>4, ObjectsDisjoint DEF OwnsSocket
  <2>5. \A o \in Objects, g \in Fds : OwnsSocket(o, g) => o \in Connections \cup Listeners
    BY DEF OwnsSocket
  <2>6. DescriptorOwnedOnce
    BY DEF SocketInv
  <2> QED
    BY <1>1, <1>3, <2>1, <2>2, <2>3, <2>4, <2>5, <2>6, NoneAssumption
       DEF DescriptorOwnedOnce
<1> QED
  BY <1>5, <1>7, <1>8 DEF SocketInv

LEMMA SocketInvAccept ==
    ASSUME TypeOK, SocketInv, NEW l \in Listeners, NEW c \in Connections,
           Listener_accept(l, c)
    PROVE  SocketInv'
<1> DEFINE rec == [ssl |-> listener[l].ssl, fd |-> listener[l].fd,
                   owns_fd |-> FALSE, closed |-> FALSE, listener |-> l]
<1>1. /\ connection' = [connection EXCEPT ![c] = rec]
      /\ c \notin live /\ live' = live \cup {c}
      /\ listener[l].ssl \in Engines
      /\ UNCHANGED <<listener, sock, bio>>
  BY DEF Listener_accept, php_quic_connection_init_object, NewReference, TypeOK,
     ListenerRecord
<1>2. /\ connection'[c] = rec
      /\ \A d \in Connections : d # c => connection'[d] = connection[d]
  BY <1>1 DEF TypeOK
<1>3. connection[c].owns_fd = FALSE
  BY <1>1 DEF SocketInv, LiveRecords, quic_connection_create
<1>4. LiveRecords'
  <2>1. \A d \in Connections : IF d \in live' THEN connection'[d].ssl \in Engines
                               ELSE connection'[d] = quic_connection_create
    BY <1>1, <1>2 DEF SocketInv, LiveRecords
  <2> QED
    BY <1>1, <2>1 DEF SocketInv, LiveRecords, quic_connection_create
<1>5. EngineSockets'
  BY <1>1, <1>2 DEF SocketInv, EngineSockets
<1>6. DescriptorOwnedOnce'
  <2>1. \A o \in Objects, g \in Fds : OwnsSocket(o, g)' <=> OwnsSocket(o, g)
    BY <1>1, <1>2, <1>3 DEF OwnsSocket, Objects
  <2>2. \A o \in Objects, g \in Fds : OwnsSocket(o, g) => SSLOf(o)' = SSLOf(o)
    BY <1>1, <1>2, <1>3, ObjectsDisjoint DEF SSLOf, OwnsSocket
  <2> QED
    BY <1>1, <2>1, <2>2 DEF DescriptorOwnedOnce, SocketInv
<1> QED
  BY <1>4, <1>5, <1>6 DEF SocketInv

(* Closing a descriptor for its only owner leaves no owner behind. *)
LEMMA SocketInvRelease ==
    ASSUME TypeOK, SocketInv, NEW l \in Listeners, quic_listener_release(l),
           \A c \in Connections : c \in live' <=> c \in live
    PROVE  SocketInv'
<1> DEFINE f == listener[l].fd
<1>1. /\ listener' = [listener EXCEPT ![l] = quic_listener_create]
      /\ connection' = connection
      /\ f \in Fds \cup {None}
      /\ sock' = IF f = None THEN sock ELSE [sock EXCEPT ![f] = None]
  BY DEF quic_listener_release, CloseSocket, TypeOK, ListenerRecord
<1>2. /\ listener'[l].ssl = None /\ listener'[l].fd = None
      /\ \A k \in Listeners : k # l => listener'[k] = listener[k]
      /\ \A g \in Fds : sock'[g] = IF g = f THEN None ELSE sock[g]
  BY <1>1, NoneAssumption DEF TypeOK, quic_listener_create
<1>3. /\ \A k \in Listeners : listener[k].ssl # None
            => listener[k].ssl \in Engines /\ listener[k].fd \in Fds
      /\ \A d \in Connections : connection[d].owns_fd => connection[d].ssl \in Engines
  BY DEF TypeOK, ListenerRecord, SocketInv, LiveRecords, quic_connection_create
<1>4. LiveRecords'
  <2>1. \A k \in Listeners : listener'[k].ssl = None <=> listener'[k].fd = None
    BY <1>2 DEF SocketInv, LiveRecords
  <2> QED
    BY <1>1, <2>1 DEF SocketInv, LiveRecords, quic_connection_create
<1>5. \A o \in Objects, g \in Fds : OwnsSocket(o, g) /\ g = f => o = l
  <2>1. \A g \in Fds : g = f => OwnsSocket(l, g) /\ l \in Objects
    BY DEF OwnsSocket, Objects
  <2> QED
    BY <2>1 DEF SocketInv, DescriptorOwnedOnce
<1>6. \A o \in Objects, g \in Fds : OwnsSocket(o, g)' <=> OwnsSocket(o, g) /\ o # l
  BY <1>1, <1>2, NoneAssumption, ObjectsDisjoint DEF OwnsSocket, Objects
<1>7. DescriptorOwnedOnce'
  <2>1. \A o \in Objects : o # l => SSLOf(o)' = SSLOf(o)
    BY <1>1, <1>2 DEF SSLOf
  <2>2. \A g \in Fds : OwnsSocket(l, g) => g = f
    BY ObjectsDisjoint DEF OwnsSocket
  <2> QED
    BY <1>2, <1>5, <1>6, <2>1, <2>2 DEF DescriptorOwnedOnce, SocketInv
<1>8. EngineSockets'
  <2>1. ASSUME NEW k \in Listeners, listener'[k].ssl # None
        PROVE  /\ bio'[listener'[k].ssl] = listener'[k].fd
               /\ sock'[listener'[k].fd] = listener'[k].ssl
    <3>1. k # l /\ listener'[k] = listener[k] /\ listener[k].fd \in Fds
      BY <2>1, <1>2, <1>3
    <3>2. listener[k].fd # f
      BY <3>1, <1>5 DEF OwnsSocket, Objects
    <3>3. /\ bio[listener[k].ssl] = listener[k].fd
          /\ sock[listener[k].fd] = listener[k].ssl
      BY <2>1, <3>1 DEF SocketInv, EngineSockets
    <3>4. bio'[listener[k].ssl] = bio[listener[k].ssl]
      BY <2>1, <3>1, <1>3 DEF quic_listener_release, SSL_free, EngineAlive
    <3> QED
      BY <1>2, <3>1, <3>2, <3>3, <3>4
  <2>2. ASSUME NEW c \in Connections, connection'[c].owns_fd
        PROVE  /\ connection'[c].fd \in Fds
               /\ bio'[connection'[c].ssl] = connection'[c].fd
               /\ sock'[connection'[c].fd] = connection'[c].ssl
    <3>1. /\ connection[c].fd \in Fds /\ connection[c].ssl \in Engines
          /\ bio[connection[c].ssl] = connection[c].fd
          /\ sock[connection[c].fd] = connection[c].ssl
      BY <2>2, <1>1, <1>3 DEF SocketInv, EngineSockets
    <3>2. connection[c].fd # f
      BY <2>2, <3>1, <1>1, <1>5, ObjectsDisjoint DEF OwnsSocket, Objects
    <3>3. bio'[connection[c].ssl] = bio[connection[c].ssl]
      BY <3>1, <1>1 DEF quic_listener_release, SSL_free, EngineAlive
    <3> QED
      BY <1>1, <1>2, <3>1, <3>2, <3>3
  <2>3. ASSUME NEW c \in Connections, NEW k \in Listeners,
               connection'[c].listener = k, listener'[k].ssl = connection'[c].ssl,
               connection'[c].ssl # None
        PROVE  connection'[c].fd = listener'[k].fd
    BY <2>3, <1>1, <1>2 DEF SocketInv, EngineSockets
  <2> QED
    BY <2>1, <2>2, <2>3 DEF EngineSockets
<1> QED
  BY <1>4, <1>7, <1>8 DEF SocketInv

LEMMA SocketInvConnectionFree ==
    ASSUME TypeOK, SocketInv, NEW c \in Connections, quic_connection_free(c)
    PROVE  SocketInv'
<1> DEFINE f == OwnedFd(c)
<1>1. /\ connection' = [connection EXCEPT ![c] = quic_connection_create]
      /\ listener' = listener
      /\ live' = live \ {c}
      /\ f \in Fds \cup {None}
      /\ sock' = IF f = None THEN sock ELSE [sock EXCEPT ![f] = None]
  BY DEF quic_connection_free, CloseSocket, OwnedFd, TypeOK, ConnectionRecord
<1>2. /\ connection'[c] = quic_connection_create
      /\ \A d \in Connections : d # c => connection'[d] = connection[d]
      /\ \A g \in Fds : sock'[g] = IF g = f THEN None ELSE sock[g]
  BY <1>1, NoneAssumption DEF TypeOK
<1>3. /\ \A k \in Listeners : listener[k].ssl # None
            => listener[k].ssl \in Engines /\ listener[k].fd \in Fds
      /\ \A d \in Connections : connection[d].owns_fd => connection[d].ssl \in Engines
  BY DEF TypeOK, ListenerRecord, SocketInv, LiveRecords, quic_connection_create
<1>4. LiveRecords'
  <2>1. \A d \in Connections : IF d \in live' THEN connection'[d].ssl \in Engines
                               ELSE connection'[d] = quic_connection_create
    BY <1>1, <1>2 DEF SocketInv, LiveRecords
  <2> QED
    BY <1>1, <2>1 DEF SocketInv, LiveRecords, quic_connection_create
<1>5. \A o \in Objects, g \in Fds : OwnsSocket(o, g) /\ g = f => o = c
  <2>1. \A g \in Fds : g = f => OwnsSocket(c, g) /\ c \in Objects
    BY NoneAssumption DEF OwnsSocket, OwnedFd, Objects
  <2> QED
    BY <2>1 DEF SocketInv, DescriptorOwnedOnce
<1>6. \A o \in Objects, g \in Fds : OwnsSocket(o, g)' <=> OwnsSocket(o, g) /\ o # c
  BY <1>1, <1>2, ObjectsDisjoint DEF OwnsSocket, Objects, quic_connection_create
<1>7. DescriptorOwnedOnce'
  <2>1. \A o \in Listeners \cup Connections : o # c => SSLOf(o)' = SSLOf(o)
    BY <1>1, <1>2 DEF SSLOf
  <2>2. \A g \in Fds : OwnsSocket(c, g) => g = f
    BY ObjectsDisjoint DEF OwnsSocket, OwnedFd
  <2>3. \A o \in Objects, g \in Fds : OwnsSocket(o, g) => o \in Listeners \cup Connections
    BY DEF OwnsSocket
  <2> HIDE DEF f
  <2> QED
    BY <1>2, <1>5, <1>6, <2>1, <2>2, <2>3 DEF DescriptorOwnedOnce, SocketInv
<1>8. EngineSockets'
  <2>1. ASSUME NEW k \in Listeners, listener'[k].ssl # None
        PROVE  /\ bio'[listener'[k].ssl] = listener'[k].fd
               /\ sock'[listener'[k].fd] = listener'[k].ssl
    <3>1. listener[k].fd \in Fds /\ listener[k].ssl \in Engines
      BY <2>1, <1>1, <1>3
    <3>2. listener[k].fd # f
      BY <3>1, <1>5, ObjectsDisjoint DEF OwnsSocket, Objects
    <3>3. /\ bio[listener[k].ssl] = listener[k].fd
          /\ sock[listener[k].fd] = listener[k].ssl
      BY <2>1, <1>1 DEF SocketInv, EngineSockets
    <3>4. bio'[listener[k].ssl] = bio[listener[k].ssl]
      BY <3>1, <1>1 DEF quic_connection_free, SSL_free, EngineAlive
    <3> QED
      BY <1>1, <1>2, <3>1, <3>2, <3>3, <3>4
  <2>2. ASSUME NEW d \in Connections, connection'[d].owns_fd
        PROVE  /\ connection'[d].fd \in Fds
               /\ bio'[connection'[d].ssl] = connection'[d].fd
               /\ sock'[connection'[d].fd] = connection'[d].ssl
    <3>1. d # c /\ connection'[d] = connection[d]
      BY <2>2, <1>2 DEF quic_connection_create
    <3>2. /\ connection[d].fd \in Fds /\ connection[d].ssl \in Engines
          /\ bio[connection[d].ssl] = connection[d].fd
          /\ sock[connection[d].fd] = connection[d].ssl
      BY <2>2, <3>1, <1>3 DEF SocketInv, EngineSockets
    <3>3. connection[d].fd # f
      BY <2>2, <3>1, <3>2, <1>5 DEF OwnsSocket, Objects
    <3>4. bio'[connection[d].ssl] = bio[connection[d].ssl]
      BY <3>1, <3>2 DEF quic_connection_free, SSL_free, EngineAlive
    <3> QED
      BY <1>2, <3>1, <3>2, <3>3, <3>4
  <2>3. ASSUME NEW d \in Connections, NEW k \in Listeners,
               connection'[d].listener = k, listener'[k].ssl = connection'[d].ssl,
               connection'[d].ssl # None
        PROVE  connection'[d].fd = listener'[k].fd
    BY <2>3, <1>1, <1>2 DEF SocketInv, EngineSockets, quic_connection_create
  <2> QED
    BY <2>1, <2>2, <2>3 DEF EngineSockets
<1> QED
  BY <1>4, <1>7, <1>8 DEF SocketInv

LEMMA SocketInvConnectionClose ==
    ASSUME TypeOK, SocketInv, NEW c \in Connections, Connection_close(c)
    PROVE  SocketInv'
<1>1. /\ \A d \in Connections : /\ connection'[d].ssl = connection[d].ssl
                                /\ connection'[d].fd = connection[d].fd
                                /\ connection'[d].owns_fd = connection[d].owns_fd
                                /\ connection'[d].listener = connection[d].listener
      /\ \A d \in Connections : d # c => connection'[d] = connection[d]
      /\ UNCHANGED <<listener, live, bio, sock>>
      /\ connection[c].ssl # None
  BY DEF Connection_close, TypeOK, ConnectionRecord
<1>2. c \in live
  BY <1>1 DEF SocketInv, LiveRecords, quic_connection_create
<1>3. LiveRecords'
  <2>1. \A d \in Connections : IF d \in live THEN connection'[d].ssl \in Engines
                               ELSE connection'[d] = quic_connection_create
    BY <1>1, <1>2 DEF SocketInv, LiveRecords
  <2> QED
    BY <1>1, <2>1 DEF SocketInv, LiveRecords, quic_connection_create
<1>4. EngineSockets'
  BY <1>1 DEF SocketInv, EngineSockets
<1>5. DescriptorOwnedOnce'
  <2>1. \A o \in Objects, g \in Fds : OwnsSocket(o, g)' <=> OwnsSocket(o, g)
    BY <1>1 DEF OwnsSocket
  <2>2. \A o \in Objects, g \in Fds : OwnsSocket(o, g) => SSLOf(o)' = SSLOf(o)
    BY <1>1 DEF SSLOf, OwnsSocket
  <2> QED
    BY <1>1, <2>1, <2>2 DEF DescriptorOwnedOnce, SocketInv
<1> QED
  BY <1>3, <1>4, <1>5 DEF SocketInv

LEMMA SocketInvInductive == Spec => []SocketInv
<1>1. TypeOK /\ SocketInv /\ [Next]_vars => SocketInv'
  <2> SUFFICES ASSUME TypeOK, SocketInv, [Next]_vars PROVE SocketInv'
    OBVIOUS
  <2>1. ASSUME NEW l \in Listeners, NEW e \in Engines, NEW f \in Fds,
               Listener_construct(l, e, f)
        PROVE  SocketInv'
    BY <2>1, SocketInvListenerConstruct
  <2>2. ASSUME NEW c \in Connections, NEW e \in Engines, NEW f \in Fds,
               Connection_construct(c, e, f)
        PROVE  SocketInv'
    BY <2>2, SocketInvConnectionConstruct
  <2>3. ASSUME NEW l \in Listeners, NEW c \in Connections, Listener_accept(l, c)
        PROVE  SocketInv'
    BY <2>3, SocketInvAccept
  <2>4. ASSUME NEW l \in Listeners, Listener_close(l) \/ quic_listener_free(l)
        PROVE  SocketInv'
    BY <2>4, SocketInvRelease, ObjectsDisjoint DEF Listener_close, quic_listener_free
  <2>5. ASSUME NEW c \in Connections, Connection_close(c)
        PROVE  SocketInv'
    BY <2>5, SocketInvConnectionClose
  <2>6. ASSUME NEW c \in Connections, quic_connection_free(c)
        PROVE  SocketInv'
    BY <2>6, SocketInvConnectionFree
  <2>7. ASSUME NEW c \in Connections, NEW s \in Streams,
               \/ Connection_openStream(c, s)
               \/ Connection_acceptStream(c, s)
               \/ Stream_construct(s, c)
        PROVE  SocketInv'
    BY <2>7, SocketInvFrame, ObjectsDisjoint DEF Connection_openStream,
       Connection_acceptStream, Stream_construct, NewReference
  <2>8. ASSUME NEW s \in Streams, quic_stream_free(s)
        PROVE  SocketInv'
    BY <2>8, SocketInvFrame, ObjectsDisjoint DEF quic_stream_free
  <2>9. ASSUME UNCHANGED <<listener, connection, sock, live, bio>>
        PROVE  SocketInv'
    BY <2>9, SocketInvFrame
  <2>10. ASSUME NEW s \in Streams, NEW r \in Resources, Stream_asStream(s, r)
         PROVE  SocketInv'
    BY <2>10, <2>9 DEF Stream_asStream
  <2>11. ASSUME NEW o \in Objects, DropVariable(o) \/ DropIntoCycle(o)
         PROVE  SocketInv'
    BY <2>11, <2>9 DEF DropVariable, DropIntoCycle
  <2>12. ASSUME NEW r \in Resources, quic_stream_op_close(r)
         PROVE  SocketInv'
    BY <2>12, <2>9 DEF quic_stream_op_close
  <2>13. CASE CollectCycles \/ RequestShutdown \/ FreeObjectStorage \/ NewRequest
    BY <2>13, <2>9 DEF CollectCycles, RequestShutdown, FreeObjectStorage, NewRequest
  <2>14. CASE UNCHANGED vars
    BY <2>14, <2>9 DEF vars
  <2>15. ASSUME NEW s \in Streams, Stream_getConnection(s)
         PROVE  SocketInv'
    BY <2>15, <2>9 DEF Stream_getConnection
  <2> QED
    BY <2>1, <2>2, <2>3, <2>4, <2>5, <2>6, <2>7, <2>8, <2>10, <2>11, <2>12, <2>13,
       <2>14, <2>15 DEF Next, Userland, DropReference, FreeObject
<1> QED
  BY <1>1, SocketInvInit, TypeCorrect, PTL DEF Spec

(* Every open descriptor has exactly one object that will close it, the one *)
(* whose engine uses it: BIO_closesocket never runs twice on a socket and   *)
(* no socket is forgotten, whatever the order of calls and destructions.    *)
THEOREM DescriptorsOwnedOnce == Spec => []DescriptorOwnedOnce
<1>1. SocketInv => DescriptorOwnedOnce
  BY DEF SocketInv
<1> QED
  BY <1>1, SocketInvInductive, PTL

(* getFd() of a client Connection, and of an accepted one whose Listener is *)
(* still listening, is the socket its engine does I/O on.                   *)
THEOREM FdsAreEngineSockets == Spec => []FdIsEngineSocket
<1>1. TypeOK /\ SocketInv => FdIsEngineSocket
  <2> SUFFICES ASSUME TypeOK, SocketInv, NEW c \in Connections, c \in live,
                      \/ connection[c].owns_fd
                      \/ \E l \in Listeners : /\ connection[c].listener = l
                                              /\ listener[l].ssl = connection[c].ssl
               PROVE  /\ bio[connection[c].ssl] = connection[c].fd
                      /\ sock[connection[c].fd] = connection[c].ssl
    BY DEF FdIsEngineSocket
  <2>1. connection[c].ssl # None
    BY NoneAssumption DEF SocketInv, LiveRecords
  <2> QED
    BY <2>1 DEF SocketInv, EngineSockets
<1> QED
  BY <1>1, TypeCorrect, SocketInvInductive, PTL

-----------------------------------------------------------------------------
(* The reference counts: they balance, and a Stream stays on the engine of  *)
(* its Connection.                                                          *)

(* A Stream has an SSL object exactly while it is allocated. *)
StreamRecords ==
    \A s \in Streams : IF s \in live THEN stream[s].ssl \in Engines
                                     ELSE stream[s] = quic_stream_create

(* The counts balance only because no field that holds a reference is       *)
(* overwritten, and a Stream keeps its engine only because its Connection   *)
(* does not get another: both need the other two.                           *)
CountInv == StreamRecords /\ NothingForgotten /\ StreamOnItsConnection

(* An object that loses none of its references keeps its count. *)
LEMMA ReferencedStays ==
    ASSUME NEW o, Referenced(o),
           o \in rooted => o \in rooted',
           o \in cyclic => o \in cyclic',
           \A r \in Resources : resource[r] = o => resource'[r] = o,
           \A s \in Streams : stream[s].connection = o => stream'[s].connection = o,
           \A c \in Connections : connection[c].listener = o => connection'[c].listener = o
    PROVE  Referenced(o)'
  BY DEF Referenced, HeldByResource, HeldByStream, HeldByConnection

(* What a step that drops the references to x does: x is doomed if none is  *)
(* left, every other object keeps what it has.                              *)
LEMMA DroppedIsDoomed ==
    ASSUME NEW x, NEW gone, NothingForgotten,
           live' = live \ {gone}, doomed' = (doomed \ {gone}) \cup Unreferenced(x),
           \A o \in live : o # x => (Referenced(o) => Referenced(o)')
    PROVE  NothingForgotten'
<1> SUFFICES ASSUME NEW o \in live, o # gone
             PROVE  Referenced(o)' \/ o \in doomed'
  BY DEF NothingForgotten
<1>1. CASE o = x
  BY <1>1 DEF Unreferenced
<1>2. CASE o # x
  BY <1>2 DEF NothingForgotten
<1> QED
  BY <1>1, <1>2

(* Making an object, or a reference, takes none away. *)
LEMMA CountsGrow ==
    ASSUME NothingForgotten, None \notin live,
           doomed \subseteq doomed', cyclic' = cyclic, rooted \subseteq rooted',
           \A o \in live' : o \notin live => o \in rooted',
           \A r \in Resources : resource[r] # None => resource'[r] = resource[r],
           \A s \in Streams : stream[s].connection # None
                => stream'[s].connection = stream[s].connection,
           \A c \in Connections : connection[c].listener # None
                => connection'[c].listener = connection[c].listener
    PROVE  NothingForgotten'
<1> SUFFICES ASSUME NEW o \in live' PROVE Referenced(o)' \/ o \in doomed'
  BY DEF NothingForgotten
<1>1. CASE o \notin live
  BY <1>1 DEF Referenced
<1>2. CASE o \in live
  <2>1. o # None
    BY <1>2
  <2>2. Referenced(o) \/ o \in doomed
    BY <1>2 DEF NothingForgotten
  <2>3. Referenced(o) => Referenced(o)'
    BY <2>1, ReferencedStays
  <2> QED
    BY <2>2, <2>3
<1> QED
  BY <1>1, <1>2

LEMMA CountInvStep ==
    ASSUME TypeOK, LiveRecords, NoDanglingReference, CountInv, [Next]_vars
    PROVE  CountInv'
<1> USE DEF Surviving
<1>a. /\ \A s \in Streams : s \notin Connections /\ s \notin Listeners
      /\ \A c \in Connections : c \notin Listeners
      /\ None \notin live /\ None \notin Engines
      /\ None \notin Connections /\ None \notin Listeners /\ None \notin Streams
  BY ObjectsDisjoint, NoneAssumption DEF Objects, TypeOK
<1>b. /\ stream \in [Streams -> StreamRecord]
      /\ connection \in [Connections -> ConnectionRecord]
      /\ resource \in [Resources -> Streams \cup {None}]
      /\ live \subseteq Objects /\ doomed \subseteq live
  BY DEF TypeOK
<1>c. /\ \A s \in Streams : s \in Surviving => stream[s].connection \in Surviving
      /\ \A s \in Streams : stream[s].connection \in Connections \cup {None}
      /\ \A c \in Connections : connection[c].listener \in Listeners \cup {None}
  BY <1>b DEF NoDanglingReference, StreamRecord, ConnectionRecord
<1>d. StreamRecords /\ NothingForgotten /\ StreamOnItsConnection
  BY DEF CountInv
<1>e. \A s \in Streams : s \in Surviving => stream[s].connection \in Connections
  BY <1>a, <1>c
<1>1. ASSUME NEW l \in Listeners, NEW e \in Engines, NEW f \in Fds,
             Listener_construct(l, e, f)
      PROVE  CountInv'
  <2>1. /\ UNCHANGED <<connection, stream, resource, cyclic, doomed>>
        /\ live' = live \cup {l} /\ rooted' = rooted \cup {l}
    BY <1>1 DEF Listener_construct, NewReference
  <2>2. NothingForgotten'
    BY <1>a, <1>d, <2>1, CountsGrow
  <2> QED
    BY <1>a, <1>d, <2>1, <2>2 DEF CountInv, StreamRecords, StreamOnItsConnection,
       quic_stream_create
<1>2. ASSUME NEW c \in Connections, connection[c].listener = None,
             c \notin Surviving, live' = live \cup {c}, rooted' = rooted \cup {c},
             UNCHANGED <<stream, resource, cyclic, doomed>>,
             \A d \in Connections : d # c => connection'[d] = connection[d]
      PROVE  CountInv'
  <2>1. NothingForgotten'
    BY <1>2, <1>a, <1>d, CountsGrow
  <2>2. \A s \in Streams : s \in Surviving => stream[s].connection # c
    BY <1>2, <1>c
  <2>3. StreamOnItsConnection'
    BY <1>2, <1>a, <1>d, <1>e, <2>2 DEF StreamOnItsConnection
  <2>4. StreamRecords'
    BY <1>2, <1>a, <1>d DEF StreamRecords, quic_stream_create
  <2> QED
    BY <2>1, <2>3, <2>4 DEF CountInv
<1>3. ASSUME NEW l \in Listeners, NEW c \in Connections, Listener_accept(l, c)
      PROVE  CountInv'
  <2>1. connection[c].listener = None
    BY <1>3 DEF Listener_accept, LiveRecords, quic_connection_create
  <2> QED
    BY <1>2, <1>3, <1>b, <2>1 DEF Listener_accept, NewReference,
       php_quic_connection_init_object
<1>4. ASSUME NEW c \in Connections, NEW e \in Engines, NEW f \in Fds,
             Connection_construct(c, e, f)
      PROVE  CountInv'
  <2>1. c \notin live
    BY <1>4, <1>a DEF Connection_construct, Unset, LiveRecords
  <2>2. connection[c].listener = None
    BY <2>1 DEF LiveRecords, quic_connection_create
  <2> QED
    BY <1>2, <1>4, <1>b, <2>1, <2>2 DEF Connection_construct, NewReference
<1>5. ASSUME NEW c \in Connections, NEW s \in Streams,
             \/ Connection_openStream(c, s)
             \/ Connection_acceptStream(c, s)
             \/ Stream_construct(s, c)
      PROVE  CountInv'
  <2>1. /\ UNCHANGED <<connection, resource, cyclic, doomed>>
        /\ live' = live \cup {s} /\ rooted' = rooted \cup {s}
        /\ stream' = [stream EXCEPT ![s] =
              [ssl |-> connection[c].ssl, connection |-> c]]
        /\ connection[c].ssl # None
        /\ s \notin live \/ stream[s].ssl = None
    BY <1>5 DEF Connection_openStream, Connection_acceptStream, Stream_construct,
       php_quic_stream_init_object, NewReference, Unset
  <2>2. stream[s].connection = None
    BY <1>a, <1>d, <2>1 DEF StreamRecords, quic_stream_create
  <2>3. NothingForgotten'
    BY <1>a, <1>b, <1>d, <2>1, <2>2, CountsGrow
  <2>4. StreamRecords'
    BY <1>b, <1>d, <2>1 DEF StreamRecords, ConnectionRecord, quic_stream_create
  <2>5. StreamOnItsConnection'
    BY <1>b, <1>d, <2>1 DEF StreamOnItsConnection
  <2> QED
    BY <2>3, <2>4, <2>5 DEF CountInv
<1>6. ASSUME NEW c \in Connections, Connection_close(c)
      PROVE  CountInv'
  <2>1. /\ UNCHANGED <<stream, resource, live, rooted, cyclic, doomed>>
        /\ connection' = [connection EXCEPT ![c].closed = TRUE]
    BY <1>6 DEF Connection_close
  <2>2. \A d \in Connections : /\ connection'[d].listener = connection[d].listener
                               /\ connection'[d].ssl = connection[d].ssl
    BY <1>b, <2>1 DEF ConnectionRecord
  <2>3. NothingForgotten'
    BY <1>a, <1>d, <2>1, <2>2, CountsGrow
  <2> QED
    BY <1>d, <1>e, <2>1, <2>2, <2>3 DEF CountInv, StreamRecords,
       StreamOnItsConnection, quic_stream_create
<1>7. ASSUME NEW l \in Listeners, Listener_close(l) \/ quic_listener_free(l)
      PROVE  CountInv'
  <2>1. /\ UNCHANGED <<connection, stream, resource, rooted, cyclic>>
        /\ \/ live' = live /\ doomed' = doomed
           \/ live' = live \ {l} /\ doomed' = doomed \ {l}
    BY <1>7 DEF Listener_close, quic_listener_free, quic_listener_release
  <2>2. \A o : Referenced(o) => Referenced(o)'
    BY <2>1, ReferencedStays
  <2>3. NothingForgotten'
    BY <1>d, <2>1, <2>2 DEF NothingForgotten
  <2> QED
    BY <1>a, <1>d, <2>1, <2>3 DEF CountInv, StreamRecords, StreamOnItsConnection,
       quic_stream_create
<1>8. ASSUME NEW c \in Connections, quic_connection_free(c)
      PROVE  CountInv'
  <2> DEFINE x == connection[c].listener
  <2>1. /\ connection' = [connection EXCEPT ![c] = quic_connection_create]
        /\ UNCHANGED <<stream, resource, rooted, cyclic>>
        /\ c \in doomed /\ live' = live \ {c}
        /\ doomed' = (doomed \ {c}) \cup Unreferenced(x)
    BY <1>8 DEF quic_connection_free, ReleaseZval
  <2>2. \A d \in Connections : d # c => connection'[d] = connection[d]
    BY <1>b, <2>1
  <2>3. \A o \in live : o # x => (Referenced(o) => Referenced(o)')
    BY <2>1, <2>2, ReferencedStays
  <2>4. NothingForgotten'
    BY <1>d, <2>1, <2>3, DroppedIsDoomed
  <2>5. \A s \in Streams : s \in Surviving => stream[s].connection # c
    BY <1>c, <2>1
  <2>6. StreamOnItsConnection'
    <3>1. \A s \in Streams : s \in Surviving' => s \in Surviving
      BY <1>a, <2>1
    <3> QED
      BY <1>d, <1>e, <2>1, <2>2, <2>5, <3>1 DEF StreamOnItsConnection
  <2>7. StreamRecords'
    BY <1>a, <1>d, <2>1 DEF StreamRecords, quic_stream_create
  <2> QED
    BY <2>4, <2>6, <2>7 DEF CountInv
<1>9. ASSUME NEW s \in Streams, quic_stream_free(s)
      PROVE  CountInv'
  <2> DEFINE x == stream[s].connection
  <2>1. /\ stream' = [stream EXCEPT ![s] = quic_stream_create]
        /\ UNCHANGED <<connection, resource, rooted, cyclic>>
        /\ s \in doomed /\ live' = live \ {s}
        /\ doomed' = (doomed \ {s}) \cup Unreferenced(x)
    BY <1>9 DEF quic_stream_free, ReleaseZval
  <2>2. \A q \in Streams : q # s => stream'[q] = stream[q]
    BY <1>b, <2>1
  <2>3. \A o \in live : o # x => (Referenced(o) => Referenced(o)')
    BY <2>1, <2>2, ReferencedStays
  <2>4. NothingForgotten'
    BY <1>d, <2>1, <2>3, DroppedIsDoomed
  <2>5. \A q \in Streams : q \in Surviving' => q \in Surviving /\ q # s
    BY <2>1
  <2>6. StreamOnItsConnection'
    BY <1>d, <2>1, <2>2, <2>5 DEF StreamOnItsConnection
  <2>7. StreamRecords'
    BY <1>b, <1>d, <2>1, <2>2 DEF StreamRecords, quic_stream_create
  <2> QED
    BY <2>4, <2>6, <2>7 DEF CountInv
<1>10. ASSUME UNCHANGED <<connection, stream, live>>, doomed \subseteq doomed',
              NothingForgotten'
       PROVE  CountInv'
  BY <1>10, <1>d DEF CountInv, StreamRecords, StreamOnItsConnection, quic_stream_create
<1>11. ASSUME NEW s \in Streams, Stream_getConnection(s)
       PROVE  CountInv'
  <2>1. NothingForgotten'
    BY <1>11, <1>a, <1>d, CountsGrow DEF Stream_getConnection
  <2> QED
    BY <1>10, <1>11, <2>1 DEF Stream_getConnection
<1>12. ASSUME NEW s \in Streams, NEW r \in Resources, Stream_asStream(s, r)
       PROVE  CountInv'
  <2>1. NothingForgotten'
    BY <1>12, <1>a, <1>b, <1>d, CountsGrow DEF Stream_asStream
  <2> QED
    BY <1>10, <1>12, <2>1 DEF Stream_asStream
<1>13. ASSUME NEW r \in Resources, quic_stream_op_close(r)
       PROVE  CountInv'
  <2>1. /\ resource' = [resource EXCEPT ![r] = None]
        /\ UNCHANGED <<connection, stream, live, rooted, cyclic>>
        /\ doomed = {} /\ doomed' = Unreferenced(resource[r])
    BY <1>13 DEF quic_stream_op_close
  <2>2. \A o \in live : o # resource[r] => (Referenced(o) => Referenced(o)')
    BY <1>b, <2>1, ReferencedStays
  <2>3. NothingForgotten'
    BY <1>a, <1>d, <2>1, <2>2, DroppedIsDoomed
  <2> QED
    BY <1>10, <2>1, <2>3
<1>14. ASSUME NEW o \in Objects, DropVariable(o)
       PROVE  CountInv'
  <2>1. /\ rooted' = rooted \ {o}
        /\ UNCHANGED <<connection, stream, resource, live, cyclic>>
        /\ doomed = {} /\ doomed' = Unreferenced(o)
    BY <1>14 DEF DropVariable
  <2>2. \A x \in live : x # o => (Referenced(x) => Referenced(x)')
    BY <2>1, ReferencedStays
  <2>3. NothingForgotten'
    BY <1>a, <1>d, <2>1, <2>2, DroppedIsDoomed
  <2> QED
    BY <1>10, <2>1, <2>3
<1>15. ASSUME NEW o \in Objects, DropIntoCycle(o)
       PROVE  CountInv'
  <2>1. /\ rooted' = rooted \ {o} /\ cyclic' = cyclic \cup {o}
        /\ UNCHANGED <<connection, stream, resource, live, doomed>>
    BY <1>15 DEF DropIntoCycle
  <2>2. NothingForgotten'
    BY <1>d, <2>1 DEF NothingForgotten, Referenced, HeldByResource, HeldByStream,
       HeldByConnection
  <2> QED
    BY <1>10, <2>1, <2>2
<1>16. CASE CollectCycles
  <2>1. /\ doomed = {} /\ doomed' = live \ Reachable
        /\ UNCHANGED <<connection, stream, resource, live, rooted>>
    BY <1>16 DEF CollectCycles, Idle
  <2>2. \A o \in Reachable : \/ o \in rooted \/ HeldByResource(o)
                             \/ HeldByStream(o) \/ HeldByConnection(o)
    BY DEF Reachable, quic_stream_get_gc, quic_connection_get_gc, HeldByResource,
       HeldByStream, HeldByConnection
  <2>3. NothingForgotten'
    BY <2>1, <2>2 DEF NothingForgotten, Referenced, HeldByResource, HeldByStream,
       HeldByConnection
  <2> QED
    BY <1>10, <2>1, <2>3
<1>17. CASE FreeObjectStorage
  <2>1. /\ UNCHANGED <<connection, stream, live>> /\ doomed = {} /\ doomed' = live
    BY <1>17 DEF FreeObjectStorage
  <2>2. NothingForgotten'
    BY <2>1 DEF NothingForgotten
  <2> QED
    BY <1>10, <2>1, <2>2
<1>18. CASE RequestShutdown \/ NewRequest \/ UNCHANGED vars
  <2>1. UNCHANGED <<connection, stream, resource, live, rooted, cyclic, doomed>>
    BY <1>18 DEF RequestShutdown, NewRequest, vars
  <2>2. NothingForgotten'
    BY <1>a, <1>d, <2>1, CountsGrow
  <2> QED
    BY <1>10, <2>1, <2>2
<1>19. CASE Userland
  BY <1>1, <1>3, <1>4, <1>5, <1>6, <1>7, <1>11, <1>12, <1>15, <1>19 DEF Userland
<1> QED
  BY <1>7, <1>8, <1>9, <1>13, <1>14, <1>16, <1>17, <1>18, <1>19
     DEF Next, DropReference, FreeObject

LEMMA CountInvariant == Spec => []CountInv
<1>1. Init => CountInv
  BY DEF Init, CountInv, StreamRecords, NothingForgotten, StreamOnItsConnection,
     Surviving
<1>2. SocketInv => LiveRecords
  BY DEF SocketInv
<1> QED
  BY <1>1, <1>2, CountInvStep, TypeCorrect, SocketInvInductive,
     ReferencesStayAlive, PTL DEF Spec

(* The reference counts balance: an allocated object that nothing refers to *)
(* is being destroyed, so that no engine or descriptor waits for the end of *)
(* the request because a free handler forgot a zval.                        *)
THEOREM CountsBalance == Spec => []NothingForgotten
<1>1. CountInv => NothingForgotten
  BY DEF CountInv
<1> QED
  BY <1>1, CountInvariant, PTL

(* A Stream that survives runs on the engine of the Connection that         *)
(* getConnection() returns.                                                 *)
THEOREM StreamsStayOnConnections == Spec => []StreamOnItsConnection
<1>1. CountInv => StreamOnItsConnection
  BY DEF CountInv
<1> QED
  BY <1>1, CountInvariant, PTL

-----------------------------------------------------------------------------
(* The end of a request, apart from fairness. *)

(* A Listener that is not allocated has nothing to release. *)
FreeListenerRecords ==
    \A l \in Listeners : l \notin live => listener[l] = quic_listener_create

(* What the free handlers leave when all of them have run: no descriptor is *)
(* open and no engine alive once no object is allocated.                    *)
ReleasedWithObjects ==
    live = {} => /\ \A f \in Fds : sock[f] = None
                 /\ \A e \in Engines : ~EngineAlive(e)

(* From the beginning of the shutdown on objects and descriptors only go:   *)
(* no destructor brings one into being.                                     *)
ShutdownOnlyFrees ==
    [][request = "shutdown" =>
          live' \subseteq live /\ \A f \in Fds : sock[f] = None => sock'[f] = None]_vars

LEMMA FreeListenerRecordsStep ==
    ASSUME TypeOK, FreeListenerRecords, [Next]_vars
    PROVE  FreeListenerRecords'
<1> USE DEF FreeListenerRecords
<1>1. ASSUME NEW l \in Listeners, listener' = [listener EXCEPT ![l] = quic_listener_create],
             live' = live \/ live' = live \ {l}
      PROVE  FreeListenerRecords'
  BY <1>1 DEF TypeOK
<1>2. ASSUME listener' = listener,
             \/ live \subseteq live'
             \/ \E o \in Connections \cup Streams : live' = live \ {o}
      PROVE  FreeListenerRecords'
  BY <1>2, ObjectsDisjoint
<1>3. CASE Userland
  <2>1. ASSUME NEW l \in Listeners, NEW e \in Engines, NEW f \in Fds,
               Listener_construct(l, e, f)
        PROVE  FreeListenerRecords'
    BY <2>1 DEF Listener_construct, NewReference, TypeOK
  <2>2. ASSUME NEW l \in Listeners, Listener_close(l)
        PROVE  FreeListenerRecords'
    BY <1>1, <2>2 DEF Listener_close, quic_listener_release
  <2>3. CASE listener' = listener /\ live \subseteq live'
    BY <1>2, <2>3
  <2> QED
    BY <1>3, <2>1, <2>2, <2>3
       DEF Userland, Listener_accept, Connection_construct, Connection_openStream,
           Connection_acceptStream, Connection_close, Stream_construct,
           Stream_getConnection, Stream_asStream, DropIntoCycle, NewReference
<1>4. CASE DropReference \/ CollectCycles \/ RequestShutdown \/ FreeObjectStorage \/ NewRequest
  <2>1. listener' = listener /\ live' = live
    BY <1>4 DEF DropReference, DropVariable, quic_stream_op_close, CollectCycles,
                RequestShutdown, FreeObjectStorage, NewRequest
  <2> QED
    BY <1>2, <2>1
<1>5. CASE FreeObject
  BY <1>1, <1>2, <1>5 DEF FreeObject, quic_stream_free, quic_connection_free,
                          quic_listener_free, quic_listener_release
<1>6. CASE UNCHANGED vars
  BY <1>6 DEF vars
<1> QED
  BY <1>3, <1>4, <1>5, <1>6 DEF Next

(* When every object is freed every descriptor is closed and every engine   *)
(* gone: the free handlers forget nothing, in whichever order they ran.     *)
THEOREM NothingOutlivesObjects == Spec => []ReleasedWithObjects
<1>1. Init => FreeListenerRecords
  BY DEF Init, FreeListenerRecords
<1>2. SocketInv /\ CountInv /\ FreeListenerRecords => ReleasedWithObjects
  <2> SUFFICES ASSUME SocketInv, CountInv, FreeListenerRecords, live = {}
               PROVE  /\ \A f \in Fds : sock[f] = None
                      /\ \A e \in Engines : ~EngineAlive(e)
    BY DEF ReleasedWithObjects
  <2>1. /\ \A l \in Listeners : listener[l].ssl = None /\ listener[l].fd = None
        /\ \A c \in Connections : connection[c].ssl = None /\ ~connection[c].owns_fd
        /\ \A s \in Streams : stream[s].ssl = None
    BY DEF FreeListenerRecords, SocketInv, LiveRecords, CountInv, StreamRecords,
           quic_listener_create, quic_connection_create, quic_stream_create
  <2>2. \A e \in Engines : ~EngineAlive(e)
    BY <2>1, NoneAssumption DEF EngineAlive
  <2>3. \A f \in Fds, o \in Objects : ~OwnsSocket(o, f)
    BY <2>1, NoneAssumption DEF OwnsSocket
  <2> QED
    BY <2>2, <2>3 DEF SocketInv, DescriptorOwnedOnce
<1>3. FreeListenerRecords /\ TypeOK /\ [Next]_vars => FreeListenerRecords'
  BY FreeListenerRecordsStep
<1> QED
  BY <1>1, <1>2, <1>3, TypeCorrect, SocketInvInductive, CountInvariant, PTL DEF Spec

(* A request that shuts down allocates no object and opens no descriptor:   *)
(* with NothingOutlivesObjects, what ShutdownReleasesAll rests on besides   *)
(* fairness.                                                                *)
THEOREM ShutdownMakesNothing == Spec => ShutdownOnlyFrees
<1>1. ASSUME TypeOK, [Next]_vars, request = "shutdown"
      PROVE  live' \subseteq live /\ \A f \in Fds : sock[f] = None => sock'[f] = None
  <2>1. ~Userland
    BY <1>1 DEF Userland, Idle, Listener_construct, Listener_accept, Listener_close,
                Connection_construct, Connection_openStream, Connection_acceptStream,
                Connection_close, Stream_construct, Stream_getConnection, Stream_asStream,
                DropIntoCycle
  <2>2. ASSUME NEW x, CloseSocket(x)
        PROVE  \A f \in Fds : sock[f] = None => sock'[f] = None
    BY <1>1, <2>2 DEF CloseSocket, TypeOK
  <2>3. CASE FreeObject
    BY <2>2, <2>3 DEF FreeObject, quic_stream_free, quic_connection_free,
                      quic_listener_free, quic_listener_release
  <2>4. CASE DropReference \/ CollectCycles \/ RequestShutdown \/ FreeObjectStorage \/ NewRequest
    BY <2>4 DEF DropReference, DropVariable, quic_stream_op_close, CollectCycles,
                RequestShutdown, FreeObjectStorage, NewRequest
  <2>5. CASE UNCHANGED vars
    BY <2>5 DEF vars
  <2> QED
    BY <1>1, <2>1, <2>3, <2>4, <2>5 DEF Next
<1>2. TypeOK /\ [Next]_vars =>
         [request = "shutdown" =>
             live' \subseteq live /\ \A f \in Fds : sock[f] = None => sock'[f] = None]_vars
  BY <1>1
<1> QED
  BY <1>2, TypeCorrect, PTL DEF Spec, ShutdownOnlyFrees

-----------------------------------------------------------------------------
(* QuicObjects implements DescriptorTable. *)

Owners == Listeners \cup Connections

(* The refinement mapping of Table, under names of its own. *)
OpenFds == {f \in Fds : sock[f] # None}
Holder == [o \in Owners |-> DescriptorOf(o)]

LEMMA OwnersDisjoint ==
    /\ \A c \in Connections : c \notin Listeners
    /\ None \notin Fds /\ None \notin Engines
  BY ObjectsDisjoint, NoneAssumption DEF Objects

(* A step that changes the descriptor of one object changes one entry of    *)
(* the table.                                                               *)
LEMMA HolderUpdate ==
    ASSUME NEW o \in Owners, NEW d,
           DescriptorOf(o)' = d,
           \A p \in Owners : p # o => DescriptorOf(p)' = DescriptorOf(p)
    PROVE  Holder' = [Holder EXCEPT ![o] = d]
<1>1. \A p \in Owners : DescriptorOf(p)' = IF p = o THEN d ELSE DescriptorOf(p)
  OBVIOUS
<1> QED
  BY <1>1 DEF Holder

(* The constructors, as seen in the table. *)
LEMMA ConstructAcquires ==
    ASSUME TypeOK, LiveRecords,
           NEW e \in Engines, NEW f \in Fds,
           \/ \E l \in Listeners : Listener_construct(l, e, f)
           \/ \E c \in Connections : Connection_construct(c, e, f)
    PROVE  \E o \in Owners :
              /\ Holder[o] = None /\ f \notin OpenFds
              /\ OpenFds' = OpenFds \cup {f}
              /\ Holder' = [Holder EXCEPT ![o] = f]
<1>1. sock[f] = None /\ sock' = [sock EXCEPT ![f] = e]
  BY DEF Listener_construct, Connection_construct, OpenSocket
<1>2. f \notin OpenFds /\ OpenFds' = OpenFds \cup {f}
  BY <1>1, OwnersDisjoint DEF OpenFds, TypeOK
<1>3. ASSUME NEW l \in Listeners, Listener_construct(l, e, f)
      PROVE  /\ l \in Owners /\ Holder[l] = None
             /\ Holder' = [Holder EXCEPT ![l] = f]
  <2>1. /\ listener[l].ssl = None
        /\ listener' = [listener EXCEPT ![l] = [ssl |-> e, fd |-> f]]
        /\ connection' = connection
    BY <1>3 DEF Listener_construct, Unset
  <2>2. DescriptorOf(l) = None
    BY <2>1 DEF DescriptorOf, LiveRecords
  <2>3. /\ DescriptorOf(l)' = f
        /\ \A p \in Owners : p # l => DescriptorOf(p)' = DescriptorOf(p)
    BY <2>1 DEF DescriptorOf, OwnedFd, TypeOK
  <2> QED
    BY <2>2, <2>3, HolderUpdate DEF Owners, Holder
<1>4. ASSUME NEW c \in Connections, Connection_construct(c, e, f)
      PROVE  /\ c \in Owners /\ Holder[c] = None
             /\ Holder' = [Holder EXCEPT ![c] = f]
  <2>1. /\ connection[c].ssl = None
        /\ connection' = [connection EXCEPT ![c] =
              [ssl |-> e, fd |-> f, owns_fd |-> TRUE, closed |-> FALSE,
               listener |-> None]]
        /\ listener' = listener
    BY <1>4 DEF Connection_construct, Unset
  <2>2. DescriptorOf(c) = None
    BY <2>1, OwnersDisjoint DEF DescriptorOf, OwnedFd, LiveRecords,
       quic_connection_create
  <2>3. /\ DescriptorOf(c)' = f
        /\ \A p \in Owners : p # c => DescriptorOf(p)' = DescriptorOf(p)
    BY <2>1, OwnersDisjoint DEF DescriptorOf, OwnedFd, Owners, TypeOK
  <2> QED
    BY <2>2, <2>3, HolderUpdate DEF Owners, Holder
<1> QED
  BY <1>2, <1>3, <1>4

(* Closing the descriptor an object owns, if it owns one. *)
LEMMA CloseReleases ==
    ASSUME TypeOK, EngineSockets, NEW o \in Owners,
           CloseSocket(DescriptorOf(o)),
           DescriptorOf(o)' = None,
           \A p \in Owners : p # o => DescriptorOf(p)' = DescriptorOf(p),
           LiveRecords
    PROVE  \/ /\ Holder[o] \in OpenFds
              /\ OpenFds' = OpenFds \ {Holder[o]}
              /\ Holder' = [Holder EXCEPT ![o] = None]
           \/ UNCHANGED <<OpenFds, Holder>>
<1> DEFINE d == DescriptorOf(o)
<1>1. Holder[o] = d
  BY DEF Holder
<1>2. Holder' = [Holder EXCEPT ![o] = None]
  BY HolderUpdate
<1>3. CASE d = None
  <2>1. Holder' = Holder
    BY <1>1, <1>2, <1>3 DEF Holder
  <2>2. sock' = sock
    BY <1>3 DEF CloseSocket
  <2> QED
    BY <2>1, <2>2 DEF OpenFds
<1>4. CASE d # None
  <2>1. d \in Fds /\ sock[d] # None
    <3>1. CASE o \in Listeners
      <4>1. d = listener[o].fd
        BY <3>1 DEF DescriptorOf
      <4>2. listener[o].fd \in Fds /\ listener[o].ssl # None
        BY <1>4, <3>1, <4>1 DEF LiveRecords, TypeOK, ListenerRecord
      <4> QED
        BY <3>1, <4>1, <4>2 DEF EngineSockets
    <3>2. CASE o \in Connections /\ o \notin Listeners
      <4>1. connection[o].owns_fd /\ d = connection[o].fd
        BY <1>4, <3>2 DEF DescriptorOf, OwnedFd
      <4>2. /\ connection[o].fd \in Fds
            /\ sock[connection[o].fd] = connection[o].ssl
        BY <3>2, <4>1 DEF EngineSockets
      <4>3. connection[o].ssl # None
        BY <3>2, <4>1, OwnersDisjoint DEF LiveRecords, quic_connection_create
      <4> QED
        BY <4>1, <4>2, <4>3
    <3> QED
      BY <3>1, <3>2 DEF Owners
  <2>2. sock' = [sock EXCEPT ![d] = None]
    BY <1>4 DEF CloseSocket
  <2> HIDE DEF d
  <2>3. d \in OpenFds /\ OpenFds' = OpenFds \ {d}
    BY <2>1, <2>2 DEF OpenFds, TypeOK
  <2> QED
    BY <1>1, <1>2, <2>3
<1> QED
  BY <1>3, <1>4

(* Every step acquires, releases or leaves the table alone. *)
LEMMA TableStep ==
    ASSUME TypeOK, SocketInv, [Next]_vars
    PROVE  [Table!Next]_(Table!tableVars)
<1> DEFINE Acquired(o, f) == /\ Holder[o] = None /\ f \notin OpenFds
                             /\ OpenFds' = OpenFds \cup {f}
                             /\ Holder' = [Holder EXCEPT ![o] = f]
           Released(o) == /\ Holder[o] \in OpenFds
                          /\ OpenFds' = OpenFds \ {Holder[o]}
                          /\ Holder' = [Holder EXCEPT ![o] = None]
<1> SUFFICES \/ \E o \in Owners, f \in Fds : Acquired(o, f)
             \/ \E o \in Owners : Released(o)
             \/ UNCHANGED <<OpenFds, Holder>>
  BY DEF Table!Next, Table!Acquire, Table!Release, Table!tableVars, OpenFds,
     Holder, Owners
<1>0. LiveRecords /\ EngineSockets
  BY DEF SocketInv
<1>1. ASSUME NEW e \in Engines, NEW f \in Fds,
             \/ \E l \in Listeners : Listener_construct(l, e, f)
             \/ \E c \in Connections : Connection_construct(c, e, f)
      PROVE  \E o \in Owners : Acquired(o, f)
  BY <1>0, <1>1, ConstructAcquires
<1>2. ASSUME NEW l \in Listeners, Listener_close(l) \/ quic_listener_free(l)
      PROVE  Released(l) \/ UNCHANGED <<OpenFds, Holder>>
  <2>1. /\ listener' = [listener EXCEPT ![l] = quic_listener_create]
        /\ CloseSocket(listener[l].fd) /\ connection' = connection
    BY <1>2 DEF Listener_close, quic_listener_free, quic_listener_release
  <2>2. /\ DescriptorOf(l) = listener[l].fd /\ DescriptorOf(l)' = None
        /\ \A p \in Owners : p # l => DescriptorOf(p)' = DescriptorOf(p)
    BY <2>1 DEF DescriptorOf, OwnedFd, quic_listener_create, TypeOK
  <2> QED
    BY <1>0, <2>1, <2>2, CloseReleases DEF Owners
<1>3. ASSUME NEW c \in Connections, quic_connection_free(c)
      PROVE  Released(c) \/ UNCHANGED <<OpenFds, Holder>>
  <2>1. /\ connection' = [connection EXCEPT ![c] = quic_connection_create]
        /\ CloseSocket(OwnedFd(c)) /\ listener' = listener
    BY <1>3 DEF quic_connection_free
  <2>2. /\ DescriptorOf(c) = OwnedFd(c) /\ DescriptorOf(c)' = None
        /\ \A p \in Owners : p # c => DescriptorOf(p)' = DescriptorOf(p)
    BY <2>1, OwnersDisjoint DEF DescriptorOf, OwnedFd, quic_connection_create,
       Owners, TypeOK
  <2> QED
    BY <1>0, <2>1, <2>2, CloseReleases DEF Owners
<1>4. ASSUME NEW l \in Listeners, NEW c \in Connections, Listener_accept(l, c)
      PROVE  UNCHANGED <<OpenFds, Holder>>
  <2>1. /\ connection[c] = quic_connection_create
        /\ UNCHANGED <<listener, sock>>
        /\ connection' = [connection EXCEPT ![c] =
              [ssl |-> listener[l].ssl, fd |-> listener[l].fd,
               owns_fd |-> FALSE, closed |-> FALSE, listener |-> l]]
    BY <1>0, <1>4 DEF Listener_accept, php_quic_connection_init_object, LiveRecords
  <2>2. \A p \in Owners : DescriptorOf(p)' = DescriptorOf(p)
    BY <2>1 DEF DescriptorOf, OwnedFd, quic_connection_create, Owners, TypeOK
  <2> QED
    BY <2>1, <2>2 DEF OpenFds, Holder
<1>5. ASSUME NEW c \in Connections, Connection_close(c)
      PROVE  UNCHANGED <<OpenFds, Holder>>
  <2>1. /\ UNCHANGED <<listener, sock>>
        /\ connection' = [connection EXCEPT ![c].closed = TRUE]
    BY <1>5 DEF Connection_close
  <2>2. \A d \in Connections : /\ connection'[d].owns_fd = connection[d].owns_fd
                               /\ connection'[d].fd = connection[d].fd
    BY <2>1 DEF TypeOK, ConnectionRecord
  <2>3. \A p \in Owners : DescriptorOf(p)' = DescriptorOf(p)
    BY <2>1, <2>2 DEF DescriptorOf, OwnedFd, Owners
  <2> QED
    BY <2>1, <2>3 DEF OpenFds, Holder
<1>6. ASSUME UNCHANGED <<listener, connection, sock>>
      PROVE  UNCHANGED <<OpenFds, Holder>>
  BY <1>6 DEF OpenFds, Holder, DescriptorOf, OwnedFd
<1>7. ASSUME \/ \E c \in Connections, s \in Streams :
                   \/ Connection_openStream(c, s)
                   \/ Connection_acceptStream(c, s)
                   \/ Stream_construct(s, c)
             \/ \E s \in Streams : Stream_getConnection(s) \/ quic_stream_free(s)
             \/ \E s \in Streams, r \in Resources : Stream_asStream(s, r)
             \/ \E o \in Objects : DropIntoCycle(o)
             \/ DropReference \/ CollectCycles \/ RequestShutdown
             \/ FreeObjectStorage \/ NewRequest \/ UNCHANGED vars
      PROVE  UNCHANGED <<listener, connection, sock>>
  BY <1>7 DEF Connection_openStream, Connection_acceptStream, Stream_construct,
     Stream_getConnection, quic_stream_free, Stream_asStream, DropIntoCycle,
     DropReference, DropVariable, quic_stream_op_close, CollectCycles,
     RequestShutdown, FreeObjectStorage, NewRequest, vars
<1> HIDE DEF Acquired, Released
<1>8. CASE Userland
  BY <1>1, <1>2, <1>4, <1>5, <1>6, <1>7, <1>8 DEF Userland, Owners
<1>9. CASE FreeObject
  BY <1>2, <1>3, <1>6, <1>7, <1>9 DEF FreeObject, Owners
<1> QED
  BY <1>6, <1>7, <1>8, <1>9 DEF Next

(* The descriptors are used as DescriptorTable allows: the object that      *)
(* opened one closes it once, whatever order constructors, accept(),        *)
(* close(), the free handlers and the end of the request take.              *)
THEOREM ObjectsImplementTable == Spec => ImplementsTable
<1>1. Init => Table!Init
  BY OwnersDisjoint DEF Init, Table!Init, DescriptorOf, OwnedFd,
     quic_listener_create, quic_connection_create
<1> QED
  BY <1>1, TableStep, TypeCorrect, SocketInvInductive, PTL
     DEF Spec, ImplementsTable, Table!Spec
=============================================================================
