------------------------- MODULE ListenerSetupProofs -------------------------
(***************************************************************************)
(* Proofs about ListenerSetup for any number of resolved addresses and any *)
(* sequence of constructor and close() calls on one object, and about the  *)
(* two things that are set up from its options: the TLS context            *)
(* (TlsContext), and the list of protocols (Alpn) for options, names and   *)
(* client lists of any length.                                             *)
(***************************************************************************)
EXTENDS ListenerSetup, TlsContext, Alpn, Integers, TLAPS, WellFoundedInduction,
        SequenceTheorems

(* The ledger, entry by entry; with the callback data comes its string. *)
Holds(l, refs) ==
    /\ locals = l /\ ctxRefs = refs
    /\ alloc = l \cup (IF "adata" \in l THEN {"alpn"} ELSE {})

Cleanups == {"alpn", "adata", "ssl", "ctx", "sock"}
Releases == {"free_ssl", "free_fd", "free_ctx", "free_alpn"}

(* The constructor owns what it has made; the resolver's list, which no     *)
(* local of the constructor holds, lives within php_quic_udp_server().      *)
ConstructPhase ==
    /\ pc = "lookup" => Holds({"alpn"}, 0)
    /\ pc = "socket" => locals = {"alpn"} /\ alloc = {"alpn", "res"} /\ ctxRefs = 0
    /\ pc = "bind" =>
          locals = {"alpn", "sock"} /\ alloc = {"alpn", "sock", "res"} /\ ctxRefs = 0
    /\ pc = "returned" => Holds({"alpn"}, 0) \/ Holds({"alpn", "sock"}, 0)
    /\ pc = "ctx_new" => Holds({"alpn", "sock"}, 0)
    /\ pc = "configure" => Holds({"alpn", "sock", "ctx"}, 1)
    /\ pc = "new_listener" => Holds({"adata", "sock", "ctx"}, 1)
    /\ pc \in {"bio_new", "listen"} => Holds({"adata", "sock", "ctx", "ssl"}, 2)
    /\ pc = "listen" => bio

(* The string is a local of its own until the callback data takes it; what  *)
(* is left of either goes first in the cleanup, the socket last.            *)
CleanupPhase ==
    /\ pc = "alpn" =>
          \/ Holds({"alpn", "sock"}, 0) \/ Holds({"alpn", "sock", "ctx"}, 1)
          \/ Holds({"adata", "sock", "ctx"}, 1) \/ Holds({"adata", "sock", "ctx", "ssl"}, 2)
    /\ pc = "adata" =>
          \/ Holds({"sock"}, 0) \/ Holds({"sock", "ctx"}, 1)
          \/ Holds({"adata", "sock", "ctx"}, 1) \/ Holds({"adata", "sock", "ctx", "ssl"}, 2)
    /\ pc = "ssl" =>
          Holds({"sock"}, 0) \/ Holds({"sock", "ctx"}, 1) \/ Holds({"sock", "ctx", "ssl"}, 2)
    /\ pc = "ctx" => Holds({"sock"}, 0) \/ Holds({"sock", "ctx"}, 1)
    /\ pc = "sock" => Holds({"sock"}, 0)

(* What the object holds, and the callback data's string with it. *)
Owns(o, refs) ==
    /\ object = o /\ ctxRefs = refs
    /\ alloc = o \cup (IF "adata" \in o THEN {"alpn"} ELSE {})

Full == Owns({"ssl", "ctx", "sock", "adata"}, 2) /\ bio /\ listens

(* The release takes the object apart, from the SSL object to the string. *)
ObjectPhase ==
    /\ pc \in {"idle"} \cup Releases => locals = {}
    /\ pc \in {"idle", "free_ssl"} => Full \/ Owns({}, 0)
    /\ pc = "free_fd" => Owns({"ctx", "sock", "adata"}, 1) \/ Owns({}, 0)
    /\ pc = "free_ctx" => Owns({"ctx", "adata"}, 1) \/ Owns({}, 0)
    /\ pc = "free_alpn" => Owns({"adata"}, 0) \/ Owns({}, 0)
    /\ pc \notin {"idle"} \cup Releases => object = {}

(* Only an SSL object has a BIO, and only the object's listens. *)
BioOfSsl ==
    /\ bio \in BOOLEAN /\ (bio => "ssl" \in alloc)
    /\ listens \in BOOLEAN /\ (listens => "ssl" \in object)

Labels ==
    {"lookup", "socket", "bind", "returned", "ctx_new", "configure", "new_listener",
     "bio_new", "listen", "idle"} \cup Cleanups \cup Releases

Ledger ==
    pc \in Labels /\ ConstructPhase /\ CleanupPhase /\ ObjectPhase /\ BioOfSsl

-----------------------------------------------------------------------------
LEMMA LedgerInit == Init => Ledger
  BY DEF Init, Ledger, Labels, Cleanups, Releases, ConstructPhase, CleanupPhase,
         ObjectPhase, BioOfSsl, Owns, Holds, Full

(* The calls up to the socket. *)
LEMMA SocketKeepsLedger ==
    ASSUME Ledger, Arguments \/ Lookup \/ Socket \/ Bind \/ UdpReturned
    PROVE  Ledger'
<1> USE DEF Ledger, Labels, Cleanups, Releases, ConstructPhase, CleanupPhase,
            ObjectPhase, BioOfSsl, Holds, Goto
<1>1. CASE Arguments
  BY <1>1 DEF Arguments, Allocate, Owns, Full
<1>2. CASE Lookup
  BY <1>2 DEF Lookup
<1>3. CASE Socket
  BY <1>3 DEF Socket, Allocate
<1>4. CASE Bind
  BY <1>4 DEF Bind, CloseTried
<1>5. CASE UdpReturned
  BY <1>5 DEF UdpReturned, Owns
<1> QED
  BY <1>1, <1>2, <1>3, <1>4, <1>5

(* The calls from the context on. *)
LEMMA TlsKeepsLedger ==
    ASSUME Ledger, CtxNew \/ Configure \/ NewListener \/ BioNew \/ Listen
    PROVE  Ledger'
<1> USE DEF Ledger, Labels, Cleanups, Releases, ConstructPhase, CleanupPhase,
            ObjectPhase, BioOfSsl, Holds, Goto, Fails, held
<1>1. CASE CtxNew
  BY <1>1 DEF CtxNew, Allocate
<1>2. CASE Configure
  BY <1>2 DEF Configure, AlpnMoved
<1>3. CASE NewListener
  BY <1>3 DEF NewListener, Allocate
<1>4. CASE BioNew
  BY <1>4 DEF BioNew
<1>5. CASE Listen
  <2>1. CASE Fails
    BY <1>5, <2>1 DEF Listen
  <2>2. CASE ~Fails
    <3>1. /\ locals = {"adata", "sock", "ctx", "ssl"} /\ ctxRefs = 2 /\ bio = TRUE
          /\ alloc = {"adata", "sock", "ctx", "ssl", "alpn"}
      BY <1>5 DEF Listen
    <3>2. /\ pc' = "idle" /\ listens' = TRUE /\ object' = locals /\ locals' = {}
          /\ UNCHANGED <<alloc, ctxRefs, bio>>
      BY <1>5, <2>2 DEF Listen
    <3>3. Full'
      BY <3>1, <3>2 DEF Full, Owns
    <3> QED
      BY <3>1, <3>2, <3>3
  <2> QED
    BY <2>1, <2>2
<1> QED
  BY <1>1, <1>2, <1>3, <1>4, <1>5

(* One statement of the cleanup label. *)
LEMMA CleanupKeepsLedger ==
    ASSUME Ledger, NEW x \in Cleanups, Cleanup(x)
    PROVE  Ledger'
<1> USE DEF Ledger, Labels, Cleanups, Releases, ConstructPhase, CleanupPhase,
            ObjectPhase, BioOfSsl, Holds, Goto, Cleanup, CleanupNext, FreeIfSet,
            CtxRefsDropped, Parts
<1>1. CASE x = "alpn"
  BY <1>1
<1>2. CASE x = "adata"
  BY <1>2
<1>3. CASE x = "ssl"
  BY <1>3
<1>4. CASE x = "ctx"
  BY <1>4
<1>5. CASE x = "sock"
  BY <1>5 DEF Owns
<1> QED
  BY <1>1, <1>2, <1>3, <1>4, <1>5

(* A pointer that is not set, with no context left: nothing is freed. *)
LEMMA FreeUnset ==
    ASSUME NEW x, NEW set, x \notin set, ctxRefs = 0, FreeIfSet(x, set)
    PROVE  ctxRefs' = 0 /\ alloc' = alloc \ {"ctx"}
<1>1. CtxRefsDropped(x, set) = 0
  BY DEF CtxRefsDropped
<1>2. ctxRefs' = 0
  BY <1>1 DEF FreeIfSet
<1> QED
  BY <1>1 DEF FreeIfSet

(* One statement of the release, in its order. *)
LEMMA ReleaseKeepsLedger ==
    ASSUME Ledger, quic_listener_release
    PROVE  Ledger'
<1>1. pc \in Releases
  BY DEF quic_listener_release, ReleaseStep, Releases
<1> DEFINE x == ReleaseOrder[ReleaseStep[pc]]
<1>2. /\ FreeIfSet(x, object) /\ object' = object \ {x}
      /\ listens' = (listens /\ x # "ssl") /\ pc' = ReleaseNext[pc] /\ locals' = locals
  BY DEF quic_listener_release, Goto
<1>3. /\ pc = "free_ssl" => x = "ssl" /\ pc' = "free_fd"
      /\ pc = "free_fd" => x = "sock" /\ pc' = "free_ctx"
      /\ pc = "free_ctx" => x = "ctx" /\ pc' = "free_alpn"
      /\ pc = "free_alpn" => x = "adata" /\ pc' = "idle"
  BY <1>2 DEF ReleaseOrder, ReleaseStep, ReleaseNext
<1> HIDE DEF x
<1> USE <1>2, <1>3 DEF Ledger, Labels, Cleanups, Releases, ConstructPhase, CleanupPhase,
        ObjectPhase, BioOfSsl, Owns, Full, FreeIfSet, CtxRefsDropped, Parts
<1>4. CASE pc = "free_ssl"
  <2>1. CASE Full
    <3>1. ctxRefs' = 1
      BY <1>4, <2>1
    <3>2. bio' = FALSE /\ listens' = FALSE
      BY <1>4, <2>1, <3>1
    <3>3. object' = {"ctx", "sock", "adata"}
      BY <1>4, <2>1
    <3>4. alloc' = {"ctx", "sock", "adata", "alpn"}
      BY <1>4, <2>1, <3>1
    <3> QED
      BY <1>4, <3>1, <3>2, <3>3, <3>4
  <2>2. CASE Owns({}, 0)
    <3>0. object = {} /\ alloc = {} /\ ctxRefs = 0
      BY <2>2
    <3>1. ctxRefs' = 0 /\ object' = {} /\ alloc' = {}
      BY <3>0, FreeUnset
    <3>2. bio = FALSE /\ listens = FALSE
      BY <2>2
    <3>3. bio' = FALSE /\ listens' = FALSE
      BY <3>2
    <3> QED
      BY <1>4, <3>1, <3>3
  <2> QED
    BY <1>4, <2>1, <2>2
<1>5. CASE pc = "free_fd"
  BY <1>5
<1>6. CASE pc = "free_ctx"
  BY <1>6
<1>7. CASE pc = "free_alpn"
  BY <1>7
<1> QED
  BY <1>1, <1>4, <1>5, <1>6, <1>7

LEMMA LedgerKept == Ledger /\ [Next]_vars => Ledger'
<1> SUFFICES ASSUME Ledger, [Next]_vars PROVE Ledger'
  OBVIOUS
<1> USE DEF Ledger, Labels, Cleanups, Releases, ConstructPhase, CleanupPhase,
            ObjectPhase, BioOfSsl, Holds, Owns, Full
<1>1. CASE UNCHANGED vars
  BY <1>1 DEF vars, held
<1>2. CASE Close
  BY <1>2 DEF Close, held, Goto
<1> QED
  BY <1>1, <1>2, SocketKeepsLedger, TlsKeepsLedger, CleanupKeepsLedger, ReleaseKeepsLedger
     DEF Next

LEMMA LedgerHolds == Spec => []Ledger
  BY LedgerInit, LedgerKept, PTL DEF Spec

-----------------------------------------------------------------------------
(* Quic\Listener::__construct(), its cleanup and quic_listener_release():   *)
(* whichever calls fail and however often the object is bound and closed,   *)
(* no pointer to something freed, no BIO on a closed descriptor, and an     *)
(* SSL_CTX exactly while the listener or its SSL object refers to it.       *)
THEOREM ListenerLedgerSound == Spec => []LedgerSound
<1>1. Ledger => LedgerSound
  <2> SUFFICES ASSUME Ledger PROVE LedgerSound
    OBVIOUS
  <2> USE DEF Ledger, Labels, Cleanups, Releases, ConstructPhase, CleanupPhase,
              ObjectPhase, BioOfSsl, Holds, Owns, Full
  <2>1. PointersAlive
    BY DEF PointersAlive, Parts
  <2>2. BioSocketOpen
    BY DEF BioSocketOpen
  <2>3. ctxRefs \in Nat /\ ("ctx" \in alloc <=> ctxRefs > 0)
    OBVIOUS
  <2> QED
    BY <2>1, <2>2, <2>3 DEF LedgerSound
<1> QED
  BY <1>1, LedgerHolds, PTL

(* Between calls a listener object holds all that listening takes or        *)
(* nothing, and nothing that it does not hold is left allocated.            *)
THEOREM ListenerAllOrNothing == Spec => []AllOrNothing
<1>1. Ledger => AllOrNothing
  BY DEF Ledger, ObjectPhase, BioOfSsl, Owns, Full, AllOrNothing
<1> QED
  BY <1>1, LedgerHolds, PTL

(* The ALPN callback data outlives the engine that runs the callback. *)
THEOREM ListenerAlpnWhileListening == Spec => []AlpnWhileListening
<1>1. Ledger => AlpnWhileListening
  BY DEF Ledger, Labels, Cleanups, Releases, ObjectPhase, BioOfSsl, Owns, Full,
         AlpnWhileListening
<1> QED
  BY <1>1, LedgerHolds, PTL

-----------------------------------------------------------------------------
(* TlsContext: the inside of the step Configure of both constructors, and   *)
(* the handshake that follows.                                              *)
BeforeVerify == {"cert", "key", "check_key", "verify"}
AfterVerify == {"tuning", "success", "accepted", "refused"}

TlsTypes ==
    /\ is_server \in BOOLEAN
    /\ opts \in Options
    /\ stage \in BeforeVerify \cup AfterVerify \cup {"failure"}
    /\ ctx \in [passwd : BOOLEAN, identity : {"none", "loaded"},
                verify : SUBSET {"PEER", "FAIL_IF_NO_PEER_CERT"},
                trust : {"none", "given", "default"}, allow : BOOLEAN]
    /\ out \in [verify_peer : BOOLEAN, verify_peer_name : BOOLEAN]
    /\ peer \in [cert : BOOLEAN, errors : SUBSET ChainErrors]

(* The identity: a key is loaded only after a certificate, and only a key   *)
(* that is found to match lets the configuration go on.                     *)
IdentityInv ==
    /\ stage = "cert" => ~ctx.passwd
    /\ stage \in {"cert", "key"} => ctx.identity = "none"
    /\ stage \in {"key", "check_key"} => opts.local_cert = "good"
    /\ stage = "check_key" => ctx.identity = "loaded" /\ opts.key # "bad"
    /\ stage \in {"verify"} \cup AfterVerify =>
          /\ ~ctx.passwd
          /\ is_server \/ opts.local_cert \in {"good", "bad"} => ctx.identity = "loaded"
          /\ ctx.identity = "loaded" =>
                opts.local_cert = "good" /\ opts.key \in {"plain", "encrypted"}

(* The verification: set once, from the options, and what the caller is     *)
(* told agrees with it.                                                     *)
VerifyInv ==
    /\ stage \in BeforeVerify => ctx.verify = {} /\ ~ctx.allow
    /\ stage \in AfterVerify =>
          /\ ctx.verify = IF verify_peer THEN VerifyMode ELSE {}
          /\ ctx.allow = (verify_peer /\ opts.allow_self_signed)
    /\ Configured =>
          out = [verify_peer |-> verify_peer, verify_peer_name |-> verify_peer_name]

Forgiven(e) == opts.allow_self_signed /\ e \in SelfSigned

(* The handshake: OpenSSL consults the context that was set up. *)
HandshakeInv ==
    /\ stage = "accepted" /\ verify_peer =>
          peer.cert /\ \A e \in peer.errors : Forgiven(e)
    /\ stage = "refused" =>
          verify_peer /\ (peer.cert => \E e \in peer.errors : ~Forgiven(e))

TlsInv == TlsTypes /\ IdentityInv /\ VerifyInv /\ HandshakeInv

LEMMA TlsInvInit == TlsInit => TlsInv
BY DEF TlsInit, TlsInv, TlsTypes, IdentityInv, VerifyInv, HandshakeInv, Configured,
       BeforeVerify, AfterVerify

LEMMA TlsInvNext == TlsInv /\ [TlsNext]_tlsVars => TlsInv'
<1> SUFFICES ASSUME TlsInv, [TlsNext]_tlsVars PROVE TlsInv'
  OBVIOUS
<1> USE DEF TlsInv, TlsTypes, IdentityInv, VerifyInv, HandshakeInv, Configured,
            BeforeVerify, AfterVerify, Proceed, Refuse, Options, Forgiven
<1>1. CASE LoadCert
  <2> USE <1>1 DEF LoadCert, php_quic_opt_string
  <2>1. HasPassphrase \in BOOLEAN
    BY DEF HasPassphrase
  <2>2. TlsTypes'
    BY <2>1
  <2>3. IdentityInv'
    BY <2>1
  <2>4. VerifyInv' /\ HandshakeInv'
    BY <2>1
  <2> QED
    BY <2>2, <2>3, <2>4
<1>2. CASE LoadKey
  BY <1>2 DEF LoadKey, php_quic_passwd_cb
<1>3. CASE CheckKey
  BY <1>3 DEF CheckKey, KeyMatches, PassphraseDropped
<1>4. CASE SetVerify
  <2> USE <1>4 DEF SetVerify
  <2>1. verify_peer' = verify_peer /\ VerifyMode' = VerifyMode
    BY DEF verify_peer, VerifyMode
  <2>2. /\ verify_peer \in BOOLEAN
        /\ VerifyMode \in SUBSET {"PEER", "FAIL_IF_NO_PEER_CERT"}
    BY DEF verify_peer, VerifyMode
  <2>3. CASE ~verify_peer
    BY <2>1, <2>2, <2>3
  <2>4. CASE verify_peer
    <3>1. \E t \in {"none", "given", "default"} :
             ctx' = [passwd |-> ctx.passwd, identity |-> ctx.identity,
                     verify |-> VerifyMode, trust |-> t,
                     allow |-> opts.allow_self_signed]
      BY <2>4
    <3>2. TlsTypes'
      BY <2>2, <2>4, <3>1
    <3>3. IdentityInv'
      BY <2>4, <3>1
    <3>4. VerifyInv' /\ HandshakeInv'
      BY <2>1, <2>4, <3>1
    <3> QED
      BY <3>2, <3>3, <3>4
  <2> QED
    BY <2>3, <2>4
<1>5. CASE Tuning
  <2> USE <1>5 DEF Tuning
  <2>1. /\ verify_peer' = verify_peer
        /\ verify_peer_name' = verify_peer_name
        /\ VerifyMode' = VerifyMode
    BY DEF verify_peer, verify_peer_name, VerifyMode
  <2>2. verify_peer \in BOOLEAN /\ verify_peer_name \in BOOLEAN
    BY DEF verify_peer, verify_peer_name
  <2>3. TlsTypes'
    BY <2>2
  <2>4. IdentityInv'
    OBVIOUS
  <2>5. VerifyInv' /\ HandshakeInv'
    BY <2>1, <2>2
  <2> QED
    BY <2>3, <2>4, <2>5
<1>6. CASE Handshake
  BY <1>6 DEF Handshake, VerifyMode, verify_peer, verify_peer_name,
              php_quic_verify_cb, ChainErrors
<1>7. CASE UNCHANGED tlsVars
  BY <1>7 DEF tlsVars, VerifyMode, verify_peer, verify_peer_name
<1> QED
  BY <1>1, <1>2, <1>3, <1>4, <1>5, <1>6, <1>7 DEF TlsNext

LEMMA TlsInvariant == TlsSpec => []TlsInv
BY TlsInvInit, TlsInvNext, PTL DEF TlsSpec

LEMMA AskedIsSet == TlsInv => (verify_peer <=> AskedToVerify)
BY DEF TlsInv, TlsTypes, Options, Settings, verify_peer, AskedToVerify

(* Whoever verifies accepts no peer without a certificate and no chain with *)
(* an error that allow_self_signed does not name, for all the options that  *)
(* php_quic_configure_ctx() reads.                                          *)
THEOREM TlsPeerVerified == TlsSpec => []PeerVerified
<1>1. TlsInv => PeerVerified
  <2> SUFFICES ASSUME TlsInv, stage = "accepted", AskedToVerify
               PROVE  /\ peer.cert
                      /\ peer.errors = {} \/ (opts.allow_self_signed
                                               /\ peer.errors \subseteq SelfSigned)
                      /\ out.verify_peer_name \/ opts.verify_peer_name = "false"
    BY DEF PeerVerified
  <2>1. verify_peer
    BY AskedIsSet
  <2>2. peer.cert /\ \A e \in peer.errors : Forgiven(e)
    BY <2>1 DEF TlsInv, HandshakeInv
  <2>3. peer.errors = {} \/ (opts.allow_self_signed
                              /\ peer.errors \subseteq SelfSigned)
    BY <2>2 DEF Forgiven
  <2>4. out.verify_peer_name \/ opts.verify_peer_name = "false"
    <3>1. out.verify_peer_name = verify_peer_name
      BY DEF TlsInv, VerifyInv, Configured
    <3>2. verify_peer_name \/ opts.verify_peer_name = "false"
      BY <2>1 DEF TlsInv, TlsTypes, verify_peer_name, Options, Settings
    <3> QED
      BY <3>1, <3>2
  <2> QED
    BY <2>2, <2>3, <2>4
<1> QED
  BY <1>1, TlsInvariant, PTL

(* A context that was configured holds a matching certificate and key, a    *)
(* listener's always and a client's when it was given a local_cert, and no  *)
(* pointer to the caller's passphrase.                                      *)
THEOREM TlsContextComplete == TlsSpec => []ContextComplete
<1>1. TlsInv => ContextComplete
  BY DEF TlsInv, IdentityInv, AfterVerify, Configured, ContextComplete
<1> QED
  BY <1>1, TlsInvariant, PTL

(* The context verifies exactly when it was asked to, and the caller's copy *)
(* says the same: the one bit that ClientSetup!Configure makes of the call. *)
VerifiesAsAsked ==
    Configured =>
        /\ (ctx.verify # {}) <=> AskedToVerify
        /\ out.verify_peer <=> AskedToVerify

(* A client that asked for verification gets a context that verifies, and    *)
(* php_quic_configure_ctx() tells its caller so; one that did not, does not. *)
THEOREM TlsVerifiesAsAsked == TlsSpec => []VerifiesAsAsked
<1>1. TlsInv => VerifiesAsAsked
  BY AskedIsSet DEF TlsInv, VerifyInv, AfterVerify, Configured, VerifyMode,
                    VerifiesAsAsked
<1> QED
  BY <1>1, TlsInvariant, PTL

(* No peer is turned away that was not to be verified, and none whose chain *)
(* has only errors that the options forgive.                                *)
RefusedForCause ==
    stage = "refused" =>
        /\ AskedToVerify
        /\ peer.cert => \E e \in peer.errors : ~Forgiven(e)

(* php_quic_verify_cb() and the verify mode turn no peer away without a      *)
(* cause that the options name.                                              *)
THEOREM TlsRefusedForCause == TlsSpec => []RefusedForCause
<1>1. TlsInv => RefusedForCause
  BY AskedIsSet DEF TlsInv, HandshakeInv, RefusedForCause
<1> QED
  BY <1>1, TlsInvariant, PTL

-----------------------------------------------------------------------------
(* The ALPN option.  The parser reads it with a position that only goes     *)
(* forward; what it has written so far is, at every position, the encoding  *)
(* of the protocols that end before it.  That the walk over such a buffer   *)
(* gives back these protocols is an induction on the length of the list.    *)
Less == {p \in Nat \X Nat : p[1] < p[2]}

(* Induction, by the least counterexample. *)
LEMMA LeastElement ==
    ASSUME NEW T \in SUBSET Nat, T # {}
    PROVE  \E x \in T : \A y \in T : x <= y
<1>1. OpToRel(<, Nat) = Less
  BY Zenon DEF OpToRel, Less
<1>2. IsWellFoundedOn(Less, Nat)
  BY NatLessThanWellFounded, <1>1
<1>3. \E x \in T : \A y \in T : ~(<<y, x>> \in Less)
  BY WFMin, <1>2
<1>4. \A x, y \in Nat : y < x => <<y, x>> \in Less
  BY DEF Less
<1>5. PICK x \in T : \A y \in T : ~(<<y, x>> \in Less)
  BY <1>3
<1>6. ASSUME NEW y \in T PROVE x <= y
  <2>1. x \in Nat /\ y \in Nat
    OBVIOUS
  <2>2. ~(y < x)
    BY <1>4, <1>5, <2>1, Zenon
  <2> QED
    BY <2>1, <2>2
<1> QED
  BY <1>6

(* Reaching n by steps of one. *)
LEMMA Climb ==
    ASSUME NEW T \in SUBSET Nat, NEW n \in Nat,
           0 \in T, \A m \in 0 .. n - 1 : m \in T => m + 1 \in T
    PROVE  n \in T
<1> SUFFICES ASSUME n \notin T PROVE FALSE
  OBVIOUS
<1> DEFINE F == {m \in 0 .. n : m \notin T}
<1>1. PICK x \in F : \A y \in F : x <= y
  <2>1. F \in SUBSET Nat /\ F # {}
    OBVIOUS
  <2> QED
    BY <2>1, LeastElement
<1>2. x - 1 \in 0 .. n - 1 /\ x - 1 \in T
  BY <1>1
<1> QED
  BY <1>1, <1>2

(* The minimum and the maximum of FiniteSetsExt are what they should be, for *)
(* bounded sets of numbers.                                                  *)
LEMMA MinIs ==
    ASSUME NEW S \in SUBSET Nat, S # {}
    PROVE  Min(S) \in S /\ \A y \in S : Min(S) <= y
BY LeastElement DEF Min

LEMMA MaxIs ==
    ASSUME NEW n \in Nat, NEW S \in SUBSET (0 .. n), S # {}
    PROVE  Max(S) \in S /\ \A y \in S : y <= Max(S)
<1> DEFINE T == {m \in 0 .. n : n - m \in S}
<1>1. T # {}
  <2>1. PICK y \in S : TRUE
    OBVIOUS
  <2>2. n - y \in T
    OBVIOUS
  <2> QED
    BY <2>2
<1>2. PICK x \in T : \A y \in T : x <= y
  <2>1. T \in SUBSET Nat
    OBVIOUS
  <2> QED
    BY <1>1, <2>1, LeastElement
<1>3. n - x \in S /\ \A y \in S : y <= n - x
  <2> SUFFICES ASSUME NEW y \in S PROVE y <= n - x
    BY <1>2
  <2>1. n - y \in T
    OBVIOUS
  <2> QED
    BY <1>2, <2>1
<1> QED
  BY <1>3 DEF Max

-----------------------------------------------------------------------------
(* One step of the walk of Decode, with g for the rest of it. *)
Walk(wire, g, p) ==
    LET next == p + 1 + wire[p]
    IN  IF p > Len(wire) \/ next > Len(wire) + 1 THEN <<>>
        ELSE <<SubSeq(wire, p + 1, next - 1)>> \o g[next]

Lists == Seq(Seq(Nat))

(* A step of the walk gives a list of names. *)
LEMMA WalkType ==
    ASSUME NEW wire \in Seq(Nat), NEW p \in 1 .. Len(wire) + 1,
           NEW g \in [1 .. Len(wire) + 1 -> Lists]
    PROVE  Walk(wire, g, p) \in Lists
<1>1. CASE p > Len(wire) \/ p + 1 + wire[p] > Len(wire) + 1
  BY <1>1 DEF Walk, Lists
<1>2. CASE ~(p > Len(wire) \/ p + 1 + wire[p] > Len(wire) + 1)
  <2>1. wire[p] \in Nat /\ p \in 1 .. Len(wire)
    BY <1>2
  <2>2. p + 1 + wire[p] \in 1 .. Len(wire) + 1
    BY <1>2, <2>1
  <2>3. SubSeq(wire, p + 1, (p + 1 + wire[p]) - 1) \in Seq(Nat)
    BY <2>1, <2>2
  <2>4. <<SubSeq(wire, p + 1, (p + 1 + wire[p]) - 1)>> \in Lists
    BY <2>3 DEF Lists
  <2>5. g[p + 1 + wire[p]] \in Lists
    BY <2>2
  <2> QED
    BY <1>2, <2>4, <2>5 DEF Walk, Lists
<1> QED
  BY <1>1, <1>2

(* The walk at a position depends only on what lies ahead of it. *)
LEMMA WalkAhead ==
    ASSUME NEW wire \in Seq(Nat), NEW p \in 1 .. Len(wire) + 1,
           NEW g \in [1 .. Len(wire) + 1 -> Lists],
           NEW h \in [1 .. Len(wire) + 1 -> Lists],
           \A q \in p + 1 .. Len(wire) + 1 : g[q] = h[q]
    PROVE  Walk(wire, g, p) = Walk(wire, h, p)
<1>1. CASE p > Len(wire) \/ p + 1 + wire[p] > Len(wire) + 1
  BY <1>1 DEF Walk
<1>2. CASE ~(p > Len(wire) \/ p + 1 + wire[p] > Len(wire) + 1)
  <2>1. p + 1 + wire[p] \in p + 1 .. Len(wire) + 1
    BY <1>2
  <2> QED
    BY <1>2, <2>1 DEF Walk
<1> QED
  BY <1>1, <1>2

(* The walk is defined, from the end of the wire to its start. *)
LEMMA WalkExists ==
    ASSUME NEW wire \in Seq(Nat)
    PROVE  \E g \in [1 .. Len(wire) + 1 -> Lists] :
              \A p \in 1 .. Len(wire) + 1 : g[p] = Walk(wire, g, p)
<1> DEFINE n == Len(wire) + 1
           Good(g, m) == \A p \in 1 .. n : p > n - m => g[p] = Walk(wire, g, p)
           T == {m \in 0 .. n : \E g \in [1 .. n -> Lists] : Good(g, m)}
<1>1. 0 \in T
  <2>1. [p \in 1 .. n |-> <<>>] \in [1 .. n -> Lists]
    BY DEF Lists
  <2>2. Good([p \in 1 .. n |-> <<>>], 0)
    OBVIOUS
  <2> QED
    BY <2>1, <2>2
<1>2. ASSUME NEW m \in 0 .. n - 1, m \in T PROVE m + 1 \in T
  <2>1. PICK g \in [1 .. n -> Lists] : Good(g, m)
    BY <1>2
  <2> DEFINE q == n - m
             h == [g EXCEPT ![q] = Walk(wire, g, q)]
  <2>2. q \in 1 .. n
    OBVIOUS
  <2>3. h \in [1 .. n -> Lists]
    BY <2>2, WalkType
  <2>4. ASSUME NEW p \in 1 .. n, p > n - (m + 1) PROVE h[p] = Walk(wire, h, p)
    <3>1. Walk(wire, h, p) = Walk(wire, g, p)
      <4>1. \A r \in p + 1 .. Len(wire) + 1 : h[r] = g[r]
        BY <2>4
      <4> QED
        BY <2>3, <4>1, WalkAhead
    <3> QED
      BY <2>1, <2>4, <3>1
  <2>5. Good(h, m + 1)
    BY <2>4
  <2>6. \E f \in [1 .. n -> Lists] : Good(f, m + 1)
    BY <2>3, <2>5
  <2> QED
    BY <2>6
<1>3. n \in T
  <2>1. T \in SUBSET Nat /\ n \in Nat
    OBVIOUS
  <2> HIDE DEF T, n
  <2> QED
    BY <1>1, <1>2, <2>1, Climb
<1> QED
  BY <1>3

(* Where wire holds one frame after the other, a length and that many bytes *)
(* each: frame k of protos begins at place[k].                              *)
Frames(wire, protos, place) ==
    /\ place \in [1 .. Len(protos) + 1 -> 1 .. Len(wire) + 1]
    /\ place[1] = 1 /\ place[Len(protos) + 1] = Len(wire) + 1
    /\ \A k \in 1 .. Len(protos) :
          /\ place[k + 1] = place[k] + 1 + Len(protos[k])
          /\ wire[place[k]] = Len(protos[k])
          /\ \A j \in 1 .. Len(protos[k]) : wire[place[k] + j] = protos[k][j]

(* The recursion of Decode is well defined: it is a function that satisfies  *)
(* its own equation.                                                         *)
LEMMA DecodeIsWalk ==
    ASSUME NEW wire \in Seq(Nat)
    PROVE  \E g : /\ \A p \in 1 .. Len(wire) + 1 : g[p] = Walk(wire, g, p)
                  /\ Decode(wire) = g[1]
<1> DEFINE n == Len(wire) + 1
           IsWalk(g) == g = [p \in 1 .. n |-> Walk(wire, g, p)]
           from == CHOOSE g : IsWalk(g)
<1>1. \E g : IsWalk(g)
  BY WalkExists
<1>2. IsWalk(from)
  BY <1>1, Zenon
<1>3. Decode(wire) = from[1]
  BY DEF Decode, Walk
<1>4. \A p \in 1 .. n : from[p] = Walk(wire, from, p)
  <2> HIDE DEF from
  <2> QED
    BY <1>2
<1> QED
  BY <1>3, <1>4

(* The bytes of a frame, cut out, are the name. *)
LEMMA SubSeqIs ==
    ASSUME NEW s \in Seq(Nat), NEW t \in Seq(Nat), NEW p \in Nat,
           p + Len(t) <= Len(s), \A j \in 1 .. Len(t) : s[p + j] = t[j]
    PROVE  SubSeq(s, p + 1, p + Len(t)) = t
<1> DEFINE l == p + 1
           m == p + Len(t)
           u == SubSeq(s, l, m)
<1>1. Len(t) \in Nat /\ m \in Int /\ l \in Int /\ m - l + 1 = Len(t)
  OBVIOUS
<1>2. \A j \in l .. m : s[j] \in Nat
  BY <1>1
<1>3. /\ u \in Seq(Nat)
      /\ Len(u) = IF l <= m THEN m - l + 1 ELSE 0
      /\ \A j \in 1 .. m - l + 1 : u[j] = s[l + j - 1]
  <2> HIDE DEF l, m
  <2> QED
    BY <1>1, <1>2, SubSeqProperties, SMTT(30)
<1> HIDE DEF u
<1>4. Len(u) = Len(t)
  <2> HIDE DEF l, m
  <2> QED
    BY <1>1, <1>3
<1>5. ASSUME NEW j \in 1 .. Len(t) PROVE u[j] = t[j]
  <2>1. u[j] = s[l + j - 1]
    <3> HIDE DEF l, m
    <3> QED
      BY <1>1, <1>3
  <2>2. l + j - 1 = p + j
    OBVIOUS
  <2> HIDE DEF l
  <2> QED
    BY <2>1, <2>2
<1>6. u = t
  BY <1>3, <1>4, <1>5, SeqEqual
<1> QED
  BY <1>6 DEF u

(* A frame ends within the buffer. *)
LEMMA FrameArith ==
    ASSUME NEW r \in Nat, NEW p \in 1 .. r + 1, NEW q \in 1 .. r + 1, NEW l \in Nat,
           q = p + 1 + l
    PROVE  p \in Nat /\ q - 1 = p + l /\ p + l <= r
OBVIOUS

(* Decode returns the frames, whatever their number. *)
LEMMA DecodeOfFrames ==
    ASSUME NEW wire \in Seq(Nat), NEW protos \in Lists, NEW place,
           Frames(wire, protos, place)
    PROVE  Decode(wire) = protos
<1> DEFINE n == Len(protos)
<1>1. PICK g : /\ \A p \in 1 .. Len(wire) + 1 : g[p] = Walk(wire, g, p)
               /\ Decode(wire) = g[1]
  BY DecodeIsWalk
<1> DEFINE T == {m \in 0 .. n : g[place[n + 1 - m]] = SubSeq(protos, n + 1 - m, n)}
<1>2. Len(wire) \in Nat /\ n \in Nat /\ \A k \in 1 .. n : protos[k] \in Seq(Nat)
  BY DEF Lists
<1>3. 0 \in T
  <2>1. place[n + 1] = Len(wire) + 1
    BY DEF Frames
  <2>2. g[Len(wire) + 1] = <<>>
    <3>1. Walk(wire, g, Len(wire) + 1) = <<>>
      BY <1>2 DEF Walk
    <3> QED
      BY <1>1, <1>2, <3>1
  <2>3. SubSeq(protos, n + 1, n) = <<>>
    BY <1>2 DEF Lists
  <2>4. n + 1 - 0 = n + 1
    BY <1>2
  <2>5. g[place[n + 1 - 0]] = SubSeq(protos, n + 1 - 0, n)
    <3> HIDE DEF n
    <3> QED
      BY <2>1, <2>2, <2>3, <2>4, Zenon
  <2> QED
    BY <1>2, <2>5
<1>4. ASSUME NEW m \in 0 .. n - 1, m \in T PROVE m + 1 \in T
  <2> DEFINE k == n - m
             p == place[k]
  <2>1. k \in 1 .. n /\ n + 1 - m = k + 1 /\ n + 1 - (m + 1) = k
    BY <1>2
  <2>2. p \in 1 .. Len(wire) + 1 /\ place[k + 1] \in 1 .. Len(wire) + 1
    <3>1. k + 1 \in 1 .. n + 1 /\ k \in 1 .. n + 1
      BY <1>2, <2>1
    <3> QED
      BY <3>1 DEF Frames
  <2>3. /\ place[k + 1] = p + 1 + wire[p] /\ wire[p] = Len(protos[k])
        /\ \A j \in 1 .. Len(protos[k]) : wire[p + j] = protos[k][j]
    BY <2>1 DEF Frames
  <2>4. g[p] = <<protos[k]>> \o g[place[k + 1]]
    <3>1. wire[p] \in Nat
      <4>1. Len(protos[k]) \in Nat
        BY <1>2, <2>1
      <4> QED
        BY <2>3, <4>1
    <3>2. ~(p > Len(wire) \/ place[k + 1] > Len(wire) + 1)
      <4>1. place[k + 1] = p + 1 + wire[p]
        BY <2>3
      <4> HIDE DEF p, k
      <4> QED
        BY <1>2, <2>2, <3>1, <4>1
    <3>3. g[p] = <<SubSeq(wire, p + 1, place[k + 1] - 1)>> \o g[place[k + 1]]
      BY <1>1, <2>2, <2>3, <3>2 DEF Walk
    <3>4. /\ protos[k] \in Seq(Nat) /\ p \in Nat
          /\ place[k + 1] - 1 = p + Len(protos[k]) /\ p + Len(protos[k]) <= Len(wire)
      <4>1. protos[k] \in Seq(Nat)
        BY <1>2, <2>1
      <4>2. place[k + 1] = p + 1 + Len(protos[k]) /\ Len(protos[k]) \in Nat
        BY <2>3, <4>1
      <4>3. /\ Len(wire) \in Nat /\ p \in 1 .. Len(wire) + 1
            /\ place[k + 1] \in 1 .. Len(wire) + 1
        BY <1>2, <2>2
      <4> HIDE DEF p, k, T, n
      <4>4. /\ p \in Nat /\ place[k + 1] - 1 = p + Len(protos[k])
            /\ p + Len(protos[k]) <= Len(wire)
        BY <4>2, <4>3, FrameArith, Zenon
      <4> QED
        BY <4>1, <4>4
    <3>5. SubSeq(wire, p + 1, place[k + 1] - 1) = protos[k]
      <4>1. \A j \in 1 .. Len(protos[k]) : wire[p + j] = protos[k][j]
        BY <2>3
      <4> HIDE DEF p, k
      <4> QED
        BY <3>4, <4>1, SubSeqIs
    <3> QED
      BY <3>3, <3>5
  <2>5. g[place[k + 1]] = SubSeq(protos, k + 1, n)
    BY <1>4, <2>1
  <2>6. <<protos[k]>> \o SubSeq(protos, k + 1, n) = SubSeq(protos, k, n)
    BY <2>1, SubSeqRecursiveFirst DEF Lists
  <2>7. g[p] = SubSeq(protos, k, n)
    BY <2>4, <2>5, <2>6
  <2> QED
    BY <1>2, <2>1, <2>7
<1>5. n \in T
  <2>1. T \in SUBSET Nat
    BY <1>2
  <2> HIDE DEF T, n
  <2> QED
    BY <1>2, <1>3, <1>4, <2>1, Climb
<1>6. g[place[1]] = SubSeq(protos, 1, n) /\ place[1] = 1
  BY <1>2, <1>5 DEF Frames
<1>7. SubSeq(protos, 1, n) = protos
  BY DEF Lists
<1> QED
  BY <1>1, <1>6, <1>7

(* php_quic_alpn_append() adds one frame, of a length that fits its byte. *)
Appended(wire, proto) == wire \o <<Len(proto) % (MaxProto + 1)>> \o proto

(* A length that fits its byte does not wrap. *)
LEMMA ModSmall ==
    ASSUME NEW a \in Nat, NEW b \in Nat, a <= b
    PROVE  a % (b + 1) = a
OBVIOUS

(* The bytes of the longer buffer, one by one. *)
LEMMA AppendedBytes ==
    ASSUME NEW wire \in Seq(Nat), NEW proto \in Seq(Nat),
           MaxProto \in Nat, Len(proto) <= MaxProto
    PROVE  LET new == Appended(wire, proto)
           IN  /\ new \in Seq(Nat) /\ Len(new) = Len(wire) + 1 + Len(proto)
               /\ \A k \in 1 .. Len(wire) : new[k] = wire[k]
               /\ new[Len(wire) + 1] = Len(proto)
               /\ \A j \in 1 .. Len(proto) : new[Len(wire) + 1 + j] = proto[j]
<1> DEFINE byte == <<Len(proto) % (MaxProto + 1)>>
           head == wire \o byte
<1>1. Len(proto) % (MaxProto + 1) = Len(proto) /\ Len(proto) \in Nat
  BY ModSmall
<1>2. byte = <<Len(proto)>> /\ byte \in Seq(Nat) /\ Len(byte) = 1 /\ byte[1] = Len(proto)
  BY <1>1
<1>3. /\ head \in Seq(Nat) /\ Len(head) = Len(wire) + 1
      /\ \A k \in 1 .. Len(wire) + 1 :
            head[k] = IF k <= Len(wire) THEN wire[k] ELSE byte[k - Len(wire)]
  <2> HIDE DEF byte
  <2> QED
    BY <1>2, ConcatProperties
<1>4. /\ head \o proto \in Seq(Nat) /\ Len(head \o proto) = Len(wire) + 1 + Len(proto)
      /\ \A k \in 1 .. Len(wire) + 1 + Len(proto) :
            (head \o proto)[k] =
                IF k <= Len(wire) + 1 THEN head[k] ELSE proto[k - (Len(wire) + 1)]
  <2> HIDE DEF head
  <2>1. head \in Seq(Nat) /\ Len(head) = Len(wire) + 1
    BY <1>3
  <2>2. /\ head \o proto \in Seq(Nat) /\ Len(head \o proto) = Len(head) + Len(proto)
        /\ \A k \in 1 .. Len(head) + Len(proto) :
              (head \o proto)[k] =
                  IF k <= Len(head) THEN head[k] ELSE proto[k - Len(head)]
    BY <2>1, ConcatProperties
  <2> QED
    BY <2>1, <2>2, Zenon
<1>5. Appended(wire, proto) = head \o proto
  BY DEF Appended
<1> HIDE DEF byte, head
<1>6. \A k \in 1 .. Len(wire) : (head \o proto)[k] = wire[k]
  BY <1>1, <1>3, <1>4
<1>7. (head \o proto)[Len(wire) + 1] = Len(proto)
  BY <1>1, <1>2, <1>3, <1>4
<1>8. \A j \in 1 .. Len(proto) : (head \o proto)[Len(wire) + 1 + j] = proto[j]
  BY <1>1, <1>3, <1>4
<1> QED
  BY <1>4, <1>5, <1>6, <1>7, <1>8

(* The appended bytes are one frame more. *)
LEMMA FramesAppend ==
    ASSUME NEW wire \in Seq(Nat), NEW protos \in Lists, NEW place,
           Frames(wire, protos, place), NEW proto \in Seq(Nat),
           MaxProto \in Nat, Len(proto) <= MaxProto
    PROVE  \E new : Frames(Appended(wire, proto), Append(protos, proto), new)
<1> DEFINE n == Len(protos)
           w == Appended(wire, proto)
           ps == Append(protos, proto)
           new == [k \in 1 .. n + 2 |-> IF k <= n + 1 THEN place[k] ELSE Len(w) + 1]
<1>1. /\ w \in Seq(Nat) /\ Len(w) = Len(wire) + 1 + Len(proto)
      /\ \A k \in 1 .. Len(wire) : w[k] = wire[k]
      /\ w[Len(wire) + 1] = Len(proto)
      /\ \A j \in 1 .. Len(proto) : w[Len(wire) + 1 + j] = proto[j]
  BY AppendedBytes
<1>2. /\ n \in Nat /\ Len(ps) = n + 1 /\ ps[n + 1] = proto
      /\ \A k \in 1 .. n : ps[k] = protos[k] /\ protos[k] \in Seq(Nat)
  BY DEF Lists
<1> HIDE DEF w, ps, n
<1>3. Len(wire) \in Nat /\ Len(proto) \in Nat
  OBVIOUS
<1>4. /\ place \in [1 .. n + 1 -> 1 .. Len(wire) + 1]
      /\ place[1] = 1 /\ place[n + 1] = Len(wire) + 1
      /\ \A k \in 1 .. n :
            /\ place[k + 1] = place[k] + 1 + Len(protos[k])
            /\ wire[place[k]] = Len(protos[k])
            /\ \A j \in 1 .. Len(protos[k]) : wire[place[k] + j] = protos[k][j]
  BY DEF Frames, n
<1>5. new \in [1 .. Len(ps) + 1 -> 1 .. Len(w) + 1]
  BY <1>1, <1>2, <1>3, <1>4
<1>6. new[1] = 1 /\ new[Len(ps) + 1] = Len(w) + 1
  BY <1>2, <1>4
<1>7. ASSUME NEW k \in 1 .. n
      PROVE  /\ new[k + 1] = new[k] + 1 + Len(ps[k])
             /\ w[new[k]] = Len(ps[k])
             /\ \A j \in 1 .. Len(ps[k]) : w[new[k] + j] = ps[k][j]
  <2>1. /\ new[k] = place[k] /\ new[k + 1] = place[k + 1]
        /\ ps[k] = protos[k] /\ Len(protos[k]) \in Nat
    BY <1>2
  <2>2. /\ place[k] \in Nat \ {0}
        /\ place[k] + Len(protos[k]) <= Len(wire)
    <3>1. place[k] \in 1 .. Len(wire) + 1 /\ place[k + 1] \in 1 .. Len(wire) + 1
      BY <1>2, <1>4
    <3>2. place[k + 1] = place[k] + 1 + Len(protos[k])
      BY <1>4
    <3> HIDE DEF new
    <3>3. Len(wire) \in Nat /\ Len(protos[k]) \in Nat
      BY <1>3, <2>1
    <3>4. /\ place[k] \in Nat /\ place[k + 1] - 1 = place[k] + Len(protos[k])
          /\ place[k] + Len(protos[k]) <= Len(wire)
      BY <3>1, <3>2, <3>3, FrameArith, Zenon
    <3> QED
      BY <3>1, <3>4
  <2> HIDE DEF new
  <2>3. \A j \in 0 .. Len(protos[k]) : w[place[k] + j] = wire[place[k] + j]
    <3> SUFFICES ASSUME NEW j \in 0 .. Len(protos[k])
                 PROVE  w[place[k] + j] = wire[place[k] + j]
      OBVIOUS
    <3>1. place[k] + j \in 1 .. Len(wire)
      BY <1>3, <2>1, <2>2
    <3> QED
      BY <1>1, <3>1
  <2>4. w[place[k]] = wire[place[k]]
    <3>1. place[k] \in 1 .. Len(wire)
      BY <1>3, <2>1, <2>2
    <3> QED
      BY <1>1, <3>1
  <2> QED
    BY <1>4, <2>1, <2>3, <2>4
<1>8. /\ new[n + 2] = new[n + 1] + 1 + Len(ps[n + 1])
      /\ w[new[n + 1]] = Len(ps[n + 1])
      /\ \A j \in 1 .. Len(ps[n + 1]) : w[new[n + 1] + j] = ps[n + 1][j]
  <2>1. new[n + 1] = Len(wire) + 1 /\ new[n + 2] = Len(w) + 1
    BY <1>2, <1>4
  <2> HIDE DEF new
  <2> QED
    BY <1>1, <1>2, <1>3, <2>1
<1> HIDE DEF new
<1>9. \A k \in 1 .. Len(ps) :
         /\ new[k + 1] = new[k] + 1 + Len(ps[k])
         /\ w[new[k]] = Len(ps[k])
         /\ \A j \in 1 .. Len(ps[k]) : w[new[k] + j] = ps[k][j]
  <2> SUFFICES ASSUME NEW k \in 1 .. Len(ps)
               PROVE  /\ new[k + 1] = new[k] + 1 + Len(ps[k])
                      /\ w[new[k]] = Len(ps[k])
                      /\ \A j \in 1 .. Len(ps[k]) : w[new[k] + j] = ps[k][j]
    OBVIOUS
  <2>1. CASE k \in 1 .. n
    BY <1>7, <2>1
  <2>2. CASE k = n + 1
    <3>1. k + 1 = n + 2
      BY <1>2, <2>2
    <3> QED
      BY <1>8, <2>2, <3>1
  <2> QED
    BY <1>2, <2>1, <2>2
<1>10. Frames(w, ps, new)
  BY <1>5, <1>6, <1>9 DEF Frames
<1> QED
  BY <1>10 DEF w, ps

-----------------------------------------------------------------------------
(* M maps each place where a protocol of the option ends to the protocol;   *)
(* wire encodes those that end by m.                                        *)
Ended(M, m) == {b \in DOMAIN M : b <= m}

InOrder(M, m, protos) ==
    \E at \in [DOMAIN protos -> Ended(M, m)] :
        /\ \A j, k \in DOMAIN protos : j < k => at[j] < at[k]
        /\ \A b \in Ended(M, m) : \E k \in DOMAIN protos : at[k] = b
        /\ \A k \in DOMAIN protos : protos[k] = M[at[k]]

Fit(proto) == proto \in Seq(Nat) /\ 0 < Len(proto) /\ Len(proto) <= MaxProto

Encoding(wire, M, m) ==
    /\ wire \in Seq(Nat)
    /\ \A b \in Ended(M, m) : Fit(M[b])
    /\ \E protos \in Lists : \E place : Frames(wire, protos, place) /\ InOrder(M, m, protos)

(* An empty buffer encodes the protocols before the first one. *)
LEMMA EncodingStarts ==
    ASSUME NEW M, NEW m \in Nat, Ended(M, m) = {}
    PROVE  Encoding(<<>>, M, m)
<1>1. Frames(<<>>, <<>>, [k \in 1 .. 1 |-> 1])
  BY DEF Frames
<1>2. InOrder(M, m, <<>>)
  <2>1. DOMAIN <<>> = {}
    OBVIOUS
  <2> DEFINE at == [k \in {} |-> 0]
  <2>2. at \in [DOMAIN <<>> -> Ended(M, m)]
    BY <2>1
  <2> QED
    BY <2>1, <2>2 DEF InOrder
<1>3. <<>> \in Lists /\ <<>> \in Seq(Nat)
  BY DEF Lists
<1> QED
  BY <1>1, <1>2, <1>3 DEF Encoding

(* Passing a position where no protocol ends leaves the buffer right. *)
LEMMA EncodingSkips ==
    ASSUME NEW wire, NEW M, NEW m \in Nat, DOMAIN M \subseteq Nat,
           Encoding(wire, M, m), m + 1 \notin DOMAIN M
    PROVE  Encoding(wire, M, m + 1)
<1>1. Ended(M, m + 1) = Ended(M, m)
  BY DEF Ended
<1> QED
  BY <1>1 DEF Encoding, InOrder

(* Passing one where a protocol ends, and appending it, does too. *)
LEMMA EncodingAppends ==
    ASSUME NEW wire, NEW M, NEW m \in Nat, DOMAIN M \subseteq Nat, MaxProto \in Nat,
           Encoding(wire, M, m), m + 1 \in DOMAIN M, Fit(M[m + 1])
    PROVE  Encoding(Appended(wire, M[m + 1]), M, m + 1)
<1> DEFINE proto == M[m + 1]
           done == Ended(M, m + 1)
<1>1. PICK protos \in Lists :
        \E place : Frames(wire, protos, place) /\ InOrder(M, m, protos)
  BY DEF Encoding
<1>2. wire \in Seq(Nat) /\ proto \in Seq(Nat) /\ Len(proto) <= MaxProto
  BY DEF Encoding, Fit
<1>3. done = Ended(M, m) \cup {m + 1}
  BY DEF Ended
<1>4. Appended(wire, proto) \in Seq(Nat)
  BY <1>2, AppendedBytes
<1>5. \E new : Frames(Appended(wire, proto), Append(protos, proto), new)
  BY <1>1, <1>2, FramesAppend
<1> DEFINE n == Len(protos)
           ps == Append(protos, proto)
<1>6. /\ ps \in Lists /\ n \in Nat /\ DOMAIN protos = 1 .. n /\ DOMAIN ps = 1 .. n + 1
      /\ ps[n + 1] = proto /\ \A k \in 1 .. n : ps[k] = protos[k]
  BY <1>2 DEF Lists
<1>7. InOrder(M, m + 1, ps)
  <2>1. PICK at \in [1 .. n -> Ended(M, m)] :
           /\ \A j, k \in 1 .. n : j < k => at[j] < at[k]
           /\ \A b \in Ended(M, m) : \E k \in 1 .. n : at[k] = b
           /\ \A k \in 1 .. n : protos[k] = M[at[k]]
    BY <1>1, <1>6 DEF InOrder
  <2> HIDE DEF n, ps, proto
  <2> DEFINE al == [k \in 1 .. n + 1 |-> IF k <= n THEN at[k] ELSE m + 1]
  <2>2. al \in [1 .. n + 1 -> done]
    BY <1>3, <1>6
  <2>3. \A j, k \in 1 .. n + 1 : j < k => al[j] < al[k]
    <3>1. \A k \in 1 .. n : at[k] \in Nat /\ at[k] < m + 1
      BY <2>1 DEF Ended
    <3> QED
      BY <1>6, <2>1, <3>1
  <2>4. \A b \in done : \E k \in 1 .. n + 1 : al[k] = b
    <3> SUFFICES ASSUME NEW b \in done PROVE \E k \in 1 .. n + 1 : al[k] = b
      OBVIOUS
    <3>1. CASE b = m + 1
      <4>1. al[n + 1] = b /\ n + 1 \in 1 .. n + 1
        BY <1>6, <3>1
      <4> QED
        BY <4>1
    <3>2. CASE b \in Ended(M, m)
      <4>1. PICK k \in 1 .. n : at[k] = b
        BY <2>1, <3>2
      <4>2. al[k] = b /\ k \in 1 .. n + 1
        BY <1>6, <4>1
      <4> QED
        BY <4>2
    <3> QED
      BY <1>3, <3>1, <3>2
  <2>5. \A k \in 1 .. n + 1 : ps[k] = M[al[k]]
    BY <1>6, <2>1 DEF proto
  <2> HIDE DEF al, done
  <2>6. /\ al \in [DOMAIN ps -> done]
        /\ \A j, k \in DOMAIN ps : j < k => al[j] < al[k]
        /\ \A b \in done : \E k \in DOMAIN ps : al[k] = b
        /\ \A k \in DOMAIN ps : ps[k] = M[al[k]]
    BY <1>6, <2>2, <2>3, <2>4, <2>5, Zenon
  <2> QED
    BY <2>6, Zenon DEF InOrder, done
<1>8. \A b \in done : Fit(M[b])
  BY <1>3 DEF Encoding
<1> HIDE DEF ps
<1> QED
  BY <1>4, <1>5, <1>6, <1>7, <1>8 DEF Encoding, ps

(* Such a buffer decodes to the protocols it encodes. *)
LEMMA EncodingDecodes ==
    ASSUME NEW wire, NEW M, NEW m \in Nat, Encoding(wire, M, m)
    PROVE  InOrder(M, m, Decode(wire))
<1>1. PICK protos \in Lists :
        \E place : Frames(wire, protos, place) /\ InOrder(M, m, protos)
  BY DEF Encoding
<1>2. Decode(wire) = protos
  BY <1>1, DecodeOfFrames DEF Encoding
<1> QED
  BY <1>1, <1>2

-----------------------------------------------------------------------------
(* The parser.  What the option means does not change while it runs. *)
Meanings == [b \in Ends |-> Means(b)]

AlpnTypes ==
    /\ form \in {"string", "array", "other"}
    /\ form = "string" => spec \in Seq(Nat)
    /\ form = "array" => spec \in Seq(Seq(Nat))
    /\ form = "other" => spec = <<>>
    /\ phase \in {"parse", "select", "negotiated", "alert", "failure"}
    /\ i \in Nat /\ start \in Nat /\ count \in Nat /\ allocated \in BOOLEAN

(* The token began after a comma, and none has come since. *)
Scanning ==
    /\ i <= Len(spec) + 1 /\ start <= i
    /\ start = 0 \/ start = Len(spec) + 1 \/ spec[start] = Comma
    /\ \A k \in start + 1 .. i : k <= Len(spec) /\ spec[k] # Comma
    /\ count = 0 <=> Ended(Meanings, i) = {}

ParseInv ==
    phase = "parse" =>
        /\ Encoding(buf, Meanings, i)
        /\ allocated <=> Ended(Meanings, i) # {}
        /\ form = "string" => Scanning
        /\ form = "array" => i <= Len(spec)

DoneInv ==
    /\ Parsed =>
          /\ form # "other" /\ Ends # {} /\ allocated
          /\ Encoding(buf, Meanings, i) /\ Ended(Meanings, i) = Ends
    /\ phase = "failure" => ~Acceptable /\ ~allocated

AlpnInv == Bounds /\ AlpnTypes /\ ParseInv /\ DoneInv

(* Protocols end within the option or at its end. *)
LEMMA EndsAreNat ==
    ASSUME AlpnTypes
    PROVE  Ends \subseteq 1 .. Len(spec) + 1 /\ Len(spec) \in Nat
BY DEF AlpnTypes, Ends, len

(* Bounded options are sequences; no bound is used beyond this. *)
LEMMA UptoIsSeq ==
    ASSUME NEW S, NEW k \in Nat, NEW s \in Upto(S, k)
    PROVE  s \in Seq(S)
BY DEF Upto

LEMMA AlpnInvInit == AlpnInit => AlpnInv
<1> SUFFICES ASSUME Bounds, AlpnInit PROVE AlpnInv
  BY BoundsAssumption
<1>1. AlpnTypes
  <2>1. form = "string" => spec \in Seq(Nat)
    <3>1. form = "string" => spec \in Seq(Alphabet)
      BY UptoIsSeq DEF Bounds, AlpnInit
    <3> QED
      BY <3>1, SeqMonotonic DEF Bounds
  <2>2. form = "array" => spec \in Seq(Seq(Nat))
    <3>1. form = "array" => spec \in Seq(Protocols)
      BY UptoIsSeq DEF Bounds, AlpnInit
    <3> QED
      BY <3>1, SeqMonotonic DEF Bounds
  <2> QED
    BY <2>1, <2>2 DEF AlpnTypes, AlpnInit
<1>2. Ended(Meanings, 0) = {}
  BY <1>1, EndsAreNat DEF Ended, Meanings
<1>3. Encoding(<<>>, Meanings, 0)
  BY <1>2, EncodingStarts
<1>4. /\ i = 0 /\ start = 0 /\ count = 0
      /\ buf = <<>> /\ allocated = FALSE /\ phase = "parse"
  BY DEF AlpnInit
<1>5. Len(spec) \in Nat
  BY <1>1, EndsAreNat
<1>6. Scanning
  BY <1>2, <1>4, <1>5 DEF Scanning
<1>7. ParseInv
  BY <1>2, <1>3, <1>4, <1>5, <1>6 DEF ParseInv
<1> QED
  BY <1>1, <1>4, <1>7 DEF AlpnInv, DoneInv, Parsed

(* The bytes of the protocol that ends at a delimiter, from its position. *)
LEMMA SolidBefore ==
    ASSUME NEW c \in Nat
    PROVE  Solid(c + 1) =
              {k \in 1 .. c :
                  spec[k] # Blank /\ \A j \in k .. c : spec[j] # Comma}
BY DEF Solid

(* What the two trimming loops leave of the segment before a comma, or      *)
(* before the end, is what the option means by it.                          *)
LEMMA TokenIsMeant ==
    ASSUME AlpnTypes, form = "string", Scanning, i <= Len(spec), AtDelimiter(i)
    PROVE  /\ Token(i) = <<>> <=> i + 1 \notin Ends
           /\ i + 1 \in Ends =>
                 Token(i) = Means(i + 1) /\ Token(i) \in Seq(Nat)
<1> DEFINE S == Solid(i + 1)
           L == {i} \cup {k \in start .. i - 1 : spec[k + 1] # Blank}
           a == Min(L)
           R == {a} \cup {k + 1 : k \in {j \in a .. i - 1 : spec[j + 1] # Blank}}
           z == Max(R)
<1>1. /\ spec \in Seq(Nat) /\ Len(spec) \in Nat
      /\ i \in Nat /\ start \in Nat /\ start <= i
      /\ i <= Len(spec)
      /\ start = 0 \/ spec[start] = Comma
      /\ \A k \in start + 1 .. i : spec[k] # Comma
  BY DEF AlpnTypes, Scanning
<1>2. Token(i) = SubSeq(spec, a + 1, z)
  BY DEF Token, SkipLeft, SkipRight, At
<1>3. S = {k \in start + 1 .. i : spec[k] # Blank}
  <2>1. S = {k \in 1 .. i :
               spec[k] # Blank /\ \A j \in k .. i : spec[j] # Comma}
    BY <1>1, SolidBefore
  <2>2. ASSUME NEW k \in 1 .. i
        PROVE  (\A j \in k .. i : spec[j] # Comma) <=> k \in start + 1 .. i
    <3>1. CASE k <= start
      <4>1. start \in k .. i /\ spec[start] = Comma
        BY <1>1, <3>1
      <4> QED
        BY <1>1, <3>1, <4>1
    <3>2. CASE k > start
      <4>1. \A j \in k .. i : j \in start + 1 .. i
        BY <1>1, <3>2
      <4> QED
        BY <1>1, <3>2, <4>1
    <3> QED
      BY <1>1, <3>1, <3>2
  <2>3. start + 1 .. i \subseteq 1 .. i
    BY <1>1
  <2> HIDE DEF S
  <2> QED
    BY <2>1, <2>2, <2>3
<1>4. i + 1 \in Ends <=> S # {}
  BY <1>1 DEF Ends, len, AtDelimiter, At
<1> HIDE DEF S
<1>5. L \in SUBSET Nat /\ L # {}
  BY <1>1
<1>6. a \in L /\ \A y \in L : a <= y
  BY <1>5, MinIs
<1> HIDE DEF a
<1>7. R \in SUBSET (0 .. i) /\ R # {}
  BY <1>1, <1>6
<1>8. z \in R /\ \A y \in R : y <= z
  BY <1>1, <1>7, MaxIs
<1> HIDE DEF z
<1>9. CASE S = {}
  <2>1. a = i /\ z = i
    <3>1. \A k \in start .. i - 1 : k + 1 \in start + 1 .. i
      BY <1>1
    <3>2. L = {i}
      BY <1>3, <1>9, <3>1
    <3>3. a = i
      BY <1>6, <3>2
    <3>4. R = {i}
      BY <1>1, <3>3
    <3> QED
      BY <1>8, <3>3, <3>4
  <2> QED
    BY <1>1, <1>2, <1>4, <1>9, <2>1
<1>10. CASE S # {}
  <2> DEFINE x == Min(S)
             y == Max(S)
  <2>1. x \in S /\ \A k \in S : x <= k
    <3>1. S \in SUBSET Nat
      BY <1>1, <1>3
    <3> QED
      BY <1>10, <3>1, MinIs
  <2>2. y \in S /\ \A k \in S : k <= y
    <3>1. S \in SUBSET (0 .. i)
      BY <1>1, <1>3
    <3> QED
      BY <1>1, <1>10, <3>1, MaxIs
  <2> HIDE DEF x, y
  <2>3. a + 1 = x
    <3>1. x - 1 \in L /\ x \in Nat /\ x - 1 < i
      BY <1>1, <1>3, <2>1
    <3>2. a <= x - 1 /\ a \in Nat /\ a # i
      <4>1. a <= x - 1
        BY <1>6, <3>1
      <4>2. a \in Nat
        BY <1>5, <1>6
      <4> QED
        BY <1>1, <3>1, <4>1, <4>2
    <3>3. a + 1 \in S
      BY <1>1, <1>3, <1>6, <3>2
    <3> QED
      BY <2>1, <3>1, <3>2, <3>3
  <2>4. z = y
    <3>1. y \in Nat /\ x <= y /\ a \in Nat /\ y <= i
      BY <1>1, <1>3, <1>6, <2>1, <2>2
    <3>2. y \in R
      <4>1. y - 1 \in a .. i - 1 /\ spec[(y - 1) + 1] # Blank /\ (y - 1) + 1 = y
        BY <1>1, <1>3, <2>2, <2>3, <3>1
      <4> QED
        BY <4>1
    <3>3. z # a
      BY <1>8, <2>3, <3>1, <3>2
    <3>4. z \in S
      BY <1>1, <1>3, <1>6, <1>8, <3>3
    <3> QED
      BY <1>1, <1>3, <1>8, <2>2, <3>1, <3>2, <3>4
  <2>5. x \in 1 .. Len(spec) /\ y \in 1 .. Len(spec) /\ x <= y
    BY <1>1, <1>3, <2>1, <2>2
  <2>6. Token(i) = SubSeq(spec, x, y)
    BY <1>2, <2>3, <2>4
  <2>7. Means(i + 1) = SubSeq(spec, x, y)
    BY DEF Means, x, y, S
  <2>8. SubSeq(spec, x, y) \in Seq(Nat) /\ SubSeq(spec, x, y) # <<>>
    BY <1>1, <2>5
  <2> QED
    BY <1>4, <1>10, <2>6, <2>7, <2>8
<1> QED
  BY <1>9, <1>10

(* The option is only read. *)
LEMMA OptionStays ==
    ASSUME form' = form, spec' = spec
    PROVE  /\ Meanings' = Meanings /\ Ends' = Ends
           /\ Acceptable' <=> Acceptable
<1>1. Ends' = Ends
  BY DEF Ends, Solid, len
<1>2. \A b : Means(b)' = Means(b)
  BY DEF Means, Solid, Min, Max
<1> QED
  BY <1>1, <1>2 DEF Meanings, Acceptable

(* One position more adds the protocol that ends there, if one does. *)
LEMMA EndedNext ==
    ASSUME NEW M, NEW m \in Nat, DOMAIN M \subseteq Nat
    PROVE  /\ m + 1 \notin DOMAIN M => Ended(M, m + 1) = Ended(M, m)
           /\ m + 1 \in DOMAIN M => Ended(M, m + 1) # {}
BY DEF Ended

(* Whatever the parser does next, the bytes it has put out encode the       *)
(* protocols it has passed.                                                 *)
LEMMA ScanCharKeeps == AlpnInv /\ ScanChar => AlpnInv'
<1> SUFFICES ASSUME AlpnInv, ScanChar PROVE AlpnInv'
  OBVIOUS
<1>1. /\ phase = "parse" /\ form = "string" /\ i <= Len(spec) /\ ~AtDelimiter(i)
      /\ i' = i + 1 /\ form' = form /\ spec' = spec
      /\ phase' = phase /\ start' = start
      /\ count' = count /\ buf' = buf /\ allocated' = allocated
  BY DEF ScanChar, len, AlpnInv, ParseInv, Scanning, AlpnTypes
<1>2. /\ AlpnTypes /\ Scanning /\ Encoding(buf, Meanings, i)
      /\ allocated <=> Ended(Meanings, i) # {}
  BY <1>1 DEF AlpnInv, ParseInv
<1>3. Meanings' = Meanings /\ DOMAIN Meanings \subseteq Nat /\ Len(spec) \in Nat
  BY <1>1, <1>2, OptionStays, EndsAreNat DEF Meanings
<1>4. i + 1 <= Len(spec) /\ spec[i + 1] # Comma /\ i \in Nat
  BY <1>1, <1>2, <1>3 DEF AtDelimiter, len, At, AlpnTypes
<1>5. i + 1 \notin DOMAIN Meanings
  BY <1>1, <1>4 DEF Meanings, Ends, len
<1>6. Encoding(buf, Meanings, i + 1) /\ Ended(Meanings, i + 1) = Ended(Meanings, i)
  BY <1>2, <1>3, <1>4, <1>5, EncodingSkips, EndedNext
<1>7. Scanning'
  BY <1>1, <1>2, <1>3, <1>4, <1>6 DEF Scanning, AlpnTypes
<1>8. ParseInv'
  BY <1>1, <1>2, <1>3, <1>6, <1>7 DEF ParseInv
<1> QED
  BY <1>1, <1>2, <1>8
      DEF AlpnInv, AlpnTypes, DoneInv, Parsed, Bounds

(* A delimiter: the token is empty where the option has no protocol, and     *)
(* otherwise it is the protocol.                                             *)
LEMMA ScanTokenKeeps == AlpnInv /\ ScanToken => AlpnInv'
<1> SUFFICES ASSUME AlpnInv, ScanToken PROVE AlpnInv'
  OBVIOUS
<1>1. /\ phase = "parse" /\ form = "string" /\ i <= Len(spec) /\ AtDelimiter(i)
      /\ i' = i + 1 /\ start' = i + 1
      /\ form' = form /\ spec' = spec /\ phase' = phase
  BY DEF ScanToken, len, StartAfter
<1>2. /\ AlpnTypes /\ Scanning /\ Encoding(buf, Meanings, i) /\ MaxProto \in Nat
      /\ allocated <=> Ended(Meanings, i) # {}
  BY <1>1 DEF AlpnInv, ParseInv, Bounds
<1>3. /\ Meanings' = Meanings /\ DOMAIN Meanings = Ends
      /\ DOMAIN Meanings \subseteq Nat /\ Len(spec) \in Nat
  BY <1>1, <1>2, OptionStays, EndsAreNat DEF Meanings
<1>4. /\ i \in Nat /\ i + 1 <= Len(spec) + 1
      /\ i + 1 = Len(spec) + 1 \/ spec[i + 1] = Comma
  BY <1>1, <1>2, <1>3 DEF AtDelimiter, len, At, AlpnTypes
<1>5. /\ Token(i) = <<>> <=> i + 1 \notin Ends
      /\ i + 1 \in Ends =>
            Token(i) = Means(i + 1) /\ Token(i) \in Seq(Nat)
  BY <1>1, <1>2, TokenIsMeant
<1>6. /\ Encoding(buf', Meanings, i + 1) /\ count' \in Nat /\ allocated' \in BOOLEAN
      /\ allocated' <=> Ended(Meanings, i + 1) # {}
      /\ count' = 0 <=> Ended(Meanings, i + 1) = {}
  <2>1. CASE Token(i) = <<>>
    <3>1. count' = count /\ buf' = buf /\ allocated' = allocated
      BY <2>1 DEF ScanToken
    <3>2. i + 1 \notin DOMAIN Meanings
      BY <1>3, <1>5, <2>1
    <3>3. Encoding(buf, Meanings, i + 1) /\ Ended(Meanings, i + 1) = Ended(Meanings, i)
      BY <1>2, <1>3, <1>4, <3>2, EncodingSkips, EndedNext
    <3> QED
      BY <1>2, <3>1, <3>3 DEF Scanning, AlpnTypes
  <2>2. CASE Token(i) # <<>>
    <3>1. /\ Fits(Token(i)) /\ count' = count + 1 /\ allocated' = TRUE
          /\ buf' = Appended(buf, Token(i))
      BY <2>2 DEF ScanToken, php_quic_alpn_append, Appended
    <3>2. i + 1 \in DOMAIN Meanings /\ Meanings[i + 1] = Token(i)
      BY <1>3, <1>5, <2>2 DEF Meanings
    <3>3. Fit(Meanings[i + 1])
      BY <1>3, <1>5, <3>1, <3>2 DEF Fit, Fits
    <3>4. Encoding(buf', Meanings, i + 1)
      BY <1>2, <1>3, <1>4, <3>1, <3>2, <3>3, EncodingAppends
    <3>5. Ended(Meanings, i + 1) # {}
      BY <1>3, <1>4, <3>2, EndedNext
    <3> QED
      BY <1>2, <3>1, <3>4, <3>5 DEF AlpnTypes
  <2> QED
    BY <2>1, <2>2
<1>7. Scanning'
  BY <1>1, <1>3, <1>4, <1>6 DEF Scanning
<1>8. ParseInv'
  BY <1>1, <1>3, <1>6, <1>7 DEF ParseInv
<1> QED
  BY <1>1, <1>2, <1>4, <1>6, <1>8
      DEF AlpnInv, AlpnTypes, DoneInv, Parsed, Bounds

(* The two ways out of the loop over the string. *)
LEMMA ScanStops == AlpnInv /\ (ScanFails \/ ScanEnds) => AlpnInv'
<1> SUFFICES ASSUME AlpnInv, ScanFails \/ ScanEnds PROVE AlpnInv'
  OBVIOUS
<1>1. /\ phase = "parse" /\ form = "string" /\ form' = form /\ spec' = spec
      /\ i' = i /\ start' = start /\ count' = count /\ buf' = buf
  BY DEF ScanFails, ScanEnds
<1>2. /\ AlpnTypes /\ Scanning /\ Encoding(buf, Meanings, i) /\ MaxProto \in Nat
      /\ allocated <=> Ended(Meanings, i) # {}
  BY <1>1 DEF AlpnInv, ParseInv, Bounds
<1>3. /\ Meanings' = Meanings /\ Ends' = Ends
      /\ Acceptable' <=> Acceptable
      /\ DOMAIN Meanings = Ends /\ Len(spec) \in Nat
      /\ Ends \subseteq 1 .. Len(spec) + 1
  BY <1>1, <1>2, OptionStays, EndsAreNat DEF Meanings
<1>4. CASE ScanFails
  <2>1. /\ i <= Len(spec) /\ AtDelimiter(i) /\ Token(i) # <<>>
        /\ ~Fits(Token(i)) /\ phase' = "failure" /\ allocated' = FALSE
    BY <1>4 DEF ScanFails, len, Fail, smart_str_free
  <2>2. i + 1 \in Ends /\ Token(i) = Means(i + 1)
    BY <1>1, <1>2, <2>1, TokenIsMeant
  <2>3. ~Acceptable
    BY <2>1, <2>2 DEF Acceptable, Fits
  <2> QED
    BY <1>1, <1>2, <1>3, <2>1, <2>3
       DEF AlpnInv, AlpnTypes, ParseInv, DoneInv, Parsed, Bounds
<1>5. CASE ScanEnds
  <2>1. i = Len(spec) + 1
    BY <1>5 DEF ScanEnds, len
  <2>2. Ended(Meanings, i) = Ends
    BY <1>3, <2>1 DEF Ended
  <2>3. CASE count = 0
    <3>1. phase' = "failure" /\ allocated' = FALSE
      BY <1>5, <2>3 DEF ScanEnds, Fail, smart_str_free
    <3>2. ~Acceptable
      BY <1>2, <2>2, <2>3 DEF Scanning, Acceptable
    <3> QED
      BY <1>1, <1>2, <1>3, <3>1, <3>2
         DEF AlpnInv, AlpnTypes, ParseInv, DoneInv, Parsed, Bounds
  <2>4. CASE count # 0
    <3>1. phase' = "select" /\ allocated' = allocated
      BY <1>5, <2>4 DEF ScanEnds
    <3>2. Ends # {} /\ allocated
      BY <1>2, <2>2, <2>4 DEF Scanning, AlpnTypes
    <3> QED
      BY <1>1, <1>2, <1>3, <2>2, <3>1, <3>2
         DEF AlpnInv, AlpnTypes, ParseInv, DoneInv, Parsed, Bounds
  <2> QED
    BY <2>3, <2>4
<1> QED
  BY <1>4, <1>5

(* The loop over the array. *)
LEMMA ArrayKeeps == AlpnInv /\ (ArrayEntry \/ ArrayEnds) => AlpnInv'
<1> SUFFICES ASSUME AlpnInv, ArrayEntry \/ ArrayEnds PROVE AlpnInv'
  OBVIOUS
<1>1. /\ phase = "parse" /\ form = "array" /\ form' = form /\ spec' = spec
      /\ start' = start /\ count' = count
  BY DEF ArrayEntry, ArrayEnds
<1>2. /\ AlpnTypes /\ Encoding(buf, Meanings, i) /\ MaxProto \in Nat
      /\ allocated <=> Ended(Meanings, i) # {}
      /\ i \in Nat /\ i <= Len(spec) /\ spec \in Seq(Seq(Nat)) /\ Len(spec) \in Nat
  BY <1>1 DEF AlpnInv, ParseInv, AlpnTypes, Bounds
<1>3. /\ Meanings' = Meanings /\ Ends' = Ends
      /\ Acceptable' <=> Acceptable
      /\ DOMAIN Meanings = Ends /\ Ends = 1 .. Len(spec)
  BY <1>1, OptionStays DEF Meanings, Ends, len
<1>4. \A b \in Ends : Meanings[b] = spec[b] /\ Means(b) = spec[b]
  BY <1>1 DEF Meanings, Means
<1>5. CASE ArrayEntry /\ Fits(At(i))
  <2>1. /\ i < Len(spec) /\ Fits(spec[i + 1]) /\ phase' = phase /\ i' = i + 1
        /\ buf' = Appended(buf, spec[i + 1]) /\ allocated' = TRUE
    BY <1>5 DEF ArrayEntry, len, At, php_quic_alpn_append, Appended
  <2>2. /\ i + 1 \in DOMAIN Meanings /\ Meanings[i + 1] = spec[i + 1]
        /\ spec[i + 1] \in Seq(Nat) /\ DOMAIN Meanings \subseteq Nat
    <3>1. i + 1 \in 1 .. Len(spec) /\ 1 .. Len(spec) \subseteq Nat
      BY <1>2, <2>1
    <3>2. spec[i + 1] \in Seq(Nat)
      BY <1>2, <3>1
    <3> QED
      BY <1>3, <1>4, <3>1, <3>2, Zenon
  <2>3. Fit(Meanings[i + 1])
    BY <2>1, <2>2 DEF Fit, Fits
  <2>4. Encoding(buf', Meanings, i + 1)
    BY <1>2, <2>1, <2>2, <2>3, EncodingAppends
  <2>5. Ended(Meanings, i + 1) # {}
    BY <1>2, <2>2, EndedNext
  <2>6. ParseInv'
    BY <1>1, <1>2, <1>3, <2>1, <2>4, <2>5 DEF ParseInv
  <2> QED
    BY <1>1, <1>2, <2>1, <2>6
      DEF AlpnInv, AlpnTypes, DoneInv, Parsed, Bounds
<1>6. CASE ArrayEntry /\ ~Fits(At(i))
  <2>1. /\ i < Len(spec) /\ ~Fits(spec[i + 1]) /\ i' = i /\ buf' = buf
        /\ phase' = "failure" /\ allocated' = FALSE
    BY <1>6 DEF ArrayEntry, len, At, Fail, smart_str_free
  <2>2. i + 1 \in Ends /\ Means(i + 1) = spec[i + 1]
    BY <1>2, <1>3, <1>4, <2>1
  <2>3. ~Acceptable
    BY <2>1, <2>2 DEF Acceptable, Fits
  <2> QED
    BY <1>1, <1>2, <1>3, <2>1, <2>3
       DEF AlpnInv, AlpnTypes, ParseInv, DoneInv, Parsed, Bounds
<1>7. CASE ArrayEnds
  <2>1. i = Len(spec) /\ i' = i /\ buf' = buf /\ allocated' = allocated
    BY <1>7 DEF ArrayEnds, len
  <2>2. Ended(Meanings, i) = Ends
    BY <1>2, <1>3, <2>1 DEF Ended
  <2>3. CASE Len(spec) = 0
    <3>1. phase' = "failure"
      BY <1>7, <2>3 DEF ArrayEnds, len
    <3>2. Ends = {} /\ ~Acceptable /\ ~allocated
      BY <1>2, <1>3, <2>2, <2>3 DEF Acceptable
    <3> QED
      BY <1>1, <1>2, <1>3, <2>1, <3>1, <3>2
         DEF AlpnInv, AlpnTypes, ParseInv, DoneInv, Parsed, Bounds
  <2>4. CASE Len(spec) # 0
    <3>1. phase' = "select"
      BY <1>7, <2>4 DEF ArrayEnds, len
    <3>2. Ends # {} /\ allocated
      <4>1. 1 \in Ends
        BY <1>2, <1>3, <2>4
      <4> QED
        BY <1>2, <2>2, <4>1
    <3> QED
      BY <1>1, <1>2, <1>3, <2>1, <2>2, <3>1, <3>2
         DEF AlpnInv, AlpnTypes, ParseInv, DoneInv, Parsed, Bounds
  <2> QED
    BY <2>3, <2>4
<1> QED
  BY <1>5, <1>6, <1>7

LEMMA AlpnInvNext == AlpnInv /\ [AlpnNext]_alpnVars => AlpnInv'
<1> SUFFICES ASSUME AlpnInv, [AlpnNext]_alpnVars PROVE AlpnInv'
  OBVIOUS
<1>1. CASE ScanChar
  BY <1>1, ScanCharKeeps
<1>2. CASE ScanToken
  BY <1>2, ScanTokenKeeps
<1>3. CASE ScanFails \/ ScanEnds
  BY <1>3, ScanStops
<1>4. CASE ArrayEntry \/ ArrayEnds
  BY <1>4, ArrayKeeps
<1>5. CASE WrongType
  <2>1. /\ phase = "parse" /\ form = "other" /\ phase' = "failure"
        /\ form' = form /\ spec' = spec /\ i' = i /\ start' = start /\ count' = count
        /\ buf' = buf /\ allocated' = allocated
    BY <1>5 DEF WrongType
  <2>2. ~Acceptable' /\ Ends = {}
    BY <2>1 DEF Acceptable, Ends, len, AlpnInv, AlpnTypes
  <2>3. ~allocated
    BY <2>1, <2>2 DEF AlpnInv, ParseInv, Ended, Meanings
  <2> QED
    BY <2>1, <2>2, <2>3
      DEF AlpnInv, AlpnTypes, ParseInv, DoneInv, Parsed, Bounds
<1>6. ASSUME NEW theirs \in Clients, quic_alpn_select_cb(theirs) PROVE AlpnInv'
  <2>1. /\ phase = "select" /\ phase' \in {"negotiated", "alert"}
        /\ form' = form /\ spec' = spec /\ i' = i /\ start' = start /\ count' = count
        /\ buf' = buf /\ allocated' = allocated
    BY <1>6 DEF quic_alpn_select_cb
  <2>2. Meanings' = Meanings /\ Ends' = Ends
    BY <2>1, OptionStays
  <2> QED
    BY <2>1, <2>2 DEF AlpnInv, AlpnTypes, ParseInv, DoneInv, Parsed, Bounds
<1>7. CASE UNCHANGED alpnVars
  <2>1. /\ phase' = phase /\ form' = form /\ spec' = spec /\ i' = i /\ start' = start
        /\ count' = count /\ buf' = buf /\ allocated' = allocated
    BY <1>7 DEF alpnVars
  <2>2. /\ Meanings' = Meanings /\ Ends' = Ends
        /\ Acceptable' <=> Acceptable
    BY <2>1, OptionStays
  <2> QED
    BY <2>1, <2>2
      DEF AlpnInv, AlpnTypes, ParseInv, Scanning, DoneInv, Parsed, Bounds
<1> QED
  BY <1>1, <1>2, <1>3, <1>4, <1>5, <1>6, <1>7 DEF AlpnNext

LEMMA AlpnInvariant == AlpnSpec => []AlpnInv
BY AlpnInvInit, AlpnInvNext, PTL DEF AlpnSpec

-----------------------------------------------------------------------------
(* At the end of the option all of its protocols have been appended. *)
LEMMA DecodedIsMeant ==
    ASSUME AlpnInv, Parsed
    PROVE  IsMeant(Decode(buf))
<1>1. /\ Encoding(buf, Meanings, i) /\ i \in Nat
      /\ Ended(Meanings, i) = Ends
  BY DEF AlpnInv, DoneInv, AlpnTypes
<1>2. InOrder(Meanings, i, Decode(buf))
  BY <1>1, EncodingDecodes
<1>3. \A b \in Ends : Meanings[b] = Means(b)
  BY DEF Meanings
<1> QED
  BY <1>1, <1>2, <1>3 DEF InOrder, IsMeant

(* For options of any length and with any number of protocols, the wire     *)
(* buffer that php_quic_alpn_from_zval() hands on decodes to exactly the    *)
(* protocols that the option means, in its order.                           *)
THEOREM AlpnWireMeansOption == AlpnSpec => []WireMeansOption
<1>1. AlpnInv => WireMeansOption
  BY DecodedIsMeant DEF WireMeansOption
<1> QED
  BY <1>1, AlpnInvariant, PTL

(* An option is refused exactly when it names no protocol or one that the   *)
(* length byte cannot carry, and a refused one leaves no buffer behind.     *)
THEOREM AlpnRefusedRightly == AlpnSpec => []RefusedRightly
<1>1. AlpnInv => RefusedRightly
  <2> SUFFICES ASSUME AlpnInv PROVE RefusedRightly
    OBVIOUS
  <2>1. phase = "failure" => ~Acceptable /\ ~allocated
    BY DEF AlpnInv, DoneInv
  <2>2. ASSUME Parsed PROVE Acceptable /\ allocated
    <3>1. /\ form # "other" /\ Ends # {} /\ allocated
          /\ Encoding(buf, Meanings, i) /\ Ended(Meanings, i) = Ends
      BY <2>2 DEF AlpnInv, DoneInv
    <3>2. \A b \in Ends : Fit(Means(b))
      BY <3>1 DEF Encoding, Meanings
    <3> QED
      BY <3>1, <3>2 DEF Fit, Acceptable
  <2> QED
    BY <2>1, <2>2 DEF RefusedRightly
<1> QED
  BY <1>1, AlpnInvariant, PTL

(* A handshake that goes on uses the first protocol of the server's option  *)
(* that the client offers.                                                  *)
THEOREM AlpnAgreedProtocol == AlpnSpec => AgreedProtocol
<1> DEFINE Agreed(theirs) ==
        \E b \in Ends :
            /\ chosen' = Means(b) /\ Contains(theirs, Means(b))
            /\ \A c \in Ends : Contains(theirs, Means(c)) => b <= c
<1>1. ASSUME AlpnInv, NEW theirs \in Clients, quic_alpn_select_cb(theirs),
             phase' = "negotiated"
      PROVE  Agreed(theirs)
  <2> DEFINE ours == Decode(buf)
             common == Overlap(ours, theirs)
             x == Min(common)
  <2>1. phase = "select" /\ common # {} /\ chosen' = ours[x]
    BY <1>1 DEF quic_alpn_select_cb, Negotiated
  <2>2. IsMeant(ours)
    BY <1>1, <2>1, DecodedIsMeant DEF Parsed
  <2>3. DOMAIN ours \subseteq Nat
    <3>1. Encoding(buf, Meanings, i)
      BY <1>1, <2>1 DEF AlpnInv, DoneInv, Parsed
    <3>2. ours \in Lists
      BY <3>1, DecodeOfFrames DEF Encoding
    <3> HIDE DEF ours
    <3> QED
      BY <3>2 DEF Lists
  <2>4. common \subseteq DOMAIN ours
    BY DEF Overlap
  <2>5. x \in common /\ \A k \in common : x <= k
    <3> HIDE DEF common, ours
    <3> QED
      BY <2>1, <2>3, <2>4, MinIs
  <2>6. PICK at \in [DOMAIN ours -> Ends] :
           /\ \A j, k \in DOMAIN ours : j < k => at[j] < at[k]
           /\ \A b \in Ends : \E k \in DOMAIN ours : at[k] = b
           /\ \A k \in DOMAIN ours : ours[k] = Means(at[k])
    BY <2>2 DEF IsMeant
  <2>7. \A k \in DOMAIN ours : k \in common <=> Contains(theirs, ours[k])
    BY DEF Overlap
  <2>8. Ends \subseteq Nat
    BY <1>1, EndsAreNat DEF AlpnInv
  <2> HIDE DEF ours, common, x
  <2>9. /\ at[x] \in Ends /\ chosen' = Means(at[x])
        /\ Contains(theirs, Means(at[x]))
    BY <2>1, <2>4, <2>5, <2>6, <2>7
  <2>10. ASSUME NEW c \in Ends, Contains(theirs, Means(c))
         PROVE  at[x] <= c
    <3>1. PICK k \in DOMAIN ours : at[k] = c
      BY <2>6
    <3>2. k \in common /\ x <= k
      BY <2>5, <2>6, <2>7, <2>10, <3>1
    <3>3. x \in Nat /\ k \in Nat /\ x \in DOMAIN ours /\ at[x] \in Nat /\ c \in Nat
      BY <2>3, <2>4, <2>5, <2>6, <2>8, <3>1
    <3> QED
      BY <2>6, <3>1, <3>2, <3>3
  <2> QED
    BY <2>9, <2>10
<1>2. AlpnInv => \A theirs \in Clients :
                    quic_alpn_select_cb(theirs) /\ phase' = "negotiated" =>
                        Agreed(theirs)
  BY <1>1
<1> QED
  BY <1>2, AlpnInvariant, PTL DEF AgreedProtocol
=============================================================================
