----------------------------- MODULE ClientSetup -----------------------------
(***************************************************************************)
(* Quic\Connection::__construct(): a client connection is put together     *)
(* from a dozen calls, any of which can fail, and either all of it ends up *)
(* in the object or none of it survives.  The module keeps the ledger: what*)
(* is allocated, which C locals still point at it, and what the handshake  *)
(* was told to verify.                                                     *)
(***************************************************************************)
EXTENDS SetupLedger, Fingerprint

CONSTANT MaxAddrs   \* bound: addresses a host name resolves to

ASSUME MaxAddrsAssumption == MaxAddrs \in Nat \ {0}

VARIABLES
    opts,       \* the options that matter here
    checks      \* what the peer has been or will be checked for

vars == <<pc, addrs, held, object, opts, checks, pinning>>

Options == [verify_peer : BOOLEAN, verify_peer_name : BOOLEAN,
            SNI_enabled : BOOLEAN, peer_fingerprint : BOOLEAN]

Init ==
    /\ opts \in Options
    /\ pc = "arguments" /\ addrs = 0
    /\ locals = {} /\ alloc = {} /\ ctxRefs = 0 /\ bio = FALSE
    /\ checks = {} /\ object = {}
    /\ NotCalled

-----------------------------------------------------------------------------
(* Ports, host, an object already connected, a missing or malformed alpn:   *)
(* thrown before anything is held.  The check and the conversion of the     *)
(* options are one step: userland code that the conversion runs             *)
(* (__toString of an ALPN entry) is taken not to construct the same object  *)
(* once more.                                                               *)
Arguments ==
    /\ pc = "arguments"
    /\ \/ Goto("throw") /\ UNCHANGED <<alloc, locals>>
       \/ Goto("lookup") /\ Allocate("alpn")
    /\ UNCHANGED <<addrs, ctxRefs, bio, object, opts, checks>>

(* php_quic_udp_client(): the resolver's list, or a failure. *)
Lookup ==
    /\ pc = "lookup"
    /\ \/ Goto("returned") /\ UNCHANGED <<addrs, alloc>>
       \/ /\ Goto("address")
          /\ addrs' \in 1 .. MaxAddrs
          /\ alloc' = alloc \cup {"res"}
    /\ UNCHANGED <<locals, ctxRefs, bio, object, opts, checks>>

(* A socket that cannot be connected or made non-blocking is closed again   *)
(* at once; the first one that can is kept.                                 *)
TryAddress ==
    /\ pc = "address"
    /\ \/ addrs > 0 /\ addrs' = addrs - 1 /\ UNCHANGED <<pc, alloc, locals>>
       \/ addrs > 0 /\ Allocate("sock") /\ Goto("peer_dup") /\ UNCHANGED addrs
       \/ /\ addrs = 0
          /\ alloc' = alloc \ {"res"} /\ Goto("returned")
          /\ UNCHANGED <<addrs, locals>>
    /\ UNCHANGED <<ctxRefs, bio, object, opts, checks>>

(* Without memory for the peer address the socket is closed: sock = -1. *)
PeerDup ==
    /\ pc = "peer_dup"
    /\ Goto("returned")
    /\ \/ /\ alloc' = (alloc \ {"res"}) \cup {"peer"}
          /\ locals' = locals \cup {"peer"}
       \/ /\ alloc' = alloc \ {"res", "sock"}
          /\ locals' = locals \ {"sock"}
    /\ UNCHANGED <<addrs, ctxRefs, bio, object, opts, checks>>

(* Mutant: the ALPN string is forgotten on the early return. *)
NoSocketReleasesNone == {}

(* zend_string_release(alpn) before the throw. *)
NoSocketReleases == {"alpn"}

(* Back in the constructor: fd == -1 is thrown without the cleanup label. *)
UdpReturned ==
    /\ pc = "returned"
    /\ IF "sock" \in locals
       THEN Goto("ctx_new") /\ UNCHANGED <<alloc, locals>>
       ELSE /\ Goto("throw")
            /\ alloc' = alloc \ NoSocketReleases
            /\ locals' = {}
    /\ UNCHANGED <<addrs, ctxRefs, bio, object, opts, checks>>

-----------------------------------------------------------------------------
CtxNew ==
    /\ pc = "ctx_new"
    /\ \/ Fails
       \/ Allocate("ctx") /\ ctxRefs' = 1 /\ Goto("configure") /\ UNCHANGED <<addrs, bio>>
    /\ UNCHANGED <<object, opts, checks>>

(* php_quic_configure_ctx(): the chain check is set up with the context. *)
Configure ==
    /\ pc = "configure"
    /\ \/ Fails /\ UNCHANGED checks
       \/ /\ checks' = IF opts.verify_peer THEN {"chain"} ELSE {}
          /\ Goto("ssl_new") /\ UNCHANGED <<addrs, held>>
    /\ UNCHANGED <<object, opts>>

(* ctx = NULL once the SSL object holds the only reference. *)
AfterCtxFree == (locals \cup {"ssl"}) \ {"ctx"}

(* SSL_new takes a reference on the SSL_CTX and ours is given up. *)
SSLNew ==
    /\ pc = "ssl_new"
    /\ \/ Fails
       \/ /\ alloc' = alloc \cup {"ssl"}
          /\ locals' = AfterCtxFree
          /\ Goto("bio_new") /\ UNCHANGED <<addrs, ctxRefs, bio>>
    /\ UNCHANGED <<object, opts, checks>>

BioNew ==
    /\ pc = "bio_new"
    /\ \/ Fails
       \/ bio' = TRUE /\ Goto("settings") /\ UNCHANGED <<addrs, locals, alloc, ctxRefs>>
    /\ UNCHANGED <<object, opts, checks>>

(* Mutant: the host name is left unchecked. *)
NameChecksNone == {}

(* SSL_set1_host when both the peer and its name are to be verified, and    *)
(* the name to ask for.                                                     *)
NameChecks ==
    (IF opts.verify_peer /\ opts.verify_peer_name THEN {"name"} ELSE {})
        \cup (IF opts.SNI_enabled THEN {"sni"} ELSE {})

(* ALPN, peer address, host name, SNI, idle timeout, stream mode. *)
Settings ==
    /\ pc = "settings"
    /\ \/ Fails /\ UNCHANGED checks
       \/ checks' = checks \cup NameChecks /\ Goto("connect") /\ UNCHANGED <<addrs, held>>
    /\ UNCHANGED <<object, opts>>

(* SSL_connect, blocking or with a deadline (ConnectTimed). *)
Connect ==
    /\ pc = "connect"
    /\ \/ Fails /\ UNCHANGED checks
       \/ /\ checks' = checks \cup {"handshake"}
          /\ Goto(IF opts.peer_fingerprint THEN "fingerprint" ELSE "success")
          /\ UNCHANGED <<addrs, held>>
    /\ UNCHANGED <<object, opts>>

(* php_quic_check_fingerprint() runs, and its result is looked at. *)
CheckFingerprint ==
    /\ pc = "fingerprint"
    /\ php_quic_check_fingerprint
    /\ UNCHANGED <<pc, addrs, held, object, opts, checks>>

FingerprintChecked ==
    /\ pc = "fingerprint"
    /\ Returned
    /\ \/ result = "FAILURE" /\ Fails /\ UNCHANGED checks
       \/ /\ result = "SUCCESS"
          /\ checks' = checks \cup {"pin"} /\ Goto("success") /\ UNCHANGED <<addrs, held>>
    /\ UNCHANGED <<object, opts>>

Success ==
    /\ pc = "success"
    /\ alloc' = alloc \ {"alpn", "peer"}
    /\ locals' = {}
    /\ object' = {"ssl", "sock"}
    /\ Goto("done")
    /\ UNCHANGED <<addrs, ctxRefs, bio, opts, checks>>

-----------------------------------------------------------------------------
(* Mutant: the socket is closed before the SSL object that uses it. *)
CleanupSocketFirst(x) ==
    [alpn |-> "peer", peer |-> "sock", sock |-> "ssl", ssl |-> "ctx", ctx |-> "throw"][x]

(* The order of the cleanup label. *)
CleanupNext(x) ==
    [alpn |-> "peer", peer |-> "ssl", ssl |-> "ctx", ctx |-> "sock", sock |-> "throw"][x]

Cleanup(x) ==
    /\ pc = x
    /\ FreeIfSet(x, locals)
    /\ locals' = locals \ {x}
    /\ Goto(CleanupNext(x))
    /\ UNCHANGED <<addrs, object, opts, checks>>

Setup ==
    \/ Arguments \/ Lookup \/ TryAddress \/ PeerDup \/ UdpReturned
    \/ CtxNew \/ Configure \/ SSLNew \/ BioNew \/ Settings \/ Connect \/ Success
    \/ \E x \in {"alpn", "peer", "ssl", "ctx", "sock"} : Cleanup(x)

Next ==
    \/ Setup /\ UNCHANGED pinning
    \/ CheckFingerprint
    \/ FingerprintChecked

Spec == Init /\ [][Next]_vars

-----------------------------------------------------------------------------
(* Properties *)

(* Whichever call fails, a constructor that throws leaves nothing behind:   *)
(* no socket, no SSL object, no context, no string, no reference to the     *)
(* peer's certificate, and an empty object.                                 *)
ThrowLeavesNothing ==
    pc = "throw" => alloc = {} /\ ctxRefs = 0 /\ object = {} /\ cert # "held"

(* A connection that userland gets to see has completed its handshake, with *)
(* every check the options ask for in force before the handshake or passed  *)
(* after it, and owns exactly its SSL object and its socket.                *)
DoneIsVerified ==
    pc = "done" =>
        /\ object = {"ssl", "sock"} /\ alloc = {"ssl", "sock", "ctx"} /\ ctxRefs = 1
        /\ cert # "held"
        /\ "handshake" \in checks
        /\ opts.verify_peer => "chain" \in checks
        /\ opts.verify_peer /\ opts.verify_peer_name => "name" \in checks
        /\ opts.peer_fingerprint => "pin" \in checks
=============================================================================
