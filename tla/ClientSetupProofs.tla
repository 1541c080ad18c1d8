-------------------------- MODULE ClientSetupProofs --------------------------
(***************************************************************************)
(* Proofs about ClientSetup and the Fingerprint it calls, for any number   *)
(* of resolved addresses and any number of entries of the option.          *)
(***************************************************************************)
EXTENDS ClientSetup, TLAPS

(* The ledger, entry by entry. *)
Holds(l, a, refs) == locals = l /\ alloc = a /\ ctxRefs = refs

Cleanups == {"alpn", "peer", "ssl", "ctx", "sock"}

(* What the cleanup label has not come to yet of the first three locals. *)
Left ==
    {"sock"} \cup (IF pc \in {"alpn", "peer"} THEN {"peer"} ELSE {})
             \cup (IF pc = "alpn" THEN {"alpn"} ELSE {})

(* Up to the socket: the string, the resolver's list, the socket. *)
SocketPhase ==
    /\ pc = "arguments" => Holds({}, {}, 0)
    /\ pc = "lookup" => Holds({"alpn"}, {"alpn"}, 0)
    /\ pc = "address" => Holds({"alpn"}, {"alpn", "res"}, 0)
    /\ pc = "peer_dup" => Holds({"alpn", "sock"}, {"alpn", "sock", "res"}, 0)
    /\ pc = "returned" =>
          \/ Holds({"alpn"}, {"alpn"}, 0)
          \/ Holds({"alpn", "peer", "sock"}, {"alpn", "peer", "sock"}, 0)
    /\ pc = "ctx_new" => Holds({"alpn", "peer", "sock"}, {"alpn", "peer", "sock"}, 0)

(* From the context on: the SSL object takes over the only reference. *)
TlsPhase ==
    /\ pc \in {"configure", "ssl_new"} =>
          Holds({"alpn", "peer", "sock", "ctx"}, {"alpn", "peer", "sock", "ctx"}, 1)
    /\ pc \in {"bio_new", "settings", "connect", "fingerprint", "success"} =>
          Holds({"alpn", "peer", "sock", "ssl"},
                {"alpn", "peer", "sock", "ssl", "ctx"}, 1)

(* In the cleanup: no context, a context of ours, or an SSL object that     *)
(* holds the context, and never both locals.                                *)
CleanupPhase ==
    pc \in Cleanups =>
        \/ Holds(Left, Left, 0)
        \/ /\ pc \in {"alpn", "peer", "ssl", "ctx"}
           /\ Holds(Left \cup {"ctx"}, Left \cup {"ctx"}, 1)
        \/ /\ pc \in {"alpn", "peer", "ssl"}
           /\ Holds(Left \cup {"ssl"}, Left \cup {"ssl", "ctx"}, 1)

EndPhase ==
    /\ pc = "throw" => Holds({}, {}, 0)
    /\ pc = "done" => Holds({}, {"ssl", "sock", "ctx"}, 1)
    /\ object = IF pc = "done" THEN {"ssl", "sock"} ELSE {}

(* Only an SSL object has a BIO. *)
BioOfSsl == bio \in BOOLEAN /\ (bio => "ssl" \in alloc)

Labels ==
    {"arguments", "lookup", "address", "peer_dup", "returned", "ctx_new",
     "configure", "ssl_new", "bio_new", "settings", "connect", "fingerprint",
     "success", "throw", "done"} \cup Cleanups

Ledger ==
    /\ pc \in Labels
    /\ SocketPhase /\ TlsPhase /\ CleanupPhase /\ EndPhase /\ BioOfSsl

(* What the peer is checked for by the time each call is made. *)
ChecksInv ==
    /\ opts \in Options
    /\ pc \in {"ssl_new", "bio_new", "settings", "connect", "fingerprint", "success", "done"} =>
          (opts.verify_peer => "chain" \in checks)
    /\ pc \in {"connect", "fingerprint", "success", "done"} =>
          (opts.verify_peer /\ opts.verify_peer_name => "name" \in checks)
    /\ pc \in {"fingerprint", "success", "done"} => "handshake" \in checks
    /\ pc \in {"success", "done"} => (opts.peer_fingerprint => "pin" \in checks)

-----------------------------------------------------------------------------
(* What the option asks for, of a peer that has shown a certificate. *)
Pinned ==
    /\ spec.form \in {"string", "array"}
    /\ spec.form = "string" => spec.hexlen >= 64
    /\ \A k \in DOMAIN spec.entries :
          /\ spec.entries[k].digest = "peers"
          /\ spec.form = "array" => spec.entries[k].algo \in {"sha256", "sha512"}

PinTypes ==
    /\ spec \in Specs
    /\ step \in {"idle", "check", "loop", "free", "done"}
    /\ entry \in Nat
    /\ cert \in {"absent", "held", "freed"}
    /\ result \in {"FAILURE", "SUCCESS"}

(* The function runs at its one call site and keeps the certificate's       *)
(* reference from its first call to its last.                               *)
CertHeld ==
    /\ pc # "fingerprint" => step = "idle"
    /\ cert = "held" <=> step \in {"check", "loop", "free"}

(* The entries behind the cursor have passed: the loop ends at the first    *)
(* that does not.                                                           *)
LoopInv ==
    /\ step \in {"idle", "check"} => entry = 1 /\ result = "FAILURE"
    /\ step = "loop" =>
          /\ spec.form = "array" /\ result = "SUCCESS"
          /\ entry \in 1 .. Len(spec.entries) + 1
          /\ \A k \in 1 .. entry - 1 : EntryPasses(spec.entries[k])
    /\ step = "free" => ((result = "SUCCESS") <=> Pinned)
    /\ step = "done" => ((result = "SUCCESS") <=> (cert # "absent" /\ Pinned))

PinInv == PinTypes /\ CertHeld /\ LoopInv

SetupInv == Ledger /\ ChecksInv /\ PinInv

-----------------------------------------------------------------------------
(* A function on 1 .. m is a sequence of length m. *)
LEMMA SeqOfLength ==
    ASSUME NEW S, NEW m \in Nat, NEW q \in [1 .. m -> S]
    PROVE  q \in Seq(S) /\ Len(q) = m
  OBVIOUS

(* The shape of the option: one digest, or a sequence of entries. *)
LEMMA SpecShape ==
    ASSUME NEW s \in Specs
    PROVE  /\ s.form \in {"string", "array", "other"}
           /\ s.form = "string" => DOMAIN s.entries = {1} /\ s.hexlen \in Nat
           /\ s.form = "string" =>
                 (s.hexlen >= 64 <=> php_quic_md_for_hexlen(s.hexlen))
           /\ s.form = "array" =>
                 DOMAIN s.entries = 1 .. Len(s.entries) /\ Len(s.entries) \in Nat
           /\ s.form = "array" =>
                 \A k \in DOMAIN s.entries :
                    s.entries[k].algo \in Algorithms /\ s.entries[k].digest \in Digests
<1>1. CASE s \in [form : {"string"}, hexlen : {32, 40, 64, 96, 128, 7},
                  entries : [1 .. 1 -> [algo : {"none"}, digest : {"peers", "others"}]]]
  <2>1. DOMAIN s.entries = 1 .. 1 /\ s.form = "string"
    BY <1>1
  <2>2. 1 .. 1 = {1}
    OBVIOUS
  <2> QED
    BY <1>1, <2>1, <2>2 DEF php_quic_md_for_hexlen
<1>2. CASE s \in [form : {"array"}, hexlen : {0},
                  entries : UNION {[1 .. m -> [algo : Algorithms, digest : Digests]] :
                                       m \in 0 .. MaxEntries}]
  <2>1. s.form = "array"
    BY <1>2
  <2>2. PICK m \in 0 .. MaxEntries :
            s.entries \in [1 .. m -> [algo : Algorithms, digest : Digests]]
    BY <1>2
  <2>3. m \in Nat
    BY MaxEntriesAssumption
  <2>4. Len(s.entries) = m
    BY <2>2, <2>3, SeqOfLength
  <2> QED
    BY <2>1, <2>2, <2>3, <2>4
<1>3. CASE s \in [form : {"other"}, hexlen : {0}, entries : {<<>>}]
  BY <1>3
<1> QED
  BY <1>1, <1>2, <1>3 DEF Specs

LEMMA NoSpecIsSpec == NoSpec \in Specs
  BY DEF NoSpec, Specs

(* An entry of the array passes when it names a strong digest of the peer. *)
LEMMA PassesIff ==
    ASSUME NEW e, e.algo \in Algorithms, e.digest \in Digests
    PROVE  EntryPasses(e) <=> e.digest = "peers" /\ e.algo \in {"sha256", "sha512"}
  BY DEF EntryPasses, Known, Strong, php_quic_fp_matches, Algorithms, Digests

-----------------------------------------------------------------------------
LEMMA SetupInvInit == Init => SetupInv
<1> SUFFICES ASSUME Init PROVE SetupInv
  OBVIOUS
<1>1. Ledger
  BY DEF Init, Ledger, Labels, Cleanups, SocketPhase, TlsPhase, CleanupPhase, EndPhase,
         BioOfSsl, Holds
<1>2. ChecksInv
  BY DEF Init, ChecksInv
<1>3. PinInv
  BY NoSpecIsSpec DEF Init, NotCalled, PinInv, PinTypes, CertHeld, LoopInv
<1> QED
  BY <1>1, <1>2, <1>3 DEF SetupInv

(* The calls up to the socket. *)
LEMMA SocketKeepsLedger ==
    ASSUME Ledger, Arguments \/ Lookup \/ TryAddress \/ PeerDup \/ UdpReturned
    PROVE  Ledger'
<1> USE DEF Ledger, Labels, Cleanups, SocketPhase, TlsPhase, CleanupPhase, EndPhase,
            BioOfSsl, Holds, Goto
<1>1. CASE Arguments
  BY <1>1 DEF Arguments, Allocate
<1>2. CASE Lookup
  BY <1>2 DEF Lookup
<1>3. CASE TryAddress
  BY <1>3 DEF TryAddress, Allocate
<1>4. CASE PeerDup
  BY <1>4 DEF PeerDup
<1>5. CASE UdpReturned
  BY <1>5 DEF UdpReturned, NoSocketReleases
<1> QED
  BY <1>1, <1>2, <1>3, <1>4, <1>5

(* A call that fails hands the cleanup all three of its first locals. *)
LEMMA FailsKeepsLedger ==
    ASSUME Ledger, Fails, UNCHANGED object,
           pc \in {"ctx_new", "configure", "ssl_new", "bio_new", "settings",
                   "connect", "fingerprint"}
    PROVE  Ledger'
<1>1. Left' = {"alpn", "peer", "sock"}
  BY DEF Fails, Goto, Left
<1>2. pc' = "alpn" /\ UNCHANGED <<locals, alloc, ctxRefs, bio, object>>
  BY DEF Fails, Goto, held
<1> USE DEF Ledger, Labels, Cleanups, SocketPhase, TlsPhase, EndPhase, BioOfSsl, Holds
<1>3. CleanupPhase'
  BY <1>1, <1>2 DEF CleanupPhase
<1> QED
  BY <1>2, <1>3

(* The calls from the context on, when they succeed. *)
LEMMA TlsKeepsLedger ==
    ASSUME Ledger,
           \/ CtxNew \/ Configure \/ SSLNew \/ BioNew \/ Settings \/ Connect
           \/ CheckFingerprint \/ FingerprintChecked \/ Success
    PROVE  Ledger'
<1> USE FailsKeepsLedger
<1>1. CASE Fails
  <2>1. UNCHANGED object /\ pc \in {"ctx_new", "configure", "ssl_new", "bio_new",
                                    "settings", "connect", "fingerprint"}
    BY <1>1 DEF CtxNew, Configure, SSLNew, BioNew, Settings, Connect, CheckFingerprint,
                FingerprintChecked, Success, Fails, Goto
  <2> QED
    BY <1>1, <2>1
<1>2. CASE ~Fails
  <2> USE <1>2 DEF Ledger, Labels, Cleanups, SocketPhase, TlsPhase, CleanupPhase,
          EndPhase, BioOfSsl, Holds, Goto, held
  <2>1. CASE CtxNew
    BY <2>1 DEF CtxNew, Allocate
  <2>2. CASE Configure
    BY <2>2 DEF Configure
  <2>3. CASE SSLNew
    BY <2>3 DEF SSLNew, AfterCtxFree
  <2>4. CASE BioNew
    BY <2>4 DEF BioNew
  <2>5. CASE Settings
    BY <2>5 DEF Settings
  <2>6. CASE Connect
    BY <2>6 DEF Connect
  <2>7. CASE CheckFingerprint
    BY <2>7 DEF CheckFingerprint
  <2>8. CASE FingerprintChecked
    BY <2>8 DEF FingerprintChecked
  <2>9. CASE Success
    BY <2>9 DEF Success
  <2> QED
    BY <2>1, <2>2, <2>3, <2>4, <2>5, <2>6, <2>7, <2>8, <2>9
<1> QED
  BY <1>1, <1>2

(* One statement of the cleanup label: what is set is freed, once. *)
LEMMA CleanupKeepsLedger ==
    ASSUME Ledger, NEW x \in Cleanups, Cleanup(x)
    PROVE  Ledger'
<1> USE DEF Ledger, Labels, Cleanups, Cleanup, CleanupNext, Goto, Holds
<1>1. object = {} /\ object' = {} /\ pc' \in {"peer", "ssl", "ctx", "sock", "throw"}
  BY DEF EndPhase
<1>2. CleanupPhase' /\ (pc' = "throw" => Holds({}, {}, 0)')
  <2> USE DEF CleanupPhase, Left, FreeIfSet, CtxRefsDropped, Parts
  <2>1. CASE x = "alpn"
    BY <2>1
  <2>2. CASE x = "peer"
    BY <2>2
  <2>3. CASE x = "ssl"
    BY <2>3
  <2>4. CASE x = "ctx"
    BY <2>4
  <2>5. CASE x = "sock"
    BY <2>5
  <2> QED
    BY <2>1, <2>2, <2>3, <2>4, <2>5
<1>3. BioOfSsl'
  BY DEF FreeIfSet, BioOfSsl, Parts
<1> QED
  BY <1>1, <1>2, <1>3 DEF SocketPhase, TlsPhase, EndPhase

-----------------------------------------------------------------------------
LEMMA ChecksKept ==
    ASSUME ChecksInv, [Next]_vars
    PROVE  ChecksInv'
<1> USE DEF ChecksInv, Goto
<1>1. ASSUME NEW x \in Cleanups, Cleanup(x)
      PROVE  ChecksInv'
  BY <1>1 DEF Cleanup, CleanupNext, Cleanups
<1>2. CASE Arguments \/ Lookup \/ TryAddress \/ PeerDup \/ UdpReturned \/ CtxNew
  BY <1>2 DEF Arguments, Lookup, TryAddress, PeerDup, UdpReturned, CtxNew, Fails
<1>3. CASE Configure
  BY <1>3 DEF Configure, Fails
<1>4. CASE SSLNew \/ BioNew
  BY <1>4 DEF SSLNew, BioNew, Fails
<1>5. CASE Settings
  BY <1>5 DEF Settings, NameChecks, Fails
<1>6. CASE Connect
  BY <1>6 DEF Connect, Fails
<1>7. CASE CheckFingerprint
  BY <1>7 DEF CheckFingerprint
<1>8. CASE FingerprintChecked
  BY <1>8 DEF FingerprintChecked, Fails
<1>9. CASE Success
  BY <1>9 DEF Success
<1>10. CASE UNCHANGED vars
  BY <1>10 DEF vars
<1> QED
  BY <1>1, <1>2, <1>3, <1>4, <1>5, <1>6, <1>7, <1>8, <1>9, <1>10
     DEF Next, Setup, Cleanups

(* The function itself, statement by statement. *)
LEMMA FunctionKeepsPinInv ==
    ASSUME PinInv, CheckFingerprint
    PROVE  PinInv'
<1> USE DEF PinInv, PinTypes, CertHeld
<1>0. pc = "fingerprint" /\ pc' = pc /\ php_quic_check_fingerprint
  BY DEF CheckFingerprint
<1>1. CASE GetCertificate
  BY <1>0, <1>1 DEF GetCertificate, LoopInv
<1>2. CASE CheckString
  <2>1. spec' = spec /\ spec.form = "string" /\ step = "check" /\ step' = "free"
    BY <1>2 DEF CheckString
  <2>2. result' = "SUCCESS" <=> Pinned
    BY <1>2, <2>1, SpecShape DEF CheckString, Pinned, php_quic_fp_matches
  <2>3. LoopInv'
    BY <2>1, <2>2 DEF LoopInv, Pinned
  <2> QED
    BY <1>0, <1>2, <2>3 DEF CheckString
<1>3. CASE CheckArray
  <2>1. LoopInv'
    BY <1>3, SpecShape DEF CheckArray, LoopInv
  <2> QED
    BY <1>0, <1>3, <2>1 DEF CheckArray
<1>4. CASE CheckOther
  BY <1>0, <1>4 DEF CheckOther, LoopInv, Pinned
<1>5. CASE ArrayEntry
  <2>1. step = "loop" /\ spec' = spec /\ entry \in 1 .. Len(spec.entries) /\ entry' = entry + 1
    BY <1>5 DEF ArrayEntry, LoopInv
  <2>2. entry \in DOMAIN spec.entries /\ DOMAIN spec.entries = 1 .. Len(spec.entries)
          /\ Len(spec.entries) \in Nat
    BY <2>1, SpecShape DEF LoopInv
  <2>3. CASE EntryPasses(spec.entries[entry])
    <3>1. UNCHANGED <<result, step>>
      BY <1>5, <2>3 DEF ArrayEntry
    <3>2. \A k \in 1 .. entry' - 1 : EntryPasses(spec.entries[k])
      BY <2>1, <2>3 DEF LoopInv
    <3>3. entry' \in 1 .. Len(spec.entries) + 1
      BY <2>1, <2>2
    <3>4. LoopInv'
      BY <2>1, <3>1, <3>2, <3>3 DEF LoopInv
    <3> QED
      BY <1>0, <1>5, <2>1, <3>1, <3>4 DEF ArrayEntry
  <2>4. CASE ~EntryPasses(spec.entries[entry])
    <3>1. ~Pinned
      BY <2>1, <2>2, <2>4, SpecShape, PassesIff DEF Pinned, LoopInv
    <3>2. LoopInv'
      BY <1>5, <2>4, <3>1 DEF ArrayEntry, LoopInv, Pinned
    <3> QED
      BY <1>0, <1>5, <2>4, <3>2 DEF ArrayEntry
  <2> QED
    BY <2>3, <2>4
<1>6. CASE ArrayEnds
  <2>1. step = "loop" /\ entry = Len(spec.entries) + 1 /\ result = "SUCCESS"
    BY <1>6 DEF ArrayEnds, LoopInv
  <2>2. DOMAIN spec.entries = 1 .. entry - 1
    BY <2>1, SpecShape DEF LoopInv
  <2>3. Pinned
    BY <2>1, <2>2, SpecShape, PassesIff DEF Pinned, LoopInv
  <2>4. LoopInv'
    BY <1>6, <2>1, <2>3 DEF ArrayEnds, LoopInv, Pinned
  <2> QED
    BY <1>0, <1>6, <2>4 DEF ArrayEnds
<1>7. CASE FreeCertificate
  BY <1>0, <1>7 DEF FreeCertificate, X509_free, LoopInv, Pinned
<1> QED
  BY <1>0, <1>1, <1>2, <1>3, <1>4, <1>5, <1>6, <1>7 DEF php_quic_check_fingerprint

LEMMA PinInvKept ==
    ASSUME PinInv, [Next]_vars
    PROVE  PinInv'
<1>1. CASE Setup /\ UNCHANGED pinning
  <2>1. UNCHANGED <<spec, step, entry, cert, result>>
    BY <1>1 DEF pinning
  <2>2. pc # "fingerprint"
    BY <1>1 DEF Setup, Arguments, Lookup, TryAddress, PeerDup, UdpReturned, CtxNew,
                Configure, SSLNew, BioNew, Settings, Connect, Success, Cleanup
  <2> QED
    BY <2>1, <2>2 DEF PinInv, PinTypes, CertHeld, LoopInv, Pinned
<1>2. CASE CheckFingerprint
  BY <1>2, FunctionKeepsPinInv
<1>3. CASE FingerprintChecked
  BY <1>3, NoSpecIsSpec DEF FingerprintChecked, Returned, PinInv, PinTypes, CertHeld, LoopInv
<1>4. CASE UNCHANGED vars
  BY <1>4 DEF vars, pinning, PinInv, PinTypes, CertHeld, LoopInv, Pinned
<1> QED
  BY <1>1, <1>2, <1>3, <1>4 DEF Next

LEMMA SetupInvKept == SetupInv /\ [Next]_vars => SetupInv'
<1> SUFFICES ASSUME SetupInv, [Next]_vars PROVE SetupInv'
  OBVIOUS
<1>1. Ledger'
  <2>1. CASE UNCHANGED vars
    BY <2>1 DEF SetupInv, Ledger, Labels, Cleanups, SocketPhase, TlsPhase, CleanupPhase,
                EndPhase, BioOfSsl, Holds, Left, vars, held
  <2>2. CASE Next
    BY <2>2, SocketKeepsLedger, TlsKeepsLedger, CleanupKeepsLedger
       DEF SetupInv, Next, Setup, Cleanups
  <2> QED
    BY <2>1, <2>2
<1>2. ChecksInv' /\ PinInv'
  BY ChecksKept, PinInvKept DEF SetupInv
<1> QED
  BY <1>1, <1>2 DEF SetupInv

LEMMA SetupInvHolds == Spec => []SetupInv
  BY SetupInvInit, SetupInvKept, PTL DEF Spec

-----------------------------------------------------------------------------
(* Quic\Connection::__construct(): whichever calls fail, and through the    *)
(* whole cleanup label, no local and no field points at something freed, no *)
(* BIO uses a closed descriptor, and the SSL_CTX lives exactly as long as   *)
(* it is referenced.                                                        *)
THEOREM ClientLedgerSound == Spec => []LedgerSound
<1>1. SetupInv => LedgerSound
  <2> SUFFICES ASSUME Ledger PROVE LedgerSound
    BY DEF SetupInv
  <2> USE DEF Ledger, Labels, Cleanups, SocketPhase, TlsPhase, CleanupPhase, EndPhase,
              BioOfSsl, Holds, Left
  <2>1. PointersAlive
    BY DEF PointersAlive, Parts
  <2>2. BioSocketOpen
    BY DEF BioSocketOpen
  <2>3. ctxRefs \in Nat /\ ("ctx" \in alloc <=> ctxRefs > 0)
    OBVIOUS
  <2> QED
    BY <2>1, <2>2, <2>3 DEF LedgerSound
<1> QED
  BY <1>1, SetupInvHolds, PTL

(* A constructor that throws leaves nothing allocated, no reference to the  *)
(* peer's certificate included, and an empty object.                        *)
THEOREM ClientThrowLeavesNothing == Spec => []ThrowLeavesNothing
<1>1. SetupInv => ThrowLeavesNothing
  BY DEF SetupInv, Ledger, EndPhase, Holds, PinInv, CertHeld, ThrowLeavesNothing
<1> QED
  BY <1>1, SetupInvHolds, PTL

(* A connection that userland gets to see has passed every check that its   *)
(* options ask for and owns its SSL object and socket, and nothing else.    *)
THEOREM ClientDoneIsVerified == Spec => []DoneIsVerified
<1>1. SetupInv => DoneIsVerified
  BY DEF SetupInv, Ledger, EndPhase, Holds, ChecksInv, PinInv, CertHeld, DoneIsVerified
<1> QED
  BY <1>1, SetupInvHolds, PTL

(* php_quic_check_fingerprint() answers SUCCESS exactly when the peer has   *)
(* shown a certificate that has every digest of the option, each strong     *)
(* enough, however many entries there are.                                  *)
THEOREM ClientPinnedToAll == Spec => []PinnedToAll
<1>1. SetupInv => PinnedToAll
  BY DEF SetupInv, PinInv, PinTypes, LoopInv, Pinned, PinnedToAll
<1> QED
  BY <1>1, SetupInvHolds, PTL
=============================================================================
