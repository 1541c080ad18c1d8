------------------------------ MODULE TlsContext ------------------------------
(***************************************************************************)
(* What the TLS options do: php_quic_configure_ctx() sets up an SSL_CTX    *)
(* step by step, each step able to fail, and the verification callback     *)
(* decides on the errors OpenSSL finds in the peer's chain.  Files and     *)
(* strings are told apart by what happens when they are used; "nul" is a   *)
(* string with a NUL byte in it.                                           *)
(***************************************************************************)
EXTENDS Naturals

Settings == {"absent", "true", "false"}

SelfSigned == {"leaf_self_signed", "chain_self_signed"}
ChainErrors == SelfSigned \cup {"expired"}

Options ==
    [verify_peer : Settings, verify_peer_name : Settings, allow_self_signed : BOOLEAN,
     local_cert : {"absent", "nul", "good", "bad"},
     key : {"plain", "encrypted", "foreign", "bad"},
     passphrase : {"absent", "nul", "right"},
     ca : {"absent", "nul", "good", "bad"},
     tuning : {"absent", "good", "bad"}]

VARIABLES
    is_server,
    opts,       \* key: the private key that local_pk, or local_cert, names
    stage,      \* the next step, then "success" or "failure", and after a
                \* handshake "accepted" or "refused"
    ctx,        \* the SSL_CTX
    out,        \* php_quic_tls_setup
    peer        \* the peer of the handshake

tlsVars == <<is_server, opts, stage, ctx, out, peer>>

TlsInit ==
    /\ is_server \in BOOLEAN
    /\ opts \in Options
    /\ stage = "cert"
    /\ ctx = [passwd |-> FALSE, identity |-> "none", verify |-> {}, trust |-> "none",
              allow |-> FALSE]
    /\ out = [verify_peer |-> FALSE, verify_peer_name |-> FALSE]
    /\ peer = [cert |-> FALSE, errors |-> {}]

-----------------------------------------------------------------------------
(* Absent, no string and NUL inside are all one to the caller. *)
php_quic_opt_string(v) == IF v = "nul" THEN "absent" ELSE v

verify_peer ==
    opts.verify_peer = "true" \/ (opts.verify_peer = "absent" /\ ~is_server)

verify_peer_name ==
    IF opts.verify_peer_name = "absent" THEN verify_peer
    ELSE opts.verify_peer_name = "true"

HasPassphrase == php_quic_opt_string(opts.passphrase) # "absent"

Proceed(step) == stage' = step /\ UNCHANGED <<is_server, opts, peer>>

Refuse == Proceed("failure") /\ UNCHANGED <<ctx, out>>

(* SSL_CTX_use_certificate_chain_file, with the passphrase callback set. *)
LoadCert ==
    LET cert == php_quic_opt_string(opts.local_cert)
    IN  /\ stage = "cert"
        /\ \/ cert = "absent" /\ is_server /\ Refuse
           \/ cert = "absent" /\ ~is_server /\ Proceed("verify") /\ UNCHANGED <<ctx, out>>
           \/ /\ cert = "bad" /\ Proceed("failure")
              /\ ctx' = [ctx EXCEPT !.passwd = HasPassphrase] /\ UNCHANGED out
           \/ /\ cert = "good" /\ Proceed("key")
              /\ ctx' = [ctx EXCEPT !.passwd = HasPassphrase] /\ UNCHANGED out

(* Answers from the pointer the context holds, if any. *)
php_quic_passwd_cb == ctx.passwd

(* SSL_CTX_use_PrivateKey_file; OpenSSL may refuse a key that does not      *)
(* belong to the certificate at once.                                       *)
LoadKey ==
    /\ stage = "key"
    /\ \/ opts.key \in {"bad", "foreign"} /\ Refuse
       \/ opts.key = "encrypted" /\ ~php_quic_passwd_cb /\ Refuse
       \/ /\ \/ opts.key \in {"plain", "foreign"}
             \/ opts.key = "encrypted" /\ php_quic_passwd_cb
          /\ Proceed("check_key")
          /\ ctx' = [ctx EXCEPT !.identity = "loaded"] /\ UNCHANGED out

(* Mutant: the borrowed passphrase stays in the context. *)
PassphraseKept == ctx.passwd

(* Both settings are cleared when the key is in. *)
PassphraseDropped == FALSE

(* SSL_CTX_check_private_key *)
KeyMatches == opts.key # "foreign"

CheckKey ==
    /\ stage = "check_key"
    /\ \/ ~KeyMatches /\ Refuse
       \/ /\ KeyMatches /\ Proceed("verify")
          /\ ctx' = [ctx EXCEPT !.passwd = PassphraseDropped] /\ UNCHANGED out

VerifyMode == IF is_server THEN {"PEER", "FAIL_IF_NO_PEER_CERT"} ELSE {"PEER"}

SetVerify ==
    LET ca == php_quic_opt_string(opts.ca)
        set == [ctx EXCEPT !.verify = VerifyMode, !.allow = opts.allow_self_signed]
    IN  /\ stage = "verify"
        /\ \/ /\ ~verify_peer /\ Proceed("tuning") /\ UNCHANGED <<ctx, out>>
           \/ /\ verify_peer /\ ca = "bad" /\ Proceed("failure")
              /\ ctx' = set /\ UNCHANGED out
           \/ /\ verify_peer /\ ca = "good" /\ Proceed("tuning")
              /\ ctx' = [set EXCEPT !.trust = "given"] /\ UNCHANGED out
           \/ /\ verify_peer /\ ca = "absent" /\ Proceed("tuning")
              /\ ctx' = [set EXCEPT !.trust = IF is_server THEN "none" ELSE "default"]
              /\ UNCHANGED out

(* ciphersuites, groups, sigalgs, security_level; then the caller's copy. *)
Tuning ==
    /\ stage = "tuning"
    /\ \/ php_quic_opt_string(opts.tuning) = "bad" /\ Refuse
       \/ /\ php_quic_opt_string(opts.tuning) # "bad" /\ Proceed("success")
          /\ out' = [verify_peer |-> verify_peer, verify_peer_name |-> verify_peer_name]
          /\ UNCHANGED ctx

-----------------------------------------------------------------------------
(* Mutant: allow_self_signed forgives every error. *)
VerifyCbAny(error) == ctx.allow

(* Called by OpenSSL for each error in the chain: go on, or refuse. *)
php_quic_verify_cb(error) == ctx.allow /\ error \in SelfSigned

(* The handshake: a server always shows a certificate, a client may not;    *)
(* without a trust store a chain has at least one error.                    *)
Handshake ==
    /\ stage = "success"
    /\ \E cert \in BOOLEAN, errors \in SUBSET ChainErrors :
          /\ ~is_server => cert
          /\ ~cert => errors = {}
          /\ cert /\ ctx.trust = "none" => errors # {}
          /\ peer' = [cert |-> cert, errors |-> errors]
          /\ stage' = IF \/ ctx.verify = {}
                         \/ ~cert /\ "FAIL_IF_NO_PEER_CERT" \notin ctx.verify
                         \/ cert /\ \A e \in errors : php_quic_verify_cb(e)
                      THEN "accepted" ELSE "refused"
    /\ UNCHANGED <<is_server, opts, ctx, out>>

TlsNext == LoadCert \/ LoadKey \/ CheckKey \/ SetVerify \/ Tuning \/ Handshake

TlsSpec == TlsInit /\ [][TlsNext]_tlsVars

-----------------------------------------------------------------------------
(* Properties *)

Configured == stage \in {"success", "accepted", "refused"}

(* Who asked for verification: whoever said so, and clients by default.     *)
AskedToVerify ==
    opts.verify_peer # "false" /\ (is_server => opts.verify_peer = "true")

(* Whoever verifies accepts no peer without a certificate, and none whose   *)
(* chain has an error, unless every error is one of the two self-signed     *)
(* ones and they were allowed: the option downgrades no other error.  The   *)
(* name check that follows is off only where verify_peer_name was.          *)
PeerVerified ==
    (stage = "accepted" /\ AskedToVerify) =>
        /\ peer.cert
        /\ peer.errors = {} \/ (opts.allow_self_signed /\ peer.errors \subseteq SelfSigned)
        /\ out.verify_peer_name \/ opts.verify_peer_name = "false"

(* A server that starts, and a client that was given a local_cert, has the  *)
(* certificate loaded with the key that belongs to it: one that cannot be   *)
(* loaded is not passed over.  The pointer to the caller's passphrase       *)
(* string is not left in the context, which outlives the call.              *)
ContextComplete ==
    Configured =>
        /\ is_server \/ opts.local_cert \in {"good", "bad"} => ctx.identity = "loaded"
        /\ ctx.identity = "loaded" =>
               opts.local_cert = "good" /\ opts.key \in {"plain", "encrypted"}
        /\ ~ctx.passwd
=============================================================================
