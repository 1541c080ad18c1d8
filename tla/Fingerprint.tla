------------------------------ MODULE Fingerprint ------------------------------
(***************************************************************************)
(* Certificate pinning: php_quic_check_fingerprint() compares the peer's   *)
(* certificate with the peer_fingerprint option, a hex digest whose length *)
(* names the algorithm or an array of algorithm => hex digest.  A digest   *)
(* is told apart by whether it is the one of the peer's certificate.  The  *)
(* module is the function; ClientSetup calls it.                           *)
(***************************************************************************)
EXTENDS Naturals, Sequences

CONSTANT MaxEntries     \* bound: entries of an array option

ASSUME MaxEntriesAssumption == MaxEntries \in Nat

(* An array entry: the algorithm its key names ("none" for a list's key),   *)
(* and its digest.                                                          *)
Algorithms == {"none", "unknown", "md5", "sha1", "sha256", "sha512"}
Digests == {"peers", "others", "not_a_string"}

(* The forms of the option; a string is a single digest. *)
Specs ==
    [form : {"string"}, hexlen : {32, 40, 64, 96, 128, 7},
     entries : [1 .. 1 -> [algo : {"none"}, digest : {"peers", "others"}]]]
      \cup
    [form : {"array"}, hexlen : {0},
     entries : UNION {[1 .. m -> [algo : Algorithms, digest : Digests]] : m \in 0 .. MaxEntries}]
      \cup
    [form : {"other"}, hexlen : {0}, entries : {<<>>}]

VARIABLES
    spec,       \* the option
    step,       \* "idle", "check", "loop", "free" or "done"
    entry,      \* position in the array, from 1
    cert,       \* the X509 reference: "absent", "held" or "freed"
    result      \* "FAILURE" or "SUCCESS"

pinning == <<spec, step, entry, cert, result>>

NoSpec == [form |-> "other", hexlen |-> 0, entries |-> <<>>]

NotCalled ==
    /\ spec = NoSpec
    /\ step = "idle" /\ entry = 1 /\ cert = "absent" /\ result = "FAILURE"

-----------------------------------------------------------------------------
(* SSL_get1_peer_certificate takes a reference, if there is a certificate. *)
GetCertificate ==
    /\ step = "idle"
    /\ spec' \in Specs
    /\ \/ cert' = "absent" /\ step' = "done"
       \/ cert' = "held" /\ step' = "check"
    /\ UNCHANGED <<entry, result>>

php_quic_md_for_hexlen(l) == l \in {64, 96, 128}

php_quic_fp_matches(e) == e.digest = "peers"

CheckString ==
    /\ step = "check" /\ spec.form = "string"
    /\ result' = IF php_quic_md_for_hexlen(spec.hexlen)
                      /\ php_quic_fp_matches(spec.entries[1])
                 THEN "SUCCESS" ELSE "FAILURE"
    /\ step' = "free"
    /\ UNCHANGED <<spec, entry, cert>>

CheckArray ==
    /\ step = "check" /\ spec.form = "array"
    /\ result' = "SUCCESS"
    /\ step' = "loop"
    /\ UNCHANGED <<spec, entry, cert>>

CheckOther ==
    /\ step = "check" /\ spec.form = "other"
    /\ step' = "free"
    /\ UNCHANGED <<spec, entry, cert, result>>

(* Mutant: any digest function OpenSSL knows. *)
StrongUnchecked(algo) == TRUE

(* Digests of less than 32 bytes are too weak. *)
Strong(algo) == algo \in {"sha256", "sha512"}

Known(algo) == algo \notin {"none", "unknown"}

EntryPasses(e) ==
    /\ Known(e.algo) /\ e.digest # "not_a_string"
    /\ Strong(e.algo)
    /\ php_quic_fp_matches(e)

(* break: no later entry is looked at. *)
ArrayEntry ==
    /\ step = "loop" /\ entry <= Len(spec.entries)
    /\ \/ EntryPasses(spec.entries[entry]) /\ UNCHANGED <<result, step>>
       \/ ~EntryPasses(spec.entries[entry]) /\ result' = "FAILURE" /\ step' = "free"
    /\ entry' = entry + 1
    /\ UNCHANGED <<spec, cert>>

ArrayEnds ==
    /\ step = "loop" /\ entry = Len(spec.entries) + 1
    /\ step' = "free"
    /\ UNCHANGED <<spec, entry, cert, result>>

X509_free == cert' = "freed"

FreeCertificate ==
    /\ step = "free"
    /\ X509_free
    /\ step' = "done"
    /\ UNCHANGED <<spec, entry, result>>

php_quic_check_fingerprint ==
    \/ GetCertificate \/ CheckString \/ CheckArray \/ CheckOther
    \/ ArrayEntry \/ ArrayEnds \/ FreeCertificate

(* Back in the caller: the locals are gone, a reference not freed is not. *)
Returned ==
    /\ step = "done"
    /\ spec' = NoSpec
    /\ step' = "idle" /\ entry' = 1 /\ result' = "FAILURE" /\ UNCHANGED cert

-----------------------------------------------------------------------------
(* Properties *)

(* A peer passes the pinning exactly when it has shown a certificate and    *)
(* that certificate has every digest the option names, each of a digest     *)
(* function of 256 bits or more: not some of them, and whatever the order   *)
(* of the entries.  That an MD5 or SHA-1 digest never passes is what the    *)
(* code, its comment and tests/115-weak-fingerprint.phpt say; README.md:105 *)
(* of the repository still lists both.                                      *)
PinnedToAll ==
    step = "done" =>
        (result = "SUCCESS") =
            /\ cert # "absent"
            /\ spec.form \in {"string", "array"}
            /\ spec.form = "string" => spec.hexlen >= 64
            /\ \A k \in DOMAIN spec.entries :
                  /\ spec.entries[k].digest = "peers"
                  /\ spec.form = "array" => spec.entries[k].algo \in {"sha256", "sha512"}

=============================================================================
