--------------------------------- MODULE Alpn ---------------------------------
(***************************************************************************)
(* The ALPN option: php_quic_alpn_from_zval() turns a comma-separated      *)
(* string or an array of strings into the wire format (each protocol after *)
(* a byte with its length), and a Listener's selection callback matches a  *)
(* client's list against it.  Characters are bytes.                        *)
(***************************************************************************)
EXTENDS Naturals, Sequences, SequencesExt, FiniteSetsExt

CONSTANTS
    Alphabet,   \* bytes of the option strings, among them Comma and Blank
    MaxLen,     \* bound: length of a string option
    Protocols,  \* the strings that array options and clients name
    MaxList,    \* bound: entries of an array option or of a client's list
    MaxProto    \* longest protocol name (255, the largest length byte)

Comma == 44
Blank == 32     \* stands for the tab too

(* Names are strings of bytes, as everything is that gets into the buffer. *)
Bounds ==
    /\ Alphabet \subseteq Nat /\ {Comma, Blank} \subseteq Alphabet
    /\ Protocols \subseteq Seq(Nat)
    /\ MaxProto \in Nat \ {0} /\ MaxLen \in Nat /\ MaxList \in Nat

ASSUME BoundsAssumption == Bounds

Upto(S, k) == UNION {[1 .. m -> S] : m \in 0 .. k}

VARIABLES
    form,       \* the type of the option: "string", "array" or "other"
    spec,       \* its bytes, or its entries
    phase,      \* "parse", "select", "negotiated", "alert" or "failure"
    i, start,   \* position and start of the token, from 0 as in the code
    count,      \* protocols appended
    buf,        \* the wire format so far
    allocated,  \* the smart_str owns memory
    chosen      \* the protocol the callback selected

alpnVars == <<form, spec, phase, i, start, count, buf, allocated, chosen>>

len == Len(spec)

-----------------------------------------------------------------------------
AlpnInit ==
    /\ \/ form = "string" /\ spec \in Upto(Alphabet, MaxLen)
       \/ form = "array" /\ spec \in Upto(Protocols, MaxList)
       \/ form = "other" /\ spec = <<>>
    /\ phase = "parse" /\ i = 0 /\ start = 0 /\ count = 0
    /\ buf = <<>> /\ allocated = FALSE /\ chosen = <<>>

(* Mutant: names of any length. *)
FitsAlways(proto) == Len(proto) > 0

Fits(proto) == 0 < Len(proto) /\ Len(proto) <= MaxProto

(* The length is stored in one byte. *)
php_quic_alpn_append(proto) ==
    /\ buf' = buf \o <<Len(proto) % (MaxProto + 1)>> \o proto
    /\ allocated' = TRUE

smart_str_free == allocated' = FALSE

Fail == phase' = "failure" /\ smart_str_free

(* s[k], counted from 0. *)
At(k) == spec[k + 1]

(* Mutant: the blanks before a token are kept. *)
SkipNothing(a, b) == a

(* The two trimming loops on [a, b). *)
SkipLeft(a, b) == Min({b} \cup {k \in a .. b - 1 : At(k) # Blank})
SkipRight(a, b) == Max({a} \cup {k + 1 : k \in {j \in a .. b - 1 : At(j) # Blank}})

AtDelimiter(k) == k < len => At(k) = Comma

Token(k) ==
    LET a == SkipLeft(start, k)
    IN  SubSeq(spec, a + 1, SkipRight(a, k))

StartAfter(k) == k + 1

(* One turn of the loop over the string. *)
ScanChar ==
    /\ phase = "parse" /\ form = "string" /\ i <= len
    /\ ~AtDelimiter(i)
    /\ i' = i + 1
    /\ UNCHANGED <<form, spec, phase, start, count, buf, allocated, chosen>>

ScanToken ==
    /\ phase = "parse" /\ form = "string" /\ i <= len
    /\ AtDelimiter(i)
    /\ \/ /\ Token(i) = <<>>
          /\ UNCHANGED <<count, buf, allocated>>
       \/ /\ Token(i) # <<>> /\ Fits(Token(i))
          /\ php_quic_alpn_append(Token(i))
          /\ count' = count + 1
    /\ start' = StartAfter(i)
    /\ i' = i + 1
    /\ UNCHANGED <<form, spec, phase, chosen>>

ScanFails ==
    /\ phase = "parse" /\ form = "string" /\ i <= len
    /\ AtDelimiter(i) /\ Token(i) # <<>> /\ ~Fits(Token(i))
    /\ Fail
    /\ UNCHANGED <<form, spec, i, start, count, buf, chosen>>

ScanEnds ==
    /\ phase = "parse" /\ form = "string" /\ i = len + 1
    /\ IF count = 0 THEN Fail ELSE phase' = "select" /\ UNCHANGED allocated
    /\ UNCHANGED <<form, spec, i, start, count, buf, chosen>>

(* The loop over the array takes the entries as they are. *)
ArrayEntry ==
    /\ phase = "parse" /\ form = "array" /\ i < len
    /\ IF Fits(At(i))
       THEN php_quic_alpn_append(At(i)) /\ i' = i + 1 /\ UNCHANGED phase
       ELSE Fail /\ UNCHANGED <<buf, i>>
    /\ UNCHANGED <<form, spec, start, count, chosen>>

ArrayEnds ==
    /\ phase = "parse" /\ form = "array" /\ i = len
    /\ phase' = IF len = 0 THEN "failure" ELSE "select"
    /\ UNCHANGED <<form, spec, i, start, count, buf, allocated, chosen>>

WrongType ==
    /\ phase = "parse" /\ form = "other"
    /\ phase' = "failure"
    /\ UNCHANGED <<form, spec, i, start, count, buf, allocated, chosen>>

-----------------------------------------------------------------------------
(* The protocols of a wire buffer, as OpenSSL walks it; it stops where a    *)
(* length points past the end.                                              *)
Decode(wire) ==
    LET from[p \in 1 .. Len(wire) + 1] ==
            LET next == p + 1 + wire[p]
            IN  IF p > Len(wire) \/ next > Len(wire) + 1 THEN <<>>
                ELSE <<SubSeq(wire, p + 1, next - 1)>> \o from[next]
    IN  from[1]

(* SSL_select_next_proto: the first protocol of ours the client names, or   *)
(* the client's first and NO_OVERLAP.                                       *)
Overlap(ours, theirs) == {k \in DOMAIN ours : Contains(theirs, ours[k])}

(* Mutant: the callback takes whatever SSL_select_next_proto left in out. *)
AcceptAny(ours, theirs) == TRUE

Negotiated(ours, theirs) == Overlap(ours, theirs) # {}

quic_alpn_select_cb(theirs) ==
    LET ours == Decode(buf)
        common == Overlap(ours, theirs)
    IN  /\ phase = "select"
        /\ phase' = IF Negotiated(ours, theirs) THEN "negotiated" ELSE "alert"
        /\ chosen' = IF common = {} THEN theirs[1] ELSE ours[Min(common)]
        /\ UNCHANGED <<form, spec, i, start, count, buf, allocated>>

Clients == Upto({p \in Protocols : Fits(p)}, MaxList) \ {<<>>}

AlpnNext ==
    \/ ScanChar \/ ScanToken \/ ScanFails \/ ScanEnds
    \/ ArrayEntry \/ ArrayEnds \/ WrongType
    \/ \E theirs \in Clients : quic_alpn_select_cb(theirs)

AlpnSpec == AlpnInit /\ [][AlpnNext]_alpnVars

-----------------------------------------------------------------------------
(* Properties *)

(* What the option means.  A string: between one comma (or the start) and   *)
(* the next (or the end), the bytes from the first to the last that is no   *)
(* blank, if there is one.  An array: its entries as they are.  A protocol  *)
(* is known by the place b where it ends, or by its index.                  *)
Solid(b) ==
    {k \in 1 .. b - 1 : spec[k] # Blank /\ \A j \in k .. b - 1 : spec[j] # Comma}

Ends ==
    IF form = "string"
    THEN {b \in 1 .. len + 1 : (b <= len => spec[b] = Comma) /\ Solid(b) # {}}
    ELSE 1 .. len

Means(b) ==
    IF form = "string" THEN SubSeq(spec, Min(Solid(b)), Max(Solid(b))) ELSE spec[b]

(* The list has each protocol of the option once, in the option's order.    *)
IsMeant(protos) ==
    \E at \in [DOMAIN protos -> Ends] :
        /\ \A j, k \in DOMAIN protos : j < k => at[j] < at[k]
        /\ \A b \in Ends : \E k \in DOMAIN protos : at[k] = b
        /\ \A k \in DOMAIN protos : protos[k] = Means(at[k])

Acceptable ==
    /\ form # "other" /\ Ends # {}
    /\ \A b \in Ends : 0 < Len(Means(b)) /\ Len(Means(b)) <= MaxProto

Parsed == phase \in {"select", "negotiated", "alert"}

(* The wire buffer decodes to exactly the protocols the option means, in    *)
(* its order: no length byte wraps, no blank or comma slips in.             *)
WireMeansOption == Parsed => IsMeant(Decode(buf))

(* The option is refused exactly when it has no protocol or one of a length *)
(* that the wire format cannot carry; a refused option leaves no buffer     *)
(* behind, an accepted one has its own.                                     *)
RefusedRightly ==
    /\ phase = "failure" => ~Acceptable /\ ~allocated
    /\ Parsed => Acceptable /\ allocated

(* The handshake goes on only with a protocol that the server configured    *)
(* and the client offered, and it is the server's first such choice.        *)
AgreedProtocol ==
    [][\A theirs \in Clients :
          quic_alpn_select_cb(theirs) /\ phase' = "negotiated" =>
              \E b \in Ends :
                  /\ chosen' = Means(b) /\ Contains(theirs, Means(b))
                  /\ \A c \in Ends : Contains(theirs, Means(c)) => b <= c]_alpnVars
=============================================================================
