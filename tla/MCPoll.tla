-------------------------------- MODULE MCPoll --------------------------------
(* Arguments of Quic\poll() for TLC. *)
EXTENDS Poll

(* Below zero, zero, a fraction, seconds and a fraction, the limit, above it. *)
SomeTimeouts == {Null, NaN, -3, 0, 3, 9, 12, 20}
=============================================================================
