-------------------------------- MODULE MCAlpn --------------------------------
(* Option values for TLC: 97 and 98 are letters. *)
EXTENDS Alpn

Names == {<<>>, <<97>>, <<97, 98>>, <<97, Comma>>, <<97, 97, 97>>}
=============================================================================
