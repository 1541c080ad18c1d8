------------------------------- MODULE BytePipe -------------------------------
(***************************************************************************)
(* What the reader of one QUIC stream is promised: the bytes the peer sent *)
(* come out once and in order, nothing comes out after the end has been    *)
(* reported, and a clean end is reported only when every byte that arrived *)
(* has been handed out.  An abnormal end (reset, connection closed) may    *)
(* cut the rest off.  Bytes are numbered, so counts say all there is.      *)
(***************************************************************************)
EXTENDS Naturals

VARIABLES
    arrived,    \* bytes received from the peer so far
    delivered,  \* bytes handed to the reader so far
    over        \* "no", or how the end was reported: "clean" or "cut"

pipeVars == <<arrived, delivered, over>>

Init == arrived = 0 /\ delivered = 0 /\ over = "no"

Arrive ==
    /\ arrived' \in Nat /\ arrived' > arrived
    /\ UNCHANGED <<delivered, over>>

Deliver ==
    /\ over = "no"
    /\ delivered' \in Nat /\ delivered < delivered' /\ delivered' <= arrived
    /\ UNCHANGED <<arrived, over>>

ReportEnd ==
    /\ over = "no"
    /\ \/ over' = "clean" /\ delivered = arrived
       \/ over' = "cut"
    /\ UNCHANGED <<arrived, delivered>>

(* Bytes that arrive later do not undo a reported end. *)
Next == Arrive \/ Deliver \/ ReportEnd

Spec == Init /\ [][Next]_pipeVars
=============================================================================
