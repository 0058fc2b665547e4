-------------------------- MODULE MCProcessChannel --------------------------
(* ProcessChannel with small packets, a socket smaller than one packet, and    *)
(* one endpoint that sends more packets than a tick of the other takes.        *)
EXTENDS ProcessChannel

CONSTANTS a, b
TwoEnds == {a, b}
Sends == [e \in TwoEnds |-> IF e = a THEN 3 ELSE 1]
=============================================================================
