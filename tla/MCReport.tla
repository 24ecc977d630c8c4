----------------------------- MODULE MCReport -----------------------------
(* Two traffic blocks whose packets are expected to be accepted and        *)
(* dropped.                                                                *)
EXTENDS Report

CONSTANTS b1, b2

MCPolicy     == [b \in {b1, b2} |-> IF b = b1 THEN "ACCEPT" ELSE "DROP"]
MCnumPackets == [b \in {b1, b2} |-> IF b = b1 THEN 2 ELSE 1]
=============================================================================
