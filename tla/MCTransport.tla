---------------------------- MODULE MCTransport ----------------------------
(* Two operations that compete for one limiter.                            *)
EXTENDS Transport

CONSTANTS c1, c2

TwoCalls == {c1, c2}
Bursts == {0, 1, 2}
============================================================================
