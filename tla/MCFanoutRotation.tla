--------------------------- MODULE MCFanoutRotation ---------------------------
(* A small instance of FanoutRotation for TLC. *)
EXTENDS FanoutRotation

CONSTANTS dA, dB, r1

\* A job with every follower, and one with none.
MegaJob == [j \in {1, 2} |-> IF j = 1 THEN dA ELSE dB]
=============================================================================
