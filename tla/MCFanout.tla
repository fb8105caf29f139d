------------------------------- MODULE MCFanout -------------------------------
(* Small instances of Fanout for TLC. *)
EXTENDS FanoutDelivery

CONSTANTS dA, dB, r1, r2

OneJob  == [j \in {1} |-> dA]
TwoJobs == [j \in {1, 2} |-> IF j = 1 THEN dA ELSE dB]
=============================================================================
