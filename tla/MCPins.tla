------------------------------- MODULE MCPins -------------------------------
(* A small instance of Pins for TLC: one removable document behind one that   *)
(* the account never lets go.                                                 *)
EXTENDS Pins

CONSTANTS dead, doc, g1, g2, s1

MCBacklogFile == [d \in Backlog |-> 1]

=============================================================================
