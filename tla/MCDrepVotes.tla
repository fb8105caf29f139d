---------------------------- MODULE MCDrepVotes ----------------------------
(***************************************************************************)
(* Instances of DrepVotes for TLC: ballots that differ in the choice, in   *)
(* the anchor, and in both.                                                *)
(***************************************************************************)
EXTENDS DrepVotes

CONSTANTS yes, no, doc

Vote(c, u) == [choice |-> c, url |-> u]
MCBallot == {Vote(yes, doc), Vote(no, doc), Vote(no, "none")}
=============================================================================
