--------------------------- MODULE MCMultisigVote ---------------------------
(* A small instance of MultisigVote for TLC: a script that asks for all of   *)
(* its signers, and two transactions.                                        *)
EXTENDS MultisigVote, TLC

CONSTANTS t1, t2, k1, k2, r1, r2, b1, b2

MCSatisfying == {Signers}

Symmetry == Permutations(Txs) \cup Permutations(Signers) \cup Permutations(Requests) \cup Permutations(Tabs)

=============================================================================
