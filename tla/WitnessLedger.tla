---------------------------- MODULE WitnessLedger ----------------------------
(***************************************************************************)
(* What a signing round promises, with no calls, browsers or retries: a    *)
(* witness is in and its signer told so in one step, a transaction leaves  *)
(* only with enough of them, however late.  Its entry is either closed and *)
(* its vote recorded once, or dropped with the witnesses it had; closing   *)
(* it takes a member's word, whether or not the transaction has left.      *)
(***************************************************************************)
EXTENDS Naturals

CONSTANTS Txs, Signers, Satisfying

VARIABLES
    stage,  \* none, collecting, submitted or deleted
    signed, \* the signers whose witness the entry holds
    acked,  \* the signers who were told that theirs is in
    sent,   \* transactions handed to the chain
    votes   \* times the vote of a transaction was recorded

vars == <<stage, signed, acked, sent, votes>>

Init ==
    /\ stage = [p \in Txs |-> "none"] /\ signed = [p \in Txs |-> {}]
    /\ acked = [p \in Txs |-> {}] /\ sent = {} /\ votes = [p \in Txs |-> 0]

Start(p) ==
    /\ stage[p] = "none"
    /\ stage' = [stage EXCEPT ![p] = "collecting"]
    /\ UNCHANGED <<signed, acked, sent, votes>>

Sign(p, k) ==
    /\ stage[p] = "collecting" /\ k \notin acked[p]
    /\ signed' = [signed EXCEPT ![p] = @ \cup {k}]
    /\ acked' = [acked EXCEPT ![p] = @ \cup {k}]
    /\ UNCHANGED <<stage, sent, votes>>

\* The assembled transaction may outlive its entry.
Send(p) ==
    /\ stage[p] # "none" /\ p \notin sent
    /\ \E S \in Satisfying : S \subseteq acked[p]
    /\ sent' = sent \cup {p}
    /\ UNCHANGED <<stage, signed, acked, votes>>

Settle(p) ==
    /\ stage[p] = "collecting"
    /\ stage' = [stage EXCEPT ![p] = "submitted"]
    /\ UNCHANGED <<signed, acked, sent, votes>>

Record(p) ==
    /\ stage[p] = "submitted" /\ votes[p] = 0
    /\ votes' = [votes EXCEPT ![p] = 1]
    /\ UNCHANGED <<stage, signed, acked, sent>>

Drop(P) ==
    /\ \A p \in P : stage[p] = "collecting"
    /\ stage' = [p \in Txs |-> IF p \in P THEN "deleted" ELSE stage[p]]
    /\ signed' = [p \in Txs |-> IF p \in P THEN {} ELSE signed[p]]
    /\ UNCHANGED <<acked, sent, votes>>

Next ==
    \/ \E p \in Txs : Start(p) \/ Send(p) \/ Settle(p) \/ Record(p)
    \/ \E p \in Txs, k \in Signers : Sign(p, k)
    \/ \E P \in SUBSET Txs : Drop(P)

Spec == Init /\ [][Next]_vars
=============================================================================
