-------------------------- MODULE MCDelegationFollow --------------------------
(* Small instances of DelegationFollow for TLC. *)
EXTENDS DelegationFollow, TLC

CONSTANTS dA, dB, l1, l2, c1

\* Accounts that a sign-in resolved in the first unit: no DRep, and so no start,
\* after one lookup.
Resolved == [tracked |-> TRUE, drep |-> NoDrep, attempted |-> 1,
             since |-> 0, sinceAt |-> 1, tries |-> 1, expAt |-> 0]

\* The run begins when all accounts, or all but the first, are in that state.
\* Both are states of Spec, up to the counters of what the bounds allow.
InitResolved ==
    /\ clock = 1
    /\ wallet = [u \in Users |-> [history |-> <<NoDrep>>, moved |-> 0, submitted |-> Unset, own |-> {}]]
    /\ \E known \in {Users, Users \ {1}} :
         row = [u \in Users |-> IF u \in known THEN Resolved
                                ELSE [tracked |-> FALSE, drep |-> Unset, attempted |-> 0,
                                      since |-> 0, sinceAt |-> 0, tries |-> 0, expAt |-> 0]]
    /\ inbox = [u \in Users |-> {}]
    /\ task = [t \in Tasks |-> Resting]
    /\ moves = 0 /\ logins = 0 /\ failures = 0 /\ faults = 0

SpecResolved == InitResolved /\ [][Next]_vars

\* Sign-ins, and likewise DReps, are interchangeable.
Symmetry == Permutations(Logins) \cup Permutations(Dreps)
=============================================================================
