-------------------------------- MODULE Outbox --------------------------------
(***************************************************************************)
(* What the outbox promises, with no cursor, page or run: an event that    *)
(* was written owes itself to a set of users, reaches users who follow its *)
(* subject, each of them once, and is closed when nobody is owed any more. *)
(***************************************************************************)
EXTENDS Naturals

CONSTANTS Users, Jobs

VARIABLES
    written, \* events that were written
    closed,  \* events that are done
    owed,    \* owed[j]: users who follow the subject of j since it was written
    met,     \* met[j]: users who followed it at any time since
    told     \* told[u][j]: times user u was told of j

vars == <<written, closed, owed, met, told>>

Init ==
    /\ written = {} /\ closed = {}
    /\ owed = [j \in Jobs |-> {}] /\ met = [j \in Jobs |-> {}]
    /\ told = [u \in Users |-> [j \in Jobs |-> 0]]

Write(j, A) ==
    /\ j \notin written
    /\ written' = written \cup {j}
    /\ owed' = [owed EXCEPT ![j] = A]
    /\ met' = [met EXCEPT ![j] = A]
    /\ UNCHANGED <<closed, told>>

\* u turns to other subjects: no event is owed to u any more, and events in S,
\* which were written before, may reach u from now on.
Move(u, S) ==
    /\ S \subseteq written
    /\ owed' = [j \in Jobs |-> owed[j] \ {u}]
    /\ met' = [j \in Jobs |-> IF j \in S THEN met[j] \cup {u} ELSE met[j]]
    /\ UNCHANGED <<written, closed, told>>

\* Some who met j are told, nobody for the second time.
Tell(j, A) ==
    /\ A \subseteq met[j]
    /\ \A u \in A : told[u][j] = 0
    /\ told' = [u \in Users |-> [told[u] EXCEPT ![j] = IF u \in A THEN 1 ELSE @]]
    /\ UNCHANGED <<written, owed, met>>

\* No event is closed while it is owed to someone.
Close(j) ==
    /\ j \in written
    /\ \A u \in owed[j] : told'[u][j] > 0
    /\ closed' = closed \cup {j}

Next ==
    \/ \E j \in Jobs, A \in SUBSET Users : Write(j, A)
    \/ \E u \in Users, S \in SUBSET Jobs : Move(u, S)
    \/ \E j \in Jobs, A \in SUBSET Users : Tell(j, A) /\ (Close(j) \/ UNCHANGED closed)

Spec == Init /\ [][Next]_vars
=============================================================================
