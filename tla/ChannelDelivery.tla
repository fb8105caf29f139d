--------------------------- MODULE ChannelDelivery ---------------------------
(***************************************************************************)
(* What push delivery promises, with no cursor, claim or pass: rows are    *)
(* posted to an audience of channels; a channel that has been connected    *)
(* receives bundles of rows that are addressed to it and that it has not   *)
(* received before; and a connection ends only when its user leaves or     *)
(* when the transport has refused that very connection, never because it   *)
(* refused an earlier connection of the same slot.                         *)
(***************************************************************************)
EXTENDS Naturals, Sequences

CONSTANTS Channels, RowIds

VARIABLES
    audience,   \* audience[i]: the channels row i concerns
    inbox,      \* inbox[c][i]: times channel c received row i
    open,       \* open[c]: whether slot c is connected
    conn,       \* conn[c]: the number of its latest connection
    gone        \* connections the transport has refused, until that is acted on

vars == <<audience, inbox, open, conn, gone>>

Init ==
    /\ audience = << >>
    /\ inbox = [c \in Channels |-> [i \in RowIds |-> 0]]
    /\ open = [c \in Channels |-> FALSE]
    /\ conn = [c \in Channels |-> 0]
    /\ gone = {}

Post ==
    /\ \E A \in SUBSET Channels : audience' = Append(audience, A)
    /\ UNCHANGED <<inbox, open, conn, gone>>

Deliver(c, S) ==
    /\ conn[c] > 0
    /\ \A i \in S : i \in DOMAIN audience /\ c \in audience[i] /\ inbox[c][i] = 0
    /\ inbox' = [inbox EXCEPT ![c] = [i \in RowIds |-> IF i \in S THEN 1 ELSE @[i]]]
    /\ UNCHANGED <<audience, open, conn, gone>>

Connect(c) ==
    /\ ~open[c]
    /\ open' = [open EXCEPT ![c] = TRUE]
    /\ conn' = [conn EXCEPT ![c] = @ + 1]
    /\ UNCHANGED <<audience, inbox, gone>>

Leave(c) ==
    /\ open[c]
    /\ open' = [open EXCEPT ![c] = FALSE]
    /\ UNCHANGED <<audience, inbox, conn, gone>>

\* The answer may come late: k need not be the latest connection any more.
Refuse(c, k) ==
    /\ k \in 1..conn[c]
    /\ gone' = gone \cup {<<c, k>>}
    /\ UNCHANGED <<audience, inbox, open, conn>>

\* A refusal is acted on, or is forgotten.
Settle(c, k) ==
    /\ <<c, k>> \in gone
    /\ gone' \in {gone, gone \ {<<c, k>>}}
    /\ \/ UNCHANGED open
       \/ conn[c] = k /\ open' = [open EXCEPT ![c] = FALSE]
    /\ UNCHANGED <<audience, inbox, conn>>

Next ==
    \/ Post
    \/ \E c \in Channels : Connect(c) \/ Leave(c)
    \/ \E c \in Channels, S \in SUBSET RowIds : Deliver(c, S)
    \/ \E c \in Channels : \E k \in 1..conn[c] : Refuse(c, k) \/ Settle(c, k)

Spec == Init /\ [][Next]_vars
=============================================================================
