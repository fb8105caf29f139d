----------------------- MODULE MCNotificationDispatch -----------------------
(* Small instances of NotificationDispatch for TLC. *)
EXTENDS NotificationDispatch, TLC

CONSTANTS u1, u2, c1, c2, p1, p2

\* One device of one user, or one device each of two users.
OneUser  == {u1}
OneOwner == [c \in {c1} |-> u1]
TwoUsers == {u1, u2}
TwoOwner == [c \in {c1, c2} |-> IF c = c1 THEN u1 ELSE u2]

\* How often a slot is connected: once; or the failing slot c1 once more.
Once      == [c \in Channels |-> 1]
C1Returns == [c \in Channels |-> IF c = c1 THEN 2 ELSE 1]

\* Passes are interchangeable.
PassSymmetry == Permutations(Passes)
=============================================================================
