----------------------------- MODULE MCSessions -----------------------------
(* Sessions with small sets of tokens, challenges and pairings.            *)
EXTENDS Sessions, TLC

CONSTANTS s1, s2, s3, r1, r2

\* One request approves, the other one lists, revokes and signs out.  An
\* approval of nothing is a plain use, and a logout is a session that revokes
\* itself.
SplitOps == [r \in Requests |->
    IF r = r1 THEN {"approve"} ELSE {"revoke", "logout_all", "list"}]

MCSymmetry == Permutations(Ids)
=============================================================================
