------------------------- MODULE MCRequestExecution -------------------------
(* Instances of RequestExecution for TLC.                                  *)
EXTENDS RequestExecution, TLC

CONSTANTS m1, m2, q1, admin, ghost, tenant, badkey, v1, v2

\* Two fields for every request but the last mutation, which has one.
MCNumFields == [r \in Requests |-> IF r = m2 THEN 1 ELSE 2]
MCOneField == [r \in Requests |-> IF r = m1 THEN 2 ELSE 1]

Claim(k, v) == [x \in Keys |-> IF x = k THEN v ELSE Unset]

\* m1 has a role and a claim, m2 the same claim key with another value and no
\* role, q1 a claim whose key validClaimKey refuses.
MCRole == [r \in Requests |-> IF r = m1 THEN admin ELSE NoRole]
MCClaims == [r \in Requests |->
               CASE r = m1 -> Claim(tenant, v1)
                 [] r = m2 -> Claim(tenant, v2)
                 [] r = q1 -> Claim(badkey, v1)]

\* Only the query has an identity: a claim, so it needs a transaction.
MCQueryClaims == [r \in Requests |-> Claim(tenant, IF r = q1 THEN v1 ELSE Unset)]

\* m2 runs under a role the server refuses.
MCGhostRole == [r \in Requests |-> IF r = m2 THEN ghost ELSE NoRole]

\* No identity at all.
MCNoRole == [r \in Requests |-> NoRole]
MCNoClaims == [r \in Requests |-> [k \in Keys |-> Unset]]
=============================================================================
