---------------------------- MODULE MCUpstream -----------------------------
\* Small instances of Upstream for TLC.
EXTENDS Upstream

CONSTANTS p1, p2, p3

\* Two servers with a backup server, and one server alone.
MCGroups == {[primary |-> <<p1, p2>>, backup |-> <<p3>>], [primary |-> <<p1>>, backup |-> <<>>]}
MCWeight == [p \in {p1, p2, p3} |-> IF p = p1 THEN 2 ELSE 1]
MCMaxFails == [p \in {p1, p2, p3} |-> IF p = p3 THEN 0 ELSE 1]
MCMaxConns == [p \in {p1, p2, p3} |-> IF p = p2 THEN 1 ELSE 0]

MCKinds == {[kind |-> "get", cacheable |-> TRUE], [kind |-> "post", cacheable |-> FALSE],
            [kind |-> "stream", cacheable |-> FALSE]}

Symmetry == Permutations(Workers) \cup Permutations(Reqs)

=============================================================================
