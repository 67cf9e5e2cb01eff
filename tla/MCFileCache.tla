---------------------------- MODULE MCFileCache ----------------------------
\* Small instances of FileCache for TLC.
EXTENDS FileCache

\* The keys are those of two locations, the second one with min_uses 2.
CONSTANTS k1, k2
Uses == [k \in {k1, k2} |-> IF k = k1 THEN 1 ELSE 2]

\* The sizes are only written: states that differ in them alone are alike for
\* the invariants that do not speak of them.
View == <<[n \in Nodes |-> [node[n] EXCEPT !.size = 0]], queue, loading, file, req, del,
          locks, counts, dead>>

Symmetry == Permutations(Nodes) \cup Permutations(Reqs)

=============================================================================
