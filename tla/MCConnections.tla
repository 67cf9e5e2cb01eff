--------------------------- MODULE MCConnections ---------------------------
\* Small instances of Connections for TLC.
EXTENDS Connections

\* Socket numbers are interchangeable: any unused one may be given out.
Symmetry == Permutations(Fds)

=============================================================================
